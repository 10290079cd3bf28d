-------------------------------- MODULE Affix --------------------------------
(***************************************************************************)
(* The dictionary's word analysis (words/affix.rs).                        *)
(*                                                                         *)
(* A word is accepted when it is an entry of the dictionary, or an entry   *)
(* with a prefix and at most two suffixes one on top of the other, as the  *)
(* flags of entries and rules allow.  The checker takes affixes off the    *)
(* word; inflected_forms, which builds the bot's vocabulary, puts them on. *)
(* Texts are sequences of letters.  The files' syntax is left out: a rule  *)
(* is a record of its flag, what it strips and adds, its condition (the    *)
(* sequence of sets of letters the stem ends or begins with), whether it   *)
(* crosses with affixes of the other side, its continuation flags, and     *)
(* what its morphological description says (marks, derives).               *)
(***************************************************************************)
EXTENDS Integers, Sequences, FiniteSets, SequencesExt

CONSTANTS
    Letters,                \* the letters texts are made of
    Lexicon,                \* the entries: [word, flags, kind]
    SuffixRules, PrefixRules,
    NeedAffix, OnlyInCompound, ForbiddenWord,   \* the special flags
    Attested,               \* the risky forms known to be in use
    WantedAdds,             \* the endings of the bot's vocabulary
    Lengthens,              \* the stem vowels that lengthen, with their long form
    MaxForm,                \* INFLECT_MAX_FORM
    Looked,                 \* the words looked up
    NoRule, NoWord

(* Entries, rules and the words looked up are made of letters. *)
ASSUME AffixAssumption ==
    /\ \A e \in Lexicon : e.word \in Seq(Letters)
    /\ \A r \in SuffixRules \union PrefixRules :
          r.strip \in Seq(Letters) /\ r.add \in Seq(Letters) /\ r.cond \in Seq(SUBSET Letters)
    /\ \A w \in Looked : w \in Seq(Letters)
    /\ NoRule \notin SuffixRules \union PrefixRules

(* No ending strips the whole of an entry that takes it: so it is in the    *)
(* files the program is built with (dict/hu_HU.aff and hu_HU.dic).  Nothing *)
(* in affix.rs demands it.                                                  *)
ASSUME StripsLeaveSomething ==
    \A e \in Lexicon, r \in SuffixRules : r.flag \in e.flags => r.strip # e.word

VARIABLE word
affixVars == <<word>>

-----------------------------------------------------------------------------
(* Rules.                                                                  *)
Continues(rule, flag) == rule # NoRule /\ flag \in rule.cont
NeedsMore(rule) == NeedAffix \in rule.cont
CompoundOnly(rule) == OnlyInCompound \in rule.cont

\* The flags some rule continues with: what an outer suffix may have.
ContFlags == UNION {rule.cont : rule \in SuffixRules \union PrefixRules}

EndsLike(stem, cond) ==
    Len(stem) >= Len(cond) /\ \A i \in DOMAIN cond : stem[Len(stem) - Len(cond) + i] \in cond[i]
StartsLike(stem, cond) ==
    Len(stem) >= Len(cond) /\ \A i \in DOMAIN cond : stem[i] \in cond[i]

Risk(rule) ==
    (IF "FAMILIAR" \in rule.marks THEN {"familiar"} ELSE {})
    \union (IF "ESS" \notin rule.marks THEN {}
            ELSE CASE rule.derives = "noun" -> {"derived"}
                   [] rule.derives = "none" -> {"essive"}
                   [] OTHER -> {})
    \union (IF "MRS" \in rule.marks THEN {"derivation"} ELSE {})
    \union (IF "POSS" \notin rule.marks THEN {}
            ELSE CASE rule.derives = "adj" -> {"derived"}
                   [] rule.derives = "none" -> {"possessive"}
                   [] OTHER -> {})

AlwaysRisky == {"familiar", "derived", "derivation"}

\* The derivation is risky on a stem that is an adjective, or is none.
RiskyOn(rule, adjective) ==
    \/ Risk(rule) \intersect AlwaysRisky # {}
    \/ "possessive" \in Risk(rule) /\ adjective
    \/ "essive" \in Risk(rule) /\ ~adjective

IsRisky(kind, rule, outer) ==
    LET adjective == "adj" \in kind
        inner == rule.derives = "adj" \/ (rule.derives = "none" /\ adjective)
    IN  RiskyOn(rule, adjective) \/ (outer # NoRule /\ RiskyOn(outer, inner))

-----------------------------------------------------------------------------
(* Analysis: affixes are taken off.                                        *)
UsableEntries(stem) ==
    {e \in Lexicon : /\ e.word = stem
                     /\ "foreign" \notin e.kind
                     /\ {ForbiddenWord, OnlyInCompound} \intersect e.flags = {}}

Matches(e, rule, pfx, outer) ==
    /\ rule.flag \in e.flags \/ Continues(pfx, rule.flag)
    /\ pfx # NoRule => pfx.flag \in e.flags \union rule.cont
    /\ outer # NoRule => outer.flag \in rule.cont

StemOk(stem, rule, pfx, outer, allowRisky) ==
    \E e \in UsableEntries(stem) :
        Matches(e, rule, pfx, outer) /\ (allowRisky \/ ~IsRisky(e.kind, rule, outer))

\* Something of the word is left when the affix is gone.
SuffixCandidates(w) == {r \in SuffixRules : Len(r.add) < Len(w) /\ IsSuffix(r.add, w)}
PrefixCandidates(w) == {r \in PrefixRules : Len(r.add) < Len(w) /\ IsPrefix(r.add, w)}
WithoutSuffix(w, rule) == SubSeq(w, 1, Len(w) - Len(rule.add)) \o rule.strip
WithoutPrefix(w, rule) == rule.strip \o SubSeq(w, Len(rule.add) + 1, Len(w))

Crosses(rule, pfx) == pfx = NoRule \/ (rule.cross /\ pfx.cross)

\* The suffixes that may come off next, with the stem each leaves.
Innermost(w, pfx, outer) ==
    {r \in SuffixCandidates(w) :
        /\ ~CompoundOnly(r)
        /\ outer = NoRule /\ NeedsMore(r) => pfx # NoRule /\ ~NeedsMore(pfx)
        /\ Crosses(r, pfx)
        /\ EndsLike(WithoutSuffix(w, r), r.cond)}

SuffixCheck(w, pfx, outer, allowRisky) ==
    \E r \in Innermost(w, pfx, outer) : StemOk(WithoutSuffix(w, r), r, pfx, outer, allowRisky)

Outermost(w, pfx) ==
    {r \in SuffixCandidates(w) :
        /\ r.flag \in ContFlags
        /\ ~CompoundOnly(r)
        /\ Crosses(r, pfx)
        /\ EndsLike(WithoutSuffix(w, r), r.cond)}

\* (faulty variant: the prefix is asked of the inner suffix again although the
\* outer one continues with it)
FaultSuffixCheckTwo(w, pfx, allowRisky) ==
    \E r \in Outermost(w, pfx) : SuffixCheck(WithoutSuffix(w, r), pfx, r, allowRisky)
SuffixCheckTwo(w, pfx, allowRisky) ==
    \E r \in Outermost(w, pfx) :
        SuffixCheck(WithoutSuffix(w, r),
                    IF pfx # NoRule /\ Continues(r, pfx.flag) THEN NoRule ELSE pfx, r, allowRisky)

PrefixesOff(w) ==
    {p \in PrefixCandidates(w) : ~CompoundOnly(p) /\ StartsLike(WithoutPrefix(w, p), p.cond)}

PrefixCheck(w, allowRisky) ==
    \E p \in PrefixesOff(w) :
        LET stem == WithoutPrefix(w, p)
        IN  \/ \E e \in UsableEntries(stem) : p.flag \in e.flags
            \/ p.cross /\ SuffixCheck(stem, p, NoRule, allowRisky)

PrefixCheckTwo(w, allowRisky) ==
    \E p \in PrefixesOff(w) : p.cross /\ SuffixCheckTwo(WithoutPrefix(w, p), p, allowRisky)

IsForbidden(w) == \E e \in Lexicon : e.word = w /\ ForbiddenWord \in e.flags
HasStem(w) == ~IsForbidden(w) /\ \E e \in UsableEntries(w) : NeedAffix \notin e.flags

Compute(w, allowRisky) ==
    /\ ~IsForbidden(w)
    /\ \/ HasStem(w)
       \/ PrefixCheck(w, allowRisky)
       \/ SuffixCheck(w, NoRule, NoRule, allowRisky)
       \/ SuffixCheckTwo(w, NoRule, allowRisky)
       \/ PrefixCheckTwo(w, allowRisky)

Check(w) == Compute(w, w \in Attested)

-----------------------------------------------------------------------------
(* The word inspector's explanations, and the bot's inflected forms.       *)
MatchingKinds(stem, rule, pfx, outer) ==
    {e.kind : e \in {d \in UsableEntries(stem) : Matches(d, rule, pfx, outer)}}

SuffixHits(w, pfx, outer) ==
    {r \in Innermost(w, pfx, outer) : MatchingKinds(WithoutSuffix(w, r), r, pfx, outer) # {}}

Reading(stem, suffixes) == [stem |-> stem, suffixes |-> suffixes]
BeginningReadings(w) ==
    UNION {LET stem == WithoutPrefix(w, p)
           IN  {Reading(stem, <<>>) : e \in {d \in UsableEntries(stem) : p.flag \in d.flags}}
               \union {Reading(WithoutSuffix(stem, r), <<r.add>>) : r \in IF p.cross THEN SuffixHits(stem, p, NoRule) ELSE {}}
           : p \in PrefixesOff(w)}
EndingReadings(w) == {Reading(WithoutSuffix(w, r), <<r.add>>) : r \in SuffixHits(w, NoRule, NoRule)}
TwoEndingReadings(w) ==
    UNION {LET inner == WithoutSuffix(w, o)
           IN  {Reading(WithoutSuffix(inner, r), <<r.add, o.add>>) : r \in SuffixHits(inner, NoRule, o)}
           : o \in Outermost(w, NoRule)}

Explain(w) == UNION {IF HasStem(w) THEN {Reading(w, <<>>)} ELSE {},
                     BeginningReadings(w), EndingReadings(w), TwoEndingReadings(w)}

\* The ending is wanted as it stands, or after a vowel it lengthens.
IsWanted(rule) ==
    \/ rule.add \in WantedAdds
    \/ \E v \in Lengthens :
          rule.strip = <<v.short>> /\ rule.add # <<>> /\ Head(rule.add) = v.long /\ Tail(rule.add) \in WantedAdds

Applies(rule, stem) ==
    /\ IsSuffix(rule.strip, stem)
    /\ EndsLike(stem, rule.cond)
Suffixed(stem, rule) == SubSeq(stem, 1, Len(stem) - Len(rule.strip)) \o rule.add

\* A risky form is kept only when the caller wants them and it is attested.
\* (faulty variant: when the caller wants them)
FaultKeepsForm(e, rule, risky) ==
    LET form == Suffixed(e.word, rule)
    IN  form # e.word /\ Len(form) <= MaxForm /\ (IsRisky(e.kind, rule, NoRule) => risky)
KeepsForm(e, rule, risky) ==
    LET form == Suffixed(e.word, rule)
    IN  /\ form # e.word
        /\ Len(form) <= MaxForm
        /\ \A d \in Lexicon : d.word # form
        /\ IsRisky(e.kind, rule, NoRule) => risky /\ form \in Attested

InflectedForms(stem, risky) ==
    LET rules(e) == {r \in SuffixRules : /\ IsWanted(r) /\ ~NeedsMore(r) /\ ~CompoundOnly(r)
                                         /\ r.flag \in e.flags /\ Applies(r, stem)}
    IN  UNION {{Suffixed(stem, r) : r \in {q \in rules(e) : KeepsForm(e, q, risky)}} : e \in UsableEntries(stem)}

-----------------------------------------------------------------------------
(* A word is looked up.                                                    *)
AffixInit == word = NoWord
LookUp == word = NoWord /\ word' \in Looked
AffixNext == LookUp
AffixSpec == AffixInit /\ [][AffixNext]_affixVars

-----------------------------------------------------------------------------
(* Reference: the words the rules derive, affixes put on an entry.         *)
Prefixed(stem, rule) == rule.add \o SubSeq(stem, Len(rule.strip) + 1, Len(stem))

Suffixings(stem, rules) ==
    {<<Suffixed(stem, r), r>> : r \in {q \in rules : Applies(q, stem) /\ Len(stem) > Len(q.strip)}}
Prefixings(stem, rules) ==
    {<<Prefixed(stem, p), p>> :
        p \in {q \in rules : IsPrefix(q.strip, stem) /\ StartsLike(stem, q.cond) /\ Len(stem) > Len(q.strip)}}

Simple(rules) == {r \in rules : ~CompoundOnly(r)}

\* A suffix r on the entry, under the prefix p or none: r is licensed by the
\* entry or by p, and p by the entry or by r.
Licensed(e, r, p) ==
    /\ r.flag \in e.flags \/ Continues(p, r.flag)
    /\ p # NoRule => p.cross /\ r.cross /\ (p.flag \in e.flags \/ Continues(r, p.flag))

Usable == UNION {UsableEntries(e.word) : e \in Lexicon}
Tolerated(e, r, o, allowRisky) == allowRisky \/ ~IsRisky(e.kind, r, o)

Bare == {e.word : e \in {d \in Usable : NeedAffix \notin d.flags}}

WithPrefix ==
    UNION {{x[1] : x \in Prefixings(e.word, {p \in Simple(PrefixRules) : p.flag \in e.flags})} : e \in Usable}

WithSuffix(p, allowRisky) ==
    UNION {{x[1] : x \in Suffixings(e.word, {r \in Simple(SuffixRules) :
                              /\ Licensed(e, r, p)
                              /\ Tolerated(e, r, NoRule, allowRisky)
                              /\ NeedsMore(r) => p # NoRule /\ ~NeedsMore(p)})} : e \in Usable}

\* A prefix the outer suffix itself continues with needs nothing of the inner part.
Under(p, o) == IF p # NoRule /\ Continues(o, p.flag) THEN NoRule ELSE p

WithTwoSuffixes(p, allowRisky) ==
    UNION {UNION {{x[1] : x \in Suffixings(y[1], {o \in Simple(SuffixRules) :
                              /\ Continues(y[2], o.flag)
                              /\ Tolerated(e, y[2], o, allowRisky)
                              /\ Licensed(e, y[2], Under(p, o))
                              /\ p # NoRule => p.cross /\ o.cross})}
                  : y \in Suffixings(e.word, Simple(SuffixRules))} : e \in Usable}

\* Each crossing prefix p on the words of W[p].
Crossing == {p \in Simple(PrefixRules) : p.cross}
Begun(W) == UNION {UNION {{x[1] : x \in Prefixings(w, {p})} : w \in W[p]} : p \in Crossing}

Derived(allowRisky) ==
    {w \in UNION {Bare, WithPrefix,
                  WithSuffix(NoRule, allowRisky), Begun([p \in Crossing |-> WithSuffix(p, allowRisky)]),
                  WithTwoSuffixes(NoRule, allowRisky), Begun([p \in Crossing |-> WithTwoSuffixes(p, allowRisky)])} :
        ~IsForbidden(w)}

DerivedStrict == Derived(FALSE)
DerivedLoose == Derived(TRUE)

-----------------------------------------------------------------------------
(* Properties.                                                             *)

\* Taking affixes off finds exactly the words that putting them on makes, and
\* a risky derivation counts only for an attested form (affix.rs, check).
AnalysisIsExact ==
    word # NoWord => Check(word) = (word \in IF word \in Attested THEN DerivedLoose ELSE DerivedStrict)

\* Every form the bot learns is a word of the game, attested or not, so that
\* the bot never proposes what the dictionary refuses for its ending alone;
\* and the word inspector can tell where each comes from (affix.rs,
\* inflected_forms, check and explain).
FormsAreWords ==
    word # NoWord => \A risky \in BOOLEAN :
        \A form \in InflectedForms(word, risky) : Check(form) /\ Explain(form) # {}
=============================================================================
