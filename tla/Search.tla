------------------------------- MODULE Search -------------------------------
(***************************************************************************)
(* Pure computations behind the search and the suggestions of the shop:    *)
(* services/text_utils.py and services/recommendations.py.  A text is a    *)
(* sequence of letters, already normalized; a score is a fraction.  A      *)
(* behaviour is one input.                                                 *)
(***************************************************************************)
EXTENDS Integers, Sequences, SequencesExt, FiniteSets, FiniteSetsExt

CONSTANTS
    Letters,       \* letters and the blank
    Blank,
    MaxText,       \* bound: length of a text
    Goods,         \* products in baskets
    MaxBaskets     \* bound: paid orders

ASSUME SearchAssumption == Blank \in Letters /\ MaxText \in Nat \ {0} /\ MaxBaskets \in Nat

VARIABLE query       \* the input

Texts == UNION {[1..n -> Letters] : n \in 0..MaxText}

SearchInit ==
    query \in
        [kind : {"texts"}, a : Texts, b : Texts, cut : 0..MaxText]
        \cup [kind : {"baskets"}, baskets : [1..MaxBaskets -> SUBSET Goods]]

-----------------------------------------------------------------------------
(* levenshtein.                                                            *)

(* Faulty variant of NextRow: the first place of the row is not set.       *)
NextRowUnset(a, letter, j, prev) ==
    LET row[i \in 0..Len(a)] ==
            IF i = 0 THEN prev[0]
            ELSE Min({row[i - 1] + 1, prev[i] + 1, prev[i - 1] + (IF a[i] = letter THEN 0 ELSE 1)})
    IN  row

(* The row of b's letter number j under the row before it.                 *)
NextRow(a, letter, j, prev) ==
    LET row[i \in 0..Len(a)] ==
            IF i = 0 THEN j
            ELSE Min({row[i - 1] + 1, prev[i] + 1, prev[i - 1] + (IF a[i] = letter THEN 0 ELSE 1)})
    IN  row

Table(a, b) ==
    LET rows[j \in 0..Len(b)] ==
            IF j = 0 THEN [i \in 0..Len(a) |-> i] ELSE NextRow(a, b[j], j, rows[j - 1])
    IN  rows

(* The shorter text runs along the rows; a row above the cut ends it.      *)
Levenshtein(x, y, cut) ==
    LET a == IF Len(x) > Len(y) THEN y ELSE x
        b == IF Len(x) > Len(y) THEN x ELSE y
        rows == Table(a, b)
    IN  IF x = y THEN 0
        ELSE IF a = <<>> THEN Len(b)
        ELSE IF \E j \in 1..Len(b) : \A i \in 0..Len(a) : rows[j][i] > cut THEN cut + 1
        ELSE rows[Len(b)][Len(a)]

-----------------------------------------------------------------------------
(* fuzzy_score.                                                            *)

Trigrams(s) ==
    LET padded == <<Blank, Blank>> \o s \o <<Blank, Blank>>
    IN  {SubSeq(padded, i, i + 2) : i \in 1..(Len(padded) - 2)}

Jaccard(s, t) ==
    [n |-> Cardinality(Trigrams(s) \cap Trigrams(t)), d |-> Cardinality(Trigrams(s) \cup Trigrams(t))]

(* Places where s is found in t.                                           *)
Found(s, t) == {i \in 1..(Len(t) - Len(s) + 1) : SubSeq(t, i, i + Len(s) - 1) = s}

(* A word begins with s.                                                   *)
StartsWord(s, t) ==
    \E i \in Found(s, t) : (i = 1 \/ t[i - 1] = Blank) /\ Blank \notin Range(s)

FuzzyScore(s, t) ==
    IF s = <<>> \/ t = <<>> THEN [n |-> 0, d |-> 1]
    ELSE IF s = t THEN [n |-> 1, d |-> 1]
    ELSE IF 1 \in Found(s, t) THEN [n |-> 90 * Len(t) + 10 * Len(s), d |-> 100 * Len(t)]
    ELSE IF StartsWord(s, t) THEN [n |-> 85, d |-> 100]
    ELSE IF Found(s, t) # {} THEN [n |-> 80 * Len(t) - 10 * (Min(Found(s, t)) - 1), d |-> 100 * Len(t)]
    ELSE Jaccard(s, t)

-----------------------------------------------------------------------------
(* Products bought together, by cosine; the square of it is compared.      *)

Popularity(baskets, p) == Cardinality({k \in DOMAIN baskets : p \in baskets[k]})

Together(baskets, p, q) == Cardinality({k \in DOMAIN baskets : p # q /\ {p, q} \subseteq baskets[k]})

CosineSquared(baskets, p, q) ==
    [n |-> Together(baskets, p, q) * Together(baskets, p, q), d |-> Popularity(baskets, p) * Popularity(baskets, q)]

Related(baskets, p) == {q \in Goods : Together(baskets, p, q) > 0}

-----------------------------------------------------------------------------
(* Properties.                                                             *)

(* The texts one edit away from s.                                         *)
Edits(s) ==
    {RemoveAt(s, i) : i \in DOMAIN s}
    \cup {[s EXCEPT ![i] = c] : i \in DOMAIN s, c \in Letters}
    \cup {InsertAt(s, i, c) : i \in 1..(Len(s) + 1), c \in Letters}

Within(s, n) ==
    LET ball[k \in Nat] == IF k = 0 THEN {s} ELSE UNION {{t} \cup Edits(t) : t \in ball[k - 1]}
    IN  ball[n]

(* The distance is the least number of edits, or more than the cut when    *)
(* that is.                                                                *)
DistanceTrue ==
    query.kind = "texts" =>
        LET d == Levenshtein(query.a, query.b, query.cut) IN
        IF d <= query.cut
        THEN query.b \in Within(query.a, d) /\ (d > 0 => query.b \notin Within(query.a, d - 1))
        ELSE query.b \notin Within(query.a, query.cut)

AtLeast(score, percent) == 100 * score.n >= percent * score.d

(* A normalized text neither begins nor ends with a blank.                 *)
Stripped(s) == s = <<>> \/ (Blank # s[1] /\ Blank # s[Len(s)])

(* Where the query is found decides the range of the score, and the score  *)
(* is a share.                                                             *)
ScoreRanged ==
    query.kind = "texts" /\ Stripped(query.a) /\ Stripped(query.b) =>
        LET a == query.a  b == query.b  score == FuzzyScore(query.a, query.b) IN
        /\ 0 <= score.n /\ score.n <= score.d
        /\ a # <<>> /\ Found(a, b) # {} =>
              /\ AtLeast(score, 70)
              /\ StartsWord(a, b) => AtLeast(score, 85)
              /\ IsPrefix(a, b) => AtLeast(score, 90)
              /\ ~ StartsWord(a, b) => ~ AtLeast(score, 80) \/ IsPrefix(a, b)

(* Two products are related both ways; a score is a share, and full only   *)
(* for two that are always bought together.                                *)
TogetherTrue ==
    query.kind = "baskets" =>
        LET bs == query.baskets IN
        \A p \in Goods : \A q \in Related(bs, p) :
            LET score == CosineSquared(bs, p, q) IN
            /\ p \in Related(bs, q) /\ score.n <= score.d
            /\ score.n = score.d <=> \A k \in DOMAIN bs : p \in bs[k] <=> q \in bs[k]

(* Distances, scores and relations agree with what they stand for          *)
(* (text_utils.py:89-147, recommendations.py:25-88).                       *)
MeasuresTrue == DistanceTrue /\ ScoreRanged /\ TogetherTrue
=============================================================================
