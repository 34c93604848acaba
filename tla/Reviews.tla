------------------------------ MODULE Reviews ------------------------------
(***************************************************************************)
(* Reviews of one product and the rating it shows: routers/reviews.py.     *)
(*                                                                         *)
(* Whoever changes a review computes the rating anew, from the reviews     *)
(* that are committed at that moment and the change itself, and commits    *)
(* both together.  A rating is the pair of sum and number of stars.        *)
(***************************************************************************)
EXTENDS Integers, Sequences, FiniteSets, Functions

CONSTANTS
    Editors,      \* concurrent calls of administrators
    Stars,        \* what customers give
    MaxReviews    \* bound: reviews

ASSUME ReviewsAssumption == Stars \subseteq 1..5 /\ MaxReviews \in Nat

VARIABLES
    review,     \* table product_reviews
    rating,     \* columns rating and review_count of the product
    edit,       \* edit[c]: the call editor c is in
    stale       \* observed only: calls overlapped, or reviews were erased,
                \* since the rating was last computed by a call on its own

reviewVars == <<review, rating, edit, stale>>

NoEdit == [pc |-> "idle", r |-> 0, to |-> "waiting", saw |-> "waiting", from |-> <<0, 0>>,
           rating |-> <<0, 0>>, alone |-> TRUE]

ReviewsInit ==
    /\ review = <<>> /\ rating = <<0, 0>> /\ stale = FALSE
    /\ edit = [c \in Editors |-> NoEdit]

(* The stars of the approved ones among a sequence of reviews.             *)
Average(reviews) ==
    LET approved == {r \in DOMAIN reviews : reviews[r].st = "approved"}
    IN  <<SumFunctionOnSet([r \in approved |-> reviews[r].stars], approved), Cardinality(approved)>>

CreateReview(stars) ==
    /\ Len(review) < MaxReviews
    /\ review' = Append(review, [stars |-> stars, st |-> "waiting"])
    /\ UNCHANGED <<rating, edit, stale>>

(* update_review and delete_review read the review; to: what it becomes.   *)
Open(c, r, to) ==
    LET others == {d \in Editors : edit[d].pc # "idle"} IN
    /\ edit[c].pc = "idle" /\ review[r].st # "gone"
    /\ edit' = [d \in Editors |->
                   IF d = c THEN [NoEdit EXCEPT !.pc = "read", !.r = r, !.to = to, !.saw = review[r].st,
                                                !.alone = others = {}]
                   ELSE IF d \in others THEN [edit[d] EXCEPT !.alone = FALSE] ELSE edit[d]]
    /\ stale' = (stale \/ others # {})
    /\ UNCHANGED <<review, rating>>

Writes(j)  == j.to # j.saw
Changed(j) == IF Writes(j) THEN [review EXCEPT ![j.r].st = j.to] ELSE review

(* Faulty variant of Counted: computed before the change is flushed.       *)
CountedUnflushed(j) == Average(review)

Counted(j) == Average(Changed(j))

(* The flush locks a review it changes, and fails when it is gone.         *)
Recalc(c) ==
    LET j == edit[c] IN
    /\ j.pc = "read"
    /\ Writes(j) => /\ \A d \in Editors : ~ (edit[d].pc = "flushed" /\ edit[d].r = j.r /\ Writes(edit[d]))
                    /\ review[j.r].st # "gone" \/ j.to = "gone"
    /\ edit' = [edit EXCEPT ![c].pc = "flushed", ![c].from = rating, ![c].rating = Counted(j)]
    /\ UNCHANGED <<review, rating, stale>>

(* The rating is written if it differs from the one that was read.         *)
CommitEdit(c) ==
    LET j == edit[c] IN
    /\ j.pc = "flushed"
    /\ review' = Changed(j)
    /\ rating' = IF j.rating = j.from THEN rating ELSE j.rating
    /\ stale' = (stale /\ ~ j.alone)
    /\ edit' = [edit EXCEPT ![c] = NoEdit]

FailEdit(c) ==
    /\ edit[c].pc # "idle"
    /\ edit' = [edit EXCEPT ![c] = NoEdit]
    /\ UNCHANGED <<review, rating, stale>>

(* An erasure deletes a customer's reviews and leaves the rating alone.    *)
EraseReview(r) ==
    /\ review[r].st # "gone"
    /\ \A c \in Editors : ~ (edit[c].pc = "flushed" /\ edit[c].r = r /\ Writes(edit[c]))
    /\ review' = [review EXCEPT ![r].st = "gone"]
    /\ edit' = [c \in Editors |-> [edit[c] EXCEPT !.alone = FALSE]]
    /\ stale' = TRUE
    /\ UNCHANGED rating

ReviewsNext ==
    \/ \E stars \in Stars : CreateReview(stars)
    \/ \E c \in Editors :
          \/ \E r \in DOMAIN review, to \in {"waiting", "approved", "gone"} : Open(c, r, to)
          \/ Recalc(c) \/ CommitEdit(c) \/ FailEdit(c)
    \/ \E r \in DOMAIN review : EraseReview(r)

ReviewsSpec == ReviewsInit /\ [][ReviewsNext]_reviewVars

-----------------------------------------------------------------------------
(* A product shows the average of its approved reviews, unless calls on    *)
(* its reviews overlapped or an erasure took one, and no call on its own   *)
(* has computed it since (reviews.py:1-13, 52-65).                         *)
RatingTrue == stale \/ rating = Average(review)
=============================================================================
