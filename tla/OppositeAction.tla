--------------------------- MODULE OppositeAction ---------------------------
(***************************************************************************)
(* The opposite action guard: rules that keep the answer to "approve the   *)
(* refund" from being served to "deny the refund".                         *)
(*                                                                         *)
(* A prompt is known by what the rules look for.  Facts[p] names the       *)
(* regular expressions and lists of phrases that match it, Words[p] its    *)
(* words and Digits[p] its numbers.  The rules that ask `w in text` look   *)
(* for a SUBSTRING: <<v, w>> \in Within says that the word v is written    *)
(* inside the word w, as "safe" is inside "unsafe".                        *)
(***************************************************************************)
EXTENDS Reading, Integers

CONSTANTS
    LegalSubjects,  \* shared subjects of the rule on legal status
    OppositePairs,  \* pairs of opposite words
    Negatable,      \* words that a negation turns around
    PrefixPairs     \* pairs such as <<"safe", "unsafe">>

-----------------------------------------------------------------------------

\* `w in text`
Occurs(w, p) == \E v \in Words[p] : v = w \/ <<w, v>> \in Within

Shows(f, p) == f \in Facts[p]

\* One prompt shows f and the other g, whichever is the incoming one.
Contrary(f, g, a, b) ==
    \/ Shows(f, a) /\ Shows(g, b)
    \/ Shows(g, a) /\ Shows(f, b)

\* Mutant: a prompt that refuses a refund counts as asking for it, too.
AsksRefundMutant(p) == Shows("refund_issued", p)

\* A refund that is refused against one that is asked for.  A prompt that
\* refuses does not count as asking.
AsksRefund(p) == Shows("refund_issued", p) /\ ~Shows("refund_refused", p)

\* Mutant: the rule looks one way only.
RefundPolarityMutant(a, b) == Shows("refund_refused", a) /\ AsksRefund(b)

RefundPolarity(a, b) ==
    \/ Shows("refund_refused", a) /\ AsksRefund(b)
    \/ Shows("refund_refused", b) /\ AsksRefund(a)

FollowUpUrgency(a, b) ==
    /\ Shows("follow_up", a) /\ Shows("follow_up", b)
    /\ Contrary("urgent", "routine", a, b)

\* The status of one legal instrument, in force here and over there.
InForce(p) == Shows("in_force", p) /\ ~Shows("expired", p)
Expired(p) == Shows("expired", p) /\ ~Shows("in_force", p)

LegalStatus(a, b) ==
    /\ \E s \in LegalSubjects : Occurs(s, a) /\ Occurs(s, b)
    /\ \/ InForce(a) /\ Expired(b)
       \/ InForce(b) /\ Expired(a)

LimitationPeriod(a, b) ==
    /\ Shows("limitation", a) /\ Shows("limitation", b)
    /\ Contrary("passed", "applies", a, b)

RiskDirection(a, b) ==
    /\ Occurs("risk", a) /\ Occurs("risk", b)
    /\ Contrary("increases", "reduces", a, b)

SecondFactor(a, b) ==
    /\ Shows("auth", a) /\ Shows("auth", b)
    /\ Contrary("required", "disabled", a, b)

\* One word of the pair here, the other there, and neither in both.
Opposed(v, w, a, b) ==
    /\ \/ Occurs(v, a) /\ Occurs(w, b)
       \/ Occurs(w, a) /\ Occurs(v, b)
    /\ ~(Occurs(v, a) /\ Occurs(v, b))
    /\ ~(Occurs(w, a) /\ Occurs(w, b))

OppositeWords(a, b) == \E pair \in OppositePairs : Opposed(pair[1], pair[2], a, b)

\* A word both prompts use, negated in one of them only.
NegatedKeyword(a, b) ==
    /\ \E k \in Negatable : Occurs(k, a) /\ Occurs(k, b)
    /\ ~(Shows("negation", a) <=> Shows("negation", b))

PrefixedWords(a, b) == \E pair \in PrefixPairs : Opposed(pair[1], pair[2], a, b)

OtherNumbers(a, b) ==
    Digits[a] # {} /\ Digits[b] # {} /\ Digits[a] # Digits[b]

\* The rules that need a subject both prompts share ...
ContextualOpposites(a, b) ==
    \/ RefundPolarity(a, b)
    \/ FollowUpUrgency(a, b)
    \/ LegalStatus(a, b)
    \/ LimitationPeriod(a, b)
    \/ RiskDirection(a, b)
    \/ SecondFactor(a, b)

\* ... and those that only look for words.
OppositeAction(a, b) ==
    \/ ContextualOpposites(a, b)
    \/ OppositeWords(a, b)
    \/ NegatedKeyword(a, b)
    \/ PrefixedWords(a, b)
    \/ OtherNumbers(a, b)

=============================================================================
