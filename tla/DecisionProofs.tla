--------------------------- MODULE DecisionProofs ---------------------------
(***************************************************************************)
(* Proofs about Decision, for any prompts, entries and configurations.     *)
(***************************************************************************)
EXTENDS Decision, TLAPS

-----------------------------------------------------------------------------
(* The gates do not care which prompt was cached.                          *)

\* The guard against opposite actions answers the same both ways round.
LEMMA OppositeActionSymmetric ==
  ASSUME NEW a, NEW b
  PROVE  OppositeAction(a, b) <=> OppositeAction(b, a)
<1>1. ContextualOpposites(a, b) <=> ContextualOpposites(b, a)
  <2>1. RefundPolarity(a, b) <=> RefundPolarity(b, a)
    BY DEF RefundPolarity
  <2>2. FollowUpUrgency(a, b) <=> FollowUpUrgency(b, a)
    BY DEF FollowUpUrgency, Contrary
  <2>3. LegalStatus(a, b) <=> LegalStatus(b, a)
    BY DEF LegalStatus
  <2>4. LimitationPeriod(a, b) <=> LimitationPeriod(b, a)
    BY DEF LimitationPeriod, Contrary
  <2>5. RiskDirection(a, b) <=> RiskDirection(b, a)
    BY DEF RiskDirection, Contrary
  <2>6. SecondFactor(a, b) <=> SecondFactor(b, a)
    BY DEF SecondFactor, Contrary
  <2> QED
    BY <2>1, <2>2, <2>3, <2>4, <2>5, <2>6 DEF ContextualOpposites
<1>2. \A v, w : Opposed(v, w, a, b) <=> Opposed(v, w, b, a)
  BY DEF Opposed
<1>3. OppositeWords(a, b) <=> OppositeWords(b, a)
  BY <1>2 DEF OppositeWords
<1>4. NegatedKeyword(a, b) <=> NegatedKeyword(b, a)
  BY DEF NegatedKeyword
<1>5. PrefixedWords(a, b) <=> PrefixedWords(b, a)
  BY <1>2 DEF PrefixedWords
<1>6. OtherNumbers(a, b) <=> OtherNumbers(b, a)
  BY DEF OtherNumbers
<1> QED
  BY <1>1, <1>3, <1>4, <1>5, <1>6 DEF OppositeAction

\* Every checker answers the same both ways round.
LEMMA CheckSymmetric ==
  ASSUME NEW a, NEW b, NEW d
  PROVE  Check(d, a, b) = Check(d, b, a)
<1>1. \A A, B : Differ(A, B) <=> Differ(B, A)
  BY DEF Differ
<1>2. \A A, B : SetCheck(A, B) = SetCheck(B, A)
  BY <1>1 DEF SetCheck
<1>3. \A A, B : DrugCheck(A, B) = DrugCheck(B, A)
  BY <1>1 DEF DrugCheck
<1>4. ASSUME NEW A, NEW B PROVE TemporalCheck(A, B) = TemporalCheck(B, A)
  <2>1. \A x, y : {x, y} = {y, x}
    OBVIOUS
  <2>2. \A r : (\E x \in A \ B, y \in B \ A : r = "same" <=> {x, y} \in HarmlessPairs)
          <=> (\E x \in B \ A, y \in A \ B : r = "same" <=> {x, y} \in HarmlessPairs)
    BY <2>1, Zenon
  <2> QED
    BY <2>2 DEF TemporalCheck
<1>5. \A A, B, m, n : PrivilegeCheck(A, B, m, n) = PrivilegeCheck(B, A, n, m)
  BY <1>1, <1>3 DEF PrivilegeCheck
<1>6. \A A, B : ProperNounCheck(A, B) = ProperNounCheck(B, A)
  BY DEF ProperNounCheck
<1> QED
  BY <1>2, <1>3, <1>4, <1>5, <1>6 DEF Check

\* So does the detector, whichever checkers are active.
LEMMA DetectSymmetric ==
  ASSUME NEW a, NEW b, NEW active
  PROVE  Detect(active, a, b) = Detect(active, b, a)
<1>1. \A d : Check(d, a, b) = Check(d, b, a)
  BY CheckSymmetric
<1>2. \A i, r : Ends(i, r, active, a, b) <=> Ends(i, r, active, b, a)
  BY <1>1 DEF Ends
<1>3. { k \in DOMAIN Checkers : Ends(k, "changed", active, a, b) }
      = { k \in DOMAIN Checkers : Ends(k, "changed", active, b, a) }
  BY <1>2
<1> QED
  BY <1>1, <1>2, <1>3 DEF Detect

\* Which of two prompts was cached and which is asked makes no difference to
\* the guard or to the detector.
THEOREM SymmetricGates == Spec => []Symmetric
<1>1. Symmetric
  BY OppositeActionSymmetric, DetectSymmetric DEF Symmetric
<1> QED
  BY <1>1, PTL

-----------------------------------------------------------------------------
(* Types.                                                                  *)

\* What the index answers is a sequence of entries.
LEMMA RankingsAreSequences == Rankings \subseteq Seq(Entries)
<1> SUFFICES ASSUME NEW s \in Rankings PROVE s \in Seq(Entries)
  OBVIOUS
<1>1. PICK n \in 0..TopK : s \in [1..n -> Entries]
  BY DEF Rankings
<1>2. n \in Nat
  BY EntryAssumption
<1> QED
  BY <1>1, <1>2

\* The threshold a configuration builds is a number or none.
LEMMA BuiltThresholdType ==
  ASSUME NEW c \in Configs
  PROVE  BuiltThreshold(c) \in Nat \cup {None}
BY ConfigAssumption DEF BuiltThreshold

\* A query whose search is over without a verdict has candidates.
Searched == stage = "searched" => candidates # << >>

\* ... and every step keeps that.
LEMMA SearchedStep == Searched /\ [Next]_vars => Searched'
BY DEF Searched, Next, Proceed, vars, Goto, Search, Baseline, Score, ClassifierGate, Encode,
       EntityGate, Revalidate, CallAnswers, CallFails, Wake, Cancel, Return, Evict, Reload

\* Every step keeps the types.
LEMMA TypeStep == TypeOK /\ Searched /\ [Next]_vars => TypeOK'
<1> SUFFICES ASSUME TypeOK, Searched, [Next]_vars PROVE TypeOK'
  OBVIOUS
<1>0. \A i \in DOMAIN candidates : candidates[i] \in Entries
  BY DEF TypeOK
<1> USE DEF TypeOK, Stages, scores, calls, Goto, Hit, Miss, NoVerdict
<1>1. CASE Search
  BY <1>1, RankingsAreSequences DEF Search
<1>2. ASSUME NEW cosine \in Cosines, Baseline(cosine) PROVE TypeOK'
  <2>1. candidates[1] \in Entries
    BY <1>0, <1>2 DEF Baseline, Searched
  <2>2. best' \in Entries \cup {None} /\ verdict'.decision \in {"none", "hit", "miss"}
    BY <1>2, <2>1 DEF Baseline
  <2> QED
    BY <1>2, <2>2 DEF Baseline
<1>3. CASE Score
  <2>1. best' \in Entries \cup {None} /\ mlp' \in Scores \cup {None}
    BY <1>0, <1>3 DEF Score
  <2>2. verdict'.decision \in {"none", "hit", "miss"} /\ stage' \in Stages
    BY <1>3 DEF Score
  <2> QED
    BY <1>3, <2>1, <2>2 DEF Score
<1>4. CASE ClassifierGate
  BY <1>4 DEF ClassifierGate
<1>5. ASSUME NEW score \in Scores, Encode(score) PROVE TypeOK'
  BY <1>5 DEF Encode
<1>6. CASE EntityGate
  BY <1>6 DEF EntityGate
<1>7. CASE Revalidate
  BY <1>7, ConfigAssumption DEF Revalidate
<1>8. CASE CallAnswers
  BY <1>8 DEF CallAnswers
<1>9. ASSUME NEW kind \in Failures, CallFails(kind) PROVE TypeOK'
  <2>1. Longer(backoff) \in Nat
    BY ConfigAssumption DEF Longer
  <2> QED
    BY <1>9, <2>1 DEF CallFails
<1>10. CASE Wake \/ Cancel
  BY <1>10 DEF Wake, Cancel
<1>14. CASE Return
  <2>1. candidates' \in Seq(Entries)
    BY <1>14 DEF Return
  <2>2. attempt' = 0 /\ backoff' = 0 /\ pause' = 0 /\ stage' = "idle" /\ verdict'.decision = "none"
    BY <1>14 DEF Return
  <2> QED
    BY <1>14, <2>1, <2>2 DEF Return
<1>11. ASSUME NEW e \in Entries, Evict(e) PROVE TypeOK'
  BY <1>11 DEF Evict
<1>12. ASSUME NEW t \in Checkpoints, Reload(t) PROVE TypeOK'
  BY <1>12, ScoreAssumption DEF Reload
<1>13. CASE UNCHANGED vars
  BY <1>13 DEF vars
<1> QED
  BY <1>1, <1>2, <1>3, <1>4, <1>5, <1>6, <1>7, <1>8, <1>9, <1>10, <1>11, <1>12, <1>13, <1>14
     DEF Next, Proceed

\* Every variable keeps its type, whatever is asked, evicted or reloaded.
THEOREM TypeCorrect == Spec => [](TypeOK /\ Searched)
<1>1. Init => TypeOK /\ Searched
  <2>1. Init => candidates \in Seq(Entries) /\ verdict.decision = "none"
    BY DEF Init, NoVerdict
  <2>2. Init => threshold \in Nat \cup {None}
    BY BuiltThresholdType DEF Init
  <2> QED
    BY <2>1, <2>2 DEF Init, TypeOK, Searched, Stages
<1> QED
  BY <1>1, TypeStep, SearchedStep, PTL DEF Spec

-----------------------------------------------------------------------------
(* What an accepted candidate has passed.                                  *)

\* A checker that may answer "same" sees no drift.
LEMMA SameIsNoDrift ==
  ASSUME NEW a, NEW b, NEW d, "same" \in Check(d, a, b)
  PROVE  ~Drift(d, a, b)
<1> DEFINE A == Found[a][d]
           B == Found[b][d]
<1>1. CASE d = "temporal"
  <2>1. "same" \in TemporalCheck(A, B)
    BY <1>1 DEF Check
  <2>2. A \ B = {} \/ B \ A = {} \/ \E x \in A \ B, y \in B \ A : {x, y} \in HarmlessPairs
    BY <2>1 DEF TemporalCheck
  <2> QED
    BY <1>1, <2>2 DEF Drift
<1>2. CASE d = "privilege"
  <2>1. "same" \in PrivilegeCheck(A, B, Found[a]["possessive"], Found[b]["possessive"])
    BY <1>2 DEF Check
  <2> QED
    BY <1>2, <2>1 DEF PrivilegeCheck, DrugCheck, Drift, Escalates, Differ
<1>3. CASE d = "proper_noun"
  BY <1>3 DEF Check, ProperNounCheck, Drift
<1>4. CASE d = "drug"
  BY <1>4 DEF Check, DrugCheck, Drift
<1>5. CASE d \notin {"temporal", "privilege", "proper_noun", "drug"}
  BY <1>5 DEF Check, SetCheck, Drift
<1> QED
  BY <1>1, <1>2, <1>3, <1>4, <1>5

\* A detector that may answer "none" sees no drift of an active kind.
LEMMA NoneIsNoDrift ==
  ASSUME NEW a, NEW b, NEW active, "none" \in Detect(active, a, b)
  PROVE  \A d \in active : ~Drift(d, a, b)
<1>1. \A i \in DOMAIN Checkers : Checkers[i] # "none"
  BY DEF Checkers
<1>2. \A d \in active : "same" \in Check(d, a, b)
  BY <1>1 DEF Detect
<1> QED
  BY <1>2, SameIsNoDrift

\* What each gate that is behind a candidate has seen.
Passed    == ~Opposite /\ ~BelowThreshold
Confirmed == ce >= EncoderThreshold(config, query)
Clean     == \A d \in Active(config.entities) : ~Drift(d, query, CachedPrompt[best])

Gated ==
    /\ stage \in {"idle", "searched", "scored", "cleared"} => ce = None
    /\ stage \in {"scored", "cleared", "encoded"} => config.classifies /\ mlp \in Scores
    /\ stage \in {"cleared", "encoded"} => Passed
    /\ stage = "encoded" => Confirmed
    /\ Accepted => /\ Passed /\ mlp \in Scores
                   /\ ce # None => Confirmed
                   /\ verdict.reason # "mlp_bypass" => Clean

\* Every step keeps what was seen: no gate is passed unseen, and nothing a
\* gate looks at changes until the verdict is used.
LEMMA GatedStep == Gated /\ [Next]_vars => Gated'
<1> SUFFICES ASSUME Gated, [Next]_vars PROVE Gated'
  OBVIOUS
<1> USE DEF Gated, Goto, scores, calls
<1>1. CASE Search
  BY <1>1 DEF Search, Accepted, Miss
<1>2. ASSUME NEW cosine \in Cosines, Baseline(cosine) PROVE Gated'
  BY <1>2 DEF Baseline, Accepted
<1>3. CASE Score
  <2>1. stage' = "scored" \/ (stage' = "decided" /\ verdict'.decision = "miss")
    BY <1>3 DEF Score, Miss
  <2>2. stage' = "scored" => mlp' \in Scores
    BY <1>3 DEF Score
  <2>3. stage = "searched" /\ config'.classifies /\ ce' = ce
    BY <1>3 DEF Score
  <2> QED
    BY <2>1, <2>2, <2>3 DEF Accepted
<1>4. CASE ClassifierGate
  <2>1. stage' = "cleared" \/ verdict' = Hit("mlp_bypass") => Passed'
    BY <1>4 DEF ClassifierGate, Passed, Opposite, BelowThreshold, Hit, Miss
  <2> QED
    BY <1>4, <2>1 DEF ClassifierGate, Accepted, Hit, Miss
<1>5. ASSUME NEW score \in Scores, Encode(score) PROVE Gated'
  <2>1. Passed'
    BY <1>5 DEF Encode, Passed, Opposite, BelowThreshold
  <2>2. stage' = "encoded" => Confirmed'
    BY <1>5 DEF Encode, Confirmed
  <2> QED
    BY <1>5, <2>1, <2>2 DEF Encode, Accepted, Miss
<1>6. CASE EntityGate
  <2>1. Passed'
    BY <1>6 DEF EntityGate, Passed, Opposite, BelowThreshold
  <2>2. ce' # None => Confirmed'
    BY <1>6 DEF EntityGate, Confirmed
  <2>3. verdict'.decision = "hit" /\ stage' = "decided" => Clean'
    BY <1>6, NoneIsNoDrift DEF EntityGate, Clean, Miss
  <2> QED
    BY <1>6, <2>1, <2>2, <2>3 DEF EntityGate, Accepted
<1>7. CASE Revalidate \/ CallAnswers \/ Wake \/ Cancel \/ Return
  BY <1>7 DEF Revalidate, CallAnswers, Wake, Cancel, Return, Accepted
<1>8. ASSUME NEW kind \in Failures, CallFails(kind) PROVE Gated'
  BY <1>8 DEF CallFails, Accepted
<1>9. CASE (\E e \in Entries : Evict(e)) \/ UNCHANGED vars
  <2>1. UNCHANGED << config, threshold, stage, query, best, mlp, ce, verdict >>
    BY <1>9 DEF Evict, vars
  <2>2. (Passed <=> Passed') /\ (Confirmed <=> Confirmed') /\ (Clean <=> Clean') /\ (Accepted <=> Accepted')
    BY <2>1 DEF Passed, Opposite, BelowThreshold, Confirmed, Clean, Accepted
  <2> QED
    BY <2>1, <2>2
<1>10. ASSUME NEW t \in Checkpoints, Reload(t) PROVE Gated'
  BY <1>10 DEF Reload, Accepted
<1> QED
  BY <1>1, <1>2, <1>3, <1>4, <1>5, <1>6, <1>7, <1>8, <1>9, <1>10 DEF Next, Proceed

\* So a candidate behind a gate has always been seen by it.
LEMMA AlwaysGated == Spec => []Gated
<1>1. Init => Gated
  BY DEF Init, Gated, Accepted, NoVerdict
<1> QED
  BY <1>1, GatedStep, PTL DEF Spec

\* An accepted candidate is not the opposite of what is asked, and unless the
\* bypass skipped the detector it is about the same things.
THEOREM AcceptedIsClean == Spec => []NoDriftServed
<1>1. Gated => NoDriftServed
  BY DEF Gated, NoDriftServed, Passed, Opposite, Clean
<1> QED
  BY <1>1, AlwaysGated, PTL

\* A service without a threshold accepts nothing in a high-risk domain below
\* the policy's thresholds for it.
THEOREM RiskIsHonoured == Spec => []RiskHonoured
<1>1. TypeOK /\ Gated => RiskHonoured
  <2> SUFFICES ASSUME TypeOK, Gated, Accepted, threshold = None,
                      TierOf(config, query) = "high"
               PROVE  /\ config.policy.domain_mlp[DomainOf(config, query)] = None
                           => mlp >= config.policy.high_mlp
                      /\ ce # None /\ config.encoder_threshold = None
                                 /\ config.policy.domain_ce[DomainOf(config, query)] = None
                           => ce >= config.policy.high_ce
    BY DEF RiskHonoured
  <2>1. mlp \in Nat /\ config.policy.high_mlp \in Nat
    BY ScoreAssumption, ConfigAssumption DEF Gated, TypeOK
  <2>2. ASSUME config.policy.domain_mlp[DomainOf(config, query)] = None
        PROVE  mlp >= config.policy.high_mlp
    <3>1. ClassifierThreshold(config, threshold, query) = config.policy.high_mlp
      BY <2>2 DEF ClassifierThreshold, Resolve
    <3>2. ~(mlp < config.policy.high_mlp)
      BY <3>1 DEF Gated, Passed, BelowThreshold
    <3> QED
      BY <2>1, <3>2
  <2>3. ASSUME ce # None, config.encoder_threshold = None,
               config.policy.domain_ce[DomainOf(config, query)] = None
        PROVE  ce >= config.policy.high_ce
    BY <2>3 DEF Gated, Confirmed, EncoderThreshold, Resolve
  <2> QED
    BY <2>2, <2>3
<1> QED
  BY <1>1, TypeCorrect, AlwaysGated, PTL

-----------------------------------------------------------------------------
(* Refusals, failures and retries.                                         *)

\* A prompt is its own opposite only when it takes both sides of a rule.
LEMMA OwnOpposite ==
  ASSUME NEW p, OppositeAction(p, p)
  PROVE  TakesBothSides(p)
<1>1. ContextualOpposites(p, p)
  BY DEF OppositeAction, OppositeWords, Opposed, NegatedKeyword, PrefixedWords, OtherNumbers
<1>2. ~RefundPolarity(p, p) /\ ~LegalStatus(p, p)
  BY DEF RefundPolarity, AsksRefund, LegalStatus, InForce, Expired
<1> QED
  BY <1>1, <1>2 DEF ContextualOpposites, FollowUpUrgency, LimitationPeriod, RiskDirection,
                    SecondFactor, Contrary, Shows, TakesBothSides

\* No checker sees a difference between a prompt and itself.
LEMMA OwnCheck ==
  ASSUME NEW p, NEW d
  PROVE  Check(d, p, p) = {"same"}
BY DEF Check, SetCheck, DrugCheck, TemporalCheck, PrivilegeCheck, ProperNounCheck, Differ

\* So the detector never fires on a prompt asked again.
LEMMA OwnDetect ==
  ASSUME NEW p, NEW active, NEW r \in Detect(active, p, p)
  PROVE  r = "none"
BY OwnCheck DEF Detect, Ends

\* It fails only where one prompt names more drugs or roles than the other.
LEMMA RaisedNamesMore ==
  ASSUME NEW p, NEW q, NEW c, "raised" \in Detect(Active(c), p, q)
  PROVE  \E d \in {"drug", "privilege"} \cap Active(c) :
           /\ Differ(Found[p][d], Found[q][d])
           /\ Found[p][d] \subseteq Found[q][d] \/ Found[q][d] \subseteq Found[p][d]
<1>1. \A i \in DOMAIN Checkers : Checkers[i] # "raised"
  BY DEF Checkers
<1>2. PICK d \in Active(c) : "raised" \in Check(d, p, q)
  BY <1>1 DEF Detect, Ends
<1>3. d \in {"drug", "privilege"}
  BY <1>2 DEF Check, SetCheck, TemporalCheck, ProperNounCheck
<1>4. "raised" \in DrugCheck(Found[p][d], Found[q][d])
  BY <1>2, <1>3 DEF Check, PrivilegeCheck
<1> QED
  BY <1>2, <1>3, <1>4 DEF DrugCheck

\* The causes a verdict against the best candidate can have.
Cause ==
    \/ verdict.decision = "hit"
    \/ verdict.reason \in {"failed_mlp_threshold", "failed_cross_encoder_threshold"}
    \/ verdict.reason = "opposite_action_detected" /\ OppositeAction(query, CachedPrompt[best])
    \/ verdict.reason = "entity_change_detected" /\ query # CachedPrompt[best]

\* What makes a candidate a hard negative.
Earned ==
    /\ verdict.decision = "miss"
    /\ ~BelowThreshold /\ mlp < config.high_precision_skip_threshold
    /\ pair = "entity_change_detected" => query # CachedPrompt[best]

Caused ==
    /\ stage \in {"idle", "searched"} => best = None
    /\ stage \in {"idle", "searched", "scored", "cleared", "encoded"} => pair = "none"
    /\ stage \in {"cleared", "encoded"} => mlp < config.high_precision_skip_threshold
    /\ stage \in {"calling", "sleeping"} => attempt # 0
    /\ stage = "decided" /\ config.classifies /\ best # None => Cause
    /\ stage = "failed" /\ attempt = 0 => NamesMore(query, CachedPrompt[best])
    /\ pair # "none" => Earned

\* Every step that refuses, fails or keeps a pair has one of these causes.
LEMMA CausedStep == TypeOK /\ Gated /\ Caused /\ [Next]_vars => Caused'
<1> SUFFICES ASSUME TypeOK, Gated, Caused, [Next]_vars PROVE Caused'
  OBVIOUS
<1> USE DEF Caused, Goto, scores, calls
<1>1. CASE Search
  BY <1>1 DEF Search
<1>2. ASSUME NEW cosine \in Cosines, Baseline(cosine) PROVE Caused'
  BY <1>2 DEF Baseline
<1>3. CASE Score
  <2>1. stage' = "scored" \/ (stage' = "decided" /\ best' = None)
    BY <1>3 DEF Score
  <2>2. pair' = "none"
    BY <1>3 DEF Score
  <2> QED
    BY <2>1, <2>2
<1>4. CASE ClassifierGate
  <2>1. stage' = "decided" => Cause'
    BY <1>4 DEF ClassifierGate, Opposite, Cause, Hit, Miss
  <2>2. stage' \in {"decided", "cleared"} /\ pair' = "none"
    BY <1>4 DEF ClassifierGate
  <2>3. stage' = "cleared" => mlp' < config'.high_precision_skip_threshold
    <3>1. mlp \in Nat /\ config.high_precision_skip_threshold \in Nat
      BY <1>4, ScoreAssumption, ConfigAssumption DEF ClassifierGate, Gated, TypeOK
    <3> QED
      BY <1>4, <3>1 DEF ClassifierGate
  <2> QED
    BY <2>1, <2>2, <2>3
<1>5. ASSUME NEW score \in Scores, Encode(score) PROVE Caused'
  <2>1. stage' = "decided" => Cause'
    BY <1>5 DEF Encode, Cause, Miss
  <2>2. pair' # "none" => Earned'
    BY <1>5 DEF Encode, Earned, Gated, Passed, BelowThreshold, Miss
  <2>3. /\ stage' \in {"encoded", "decided"} /\ (stage' = "encoded" => pair' = "none")
        /\ mlp' < config'.high_precision_skip_threshold
    BY <1>5 DEF Encode
  <2> QED
    BY <2>1, <2>2, <2>3
<1>6. CASE EntityGate
  <2>1. PICK found \in Detect(Active(config.entities), query, CachedPrompt[best]) :
          \/ found = "raised" /\ stage' = "failed" /\ UNCHANGED << verdict, pair >>
          \/ /\ found \in CheckerNames /\ stage' = "decided"
             /\ verdict' = Miss("entity_change_detected") /\ pair' = "entity_change_detected"
          \/ /\ found = "none" /\ stage' = "decided" /\ UNCHANGED pair
             /\ verdict'.decision = "hit"
    BY <1>6 DEF EntityGate, Hit
  <2>2. found \in CheckerNames => query # CachedPrompt[best]
    BY OwnDetect DEF CheckerNames, Checkers
  <2>3. stage' = "decided" => Cause'
    BY <1>6, <2>1, <2>2 DEF EntityGate, Cause, Miss
  <2>4. pair' # "none" => Earned'
    BY <1>6, <2>1, <2>2 DEF EntityGate, Earned, Gated, Passed, BelowThreshold, Miss
  <2>5. stage' = "failed" => NamesMore(query, CachedPrompt[best])
    BY <2>1, RaisedNamesMore DEF NamesMore, CheckerNames, Checkers
  <2>6. stage' = "failed" => NamesMore(query, CachedPrompt[best])'
    BY <1>6, <2>5 DEF EntityGate, NamesMore
  <2>7. stage' \in {"failed", "decided"}
    BY <2>1
  <2> QED
    BY <2>3, <2>4, <2>6, <2>7
<1>7. CASE Revalidate \/ CallAnswers \/ Wake \/ Cancel
  <2>1. pair' # "none" => Earned'
    BY <1>7 DEF Revalidate, CallAnswers, Wake, Cancel, Earned, BelowThreshold
  <2>2. /\ stage' \in {"served", "calling", "answered", "failed"}
        /\ stage' \in {"calling", "failed"} => attempt' # 0
    BY <1>7 DEF Revalidate, CallAnswers, Wake, Cancel, TypeOK
  <2> QED
    BY <2>1, <2>2
<1>8. ASSUME NEW kind \in Failures, CallFails(kind) PROVE Caused'
  <2>1. pair' # "none" => Earned'
    BY <1>8 DEF CallFails, Earned, BelowThreshold
  <2>2. stage' \in {"sleeping", "failed"} /\ attempt' # 0
    BY <1>8 DEF CallFails
  <2> QED
    BY <2>1, <2>2
<1>9. CASE Return
  BY <1>9 DEF Return
<1>10. CASE (\E e \in Entries : Evict(e)) \/ UNCHANGED vars
  <2>1. UNCHANGED << config, threshold, stage, query, best, mlp, verdict, pair, attempt >>
    BY <1>10 DEF Evict, vars
  <2>2. /\ Cause <=> Cause'
        /\ Earned <=> Earned'
        /\ NamesMore(query, CachedPrompt[best]) <=> NamesMore(query, CachedPrompt[best])'
    BY <2>1 DEF Cause, Earned, BelowThreshold, NamesMore
  <2> QED
    BY <2>1, <2>2
<1>11. ASSUME NEW t \in Checkpoints, Reload(t) PROVE Caused'
  BY <1>11 DEF Reload
<1> QED
  BY <1>1, <1>2, <1>3, <1>4, <1>5, <1>6, <1>7, <1>8, <1>9, <1>10, <1>11 DEF Next, Proceed

\* A repeated prompt is refused for its scores or because it is its own
\* opposite, a query fails before the call only where one prompt names more,
\* and hard negatives had been accepted by the classifier.
THEOREM RefusalsHaveCauses == Spec => []RefusedForCause
<1>1. Init => Caused
  BY DEF Init, Caused
<1>2. Caused => RefusedForCause
  <2> SUFFICES ASSUME Caused PROVE RefusedForCause
    OBVIOUS
  <2>1. ~NamesMore(query, query)
    BY DEF NamesMore, Differ
  <2>2. ASSUME Repeated, verdict.decision # "hit"
        PROVE  \/ verdict.reason \in {"failed_mlp_threshold", "failed_cross_encoder_threshold"}
               \/ verdict.reason = "opposite_action_detected" /\ TakesBothSides(query)
    BY <2>1, <2>2, OwnOpposite DEF Caused, Cause, Repeated
  <2> QED
    BY <2>2 DEF Caused, Earned, RefusedForCause
<1> QED
  BY <1>1, <1>2, CausedStep, TypeCorrect, AlwaysGated, PTL DEF Spec

-----------------------------------------------------------------------------
(* Retries.                                                                *)

\* How far the attempts and the pauses have come.
Paced ==
    /\ stage # "sleeping" => pause = 0
    /\ attempt <= config.retry.max_attempts
    /\ stage = "calling" =>
         backoff <= config.retry.max_backoff
           \/ (attempt = 1 /\ backoff = config.retry.initial_backoff)
    /\ stage = "sleeping" =>
         /\ attempt < config.retry.max_attempts
         /\ backoff <= config.retry.max_backoff
         /\ pause <= config.retry.max_backoff
              \/ (attempt = 1 /\ pause = config.retry.initial_backoff)

\* A pause is the one computed before the attempt that failed.
LEMMA PacedStep == TypeOK /\ Paced /\ [Next]_vars => Paced'
<1> SUFFICES ASSUME TypeOK, Paced, [Next]_vars PROVE Paced'
  OBVIOUS
<1> DEFINE retry == config.retry
<1>0. /\ attempt \in Nat /\ backoff \in Nat /\ pause \in Nat
      /\ retry.initial_backoff \in Nat /\ retry.backoff_multiplier \in Nat
      /\ retry.max_backoff \in Nat /\ retry.max_attempts \in Nat \ {0}
  BY ConfigAssumption DEF TypeOK
<1> USE DEF Paced, Goto, scores, calls
<1>1. CASE Search
  BY <1>1 DEF Search
<1>2. ASSUME NEW cosine \in Cosines, Baseline(cosine) PROVE Paced'
  BY <1>2 DEF Baseline
<1>3. CASE Score
  BY <1>3 DEF Score
<1>4. CASE ClassifierGate
  BY <1>4 DEF ClassifierGate
<1>5. ASSUME NEW score \in Scores, Encode(score) PROVE Paced'
  BY <1>5 DEF Encode
<1>6. CASE EntityGate
  BY <1>6 DEF EntityGate
<1>7. CASE Revalidate
  BY <1>0, <1>7 DEF Revalidate
<1>8. CASE CallAnswers \/ Cancel \/ Return
  BY <1>0, <1>8 DEF CallAnswers, Cancel, Return
<1>9. ASSUME NEW kind \in Failures, CallFails(kind) PROVE Paced'
  <2>1. Longer(backoff) <= retry.max_backoff
    <3> DEFINE longer == backoff * retry.backoff_multiplier
    <3>1. longer \in Nat
      BY <1>0
    <3> HIDE DEF longer
    <3>2. (IF longer < retry.max_backoff THEN longer ELSE retry.max_backoff) <= retry.max_backoff
      BY <1>0, <3>1
    <3> QED
      BY <3>2 DEF Longer, longer
  <2> QED
    BY <1>9, <2>1 DEF CallFails
<1>10. CASE Wake
  BY <1>0, <1>10 DEF Wake
<1>11. CASE (\E e \in Entries : Evict(e)) \/ UNCHANGED vars
  BY <1>11 DEF Evict, vars
<1>12. ASSUME NEW t \in Checkpoints, Reload(t) PROVE Paced'
  BY <1>12 DEF Reload
<1> QED
  BY <1>1, <1>2, <1>3, <1>4, <1>5, <1>6, <1>7, <1>8, <1>9, <1>10, <1>11, <1>12 DEF Next, Proceed

\* The model is called at most max_attempts times for a query, and only the
\* first pause can be longer than max_backoff.
THEOREM RetriesAreBounded == Spec => []RetriesBounded
<1>1. Init => Paced
  BY ConfigAssumption DEF Init, Paced
<1>2. TypeOK /\ Paced => RetriesBounded
  BY ConfigAssumption DEF TypeOK, Paced, RetriesBounded
<1> QED
  BY <1>1, <1>2, PacedStep, TypeCorrect, PTL DEF Spec

=============================================================================
