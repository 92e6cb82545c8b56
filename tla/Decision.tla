------------------------------ MODULE Decision ------------------------------
(***************************************************************************)
(* One query after another through the decision pipeline of the            *)
(* orchestrator: the candidates of the vector index, the classifier, the   *)
(* guard against opposite actions, the bypass, the cross-encoder and the   *)
(* entity change detector; then the call of the language model, with its   *)
(* retries, when no cached answer is served.                               *)
(*                                                                         *)
(* A query runs without giving up the event loop until the model is        *)
(* called, but the store is shared: another process may evict an entry     *)
(* between the steps.  Scores and thresholds are integers, in thousandths. *)
(***************************************************************************)
EXTENDS EntityChange, OppositeAction, FiniteSets

CONSTANTS
    Entries,        \* cache entries
    CachedPrompt,   \* CachedPrompt[e]: the prompt whose answer e holds
    Affinity,       \* Affinity[p][d]: cosine of prompt p with centroid d
    Scores,         \* what classifier and cross-encoder can answer
    Cosines,        \* what the index can answer for its best candidate
    Checkpoints,    \* thresholds stored in classifier checkpoints
    Configs,        \* the configurations a cache is built with
    Failures,       \* how a call of the language model can fail
    TopK,           \* how many candidates the index answers with
    None            \* Python's None: no threshold, score, entry or prompt

ASSUME EntryAssumption ==
    /\ CachedPrompt \in [Entries -> Prompts]
    /\ IsFiniteSet(Entries) /\ TopK \in Nat
    /\ None \notin Entries \cup Prompts \cup Nat

ASSUME ScoreAssumption == Scores \subseteq Nat /\ Checkpoints \subseteq Nat

\* Thresholds and pauses are numbers, and the model is called at least once.
ASSUME ConfigAssumption ==
    \A c \in Configs :
      /\ c.explicit \in Nat \cup {None} /\ c.classifier_threshold \in Nat
      /\ c.encoder_threshold \in Nat \cup {None}
      /\ c.high_precision_skip_threshold \in Nat
      /\ c.policy.high_mlp \in Nat /\ c.policy.high_ce \in Nat
      /\ c.retry.initial_backoff \in Nat /\ c.retry.backoff_multiplier \in Nat
      /\ c.retry.max_backoff \in Nat /\ c.retry.max_attempts \in Nat \ {0}

\* Domains in the order of the centroids.
Domains == << "medical", "finance", "legal", "security" >>
DomainNames == { Domains[i] : i \in DOMAIN Domains } \cup {"general"}

-----------------------------------------------------------------------------
(* What a configuration says.                                              *)

\* The closest centroid, the first of several; "general" below one half.
DetectDomain(p) ==
    LET best == CHOOSE i \in DOMAIN Domains :
                  /\ \A j \in DOMAIN Domains : Affinity[p][Domains[i]] >= Affinity[p][Domains[j]]
                  /\ \A j \in DOMAIN Domains :
                       j < i => Affinity[p][Domains[j]] < Affinity[p][Domains[i]]
    IN  IF Affinity[p][Domains[best]] < 500 THEN "general" ELSE Domains[best]

\* The detector is only built when there is a risk policy.
DomainOf(c, p) == IF c.detects THEN DetectDomain(p) ELSE c.domain

TierOf(c, p) == c.policy.tiers[DomainOf(c, p)]

\* The facade replaces a threshold that is not given by its own default, and
\* the classifier service one it still lacks by the checkpoint's.
BuiltThreshold(c) ==
    IF c.explicit # None THEN c.explicit
    ELSE IF c.facade THEN c.classifier_threshold ELSE None

\* A threshold the service holds, else the domain's, else the tier's.
Resolve(held, own, tier, low, high) ==
    IF held # None THEN held
    ELSE IF own # None THEN own
    ELSE IF tier = "high" THEN high ELSE low

\* Mutant: the tier is not looked at.
ClassifierThresholdMutant(c, held, p) ==
    Resolve(held, c.policy.domain_mlp[DomainOf(c, p)], "low",
            c.policy.low_mlp, c.policy.high_mlp)

ClassifierThreshold(c, held, p) ==
    Resolve(held, c.policy.domain_mlp[DomainOf(c, p)], TierOf(c, p),
            c.policy.low_mlp, c.policy.high_mlp)

EncoderThreshold(c, p) ==
    Resolve(c.encoder_threshold, c.policy.domain_ce[DomainOf(c, p)], TierOf(c, p),
            c.policy.low_ce, c.policy.high_ce)

-----------------------------------------------------------------------------

VARIABLES
    config,      \* how this cache was built
    threshold,   \* the threshold the classifier service holds
    alive,       \* entries that are in the store
    stage,       \* where the query in progress is
    query,       \* its prompt
    candidates,  \* what the index answered, best first
    best,        \* the candidate the classifier ranks first
    mlp, ce,     \* its scores
    verdict,     \* hit or miss and the reason
    pair,        \* the active learning pair this query recorded, by its source
    attempt,     \* calls of the language model made for this query
    backoff,     \* the delay before the next retry
    pause        \* the delay being slept

vars == << config, threshold, alive, stage, query, candidates, best, mlp, ce,
           verdict, pair, attempt, backoff, pause >>
scores == << best, mlp, ce >>
calls  == << attempt, backoff, pause >>

Stages == {"idle", "searched", "scored", "cleared", "encoded", "decided",
           "calling", "sleeping", "served", "answered", "failed"}

\* What the index can answer: it answers an entry once.
Rankings == { s \in UNION { [1..n -> Entries] : n \in 0..TopK } :
                \A i, j \in DOMAIN s : s[i] = s[j] => i = j }

NoVerdict == [decision |-> "none", reason |-> "none"]
Hit(r)    == [decision |-> "hit", reason |-> r]
Miss(r)   == [decision |-> "miss", reason |-> r]

TypeOK ==
    /\ config \in Configs
    /\ threshold \in Nat \cup {None}
    /\ alive \subseteq Entries
    /\ stage \in Stages
    /\ query \in Prompts \cup {None}
    /\ candidates \in Seq(Entries)
    /\ best \in Entries \cup {None}
    /\ mlp \in Scores \cup {None} /\ ce \in Scores \cup {None}
    /\ verdict.decision \in {"none", "hit", "miss"}
    /\ pair \in {"none", "entity_change_detected", "mlp_ce_disagreement"}
    /\ attempt \in Nat /\ backoff \in Nat /\ pause \in Nat

Init ==
    /\ config \in Configs
    /\ threshold = BuiltThreshold(config)
    /\ alive \in SUBSET Entries
    /\ stage = "idle" /\ query = None /\ candidates = << >>
    /\ best = None /\ mlp = None /\ ce = None
    /\ verdict = NoVerdict /\ pair = "none"
    /\ attempt = 0 /\ backoff = 0 /\ pause = 0

Goto(s, t) == stage = s /\ stage' = t

-----------------------------------------------------------------------------
(* Retrieval.                                                              *)

\* The index answers with entries it knows, in the store or not.
Search ==
    /\ stage = "idle"
    /\ query' \in Prompts
    /\ candidates' \in Rankings
    /\ IF candidates' = << >>
       THEN stage' = "decided" /\ verdict' = Miss("no_candidates_found")
       ELSE stage' = "searched" /\ UNCHANGED verdict
    /\ UNCHANGED << config, threshold, alive, scores, pair, calls >>

\* Mutant: the cosine is reported as the classifier's score.
BaselineMutant(cosine) ==
    /\ Goto("searched", "decided")
    /\ ~config.classifies
    /\ best' = candidates[1] /\ mlp' = cosine
    /\ verdict' = Hit("passed_cosine_threshold")
    /\ UNCHANGED << config, threshold, alive, query, candidates, ce, pair, calls >>

\* Without a classifier the cosine of the best candidate decides.
Baseline(cosine) ==
    /\ Goto("searched", "decided")
    /\ ~config.classifies
    /\ IF cosine >= config.cosine_threshold
       THEN /\ best' = candidates[1]
            /\ verdict' = Hit("passed_cosine_threshold")
       ELSE /\ best' = None
            /\ verdict' = Miss("failed_cosine_threshold")
    /\ UNCHANGED << config, threshold, alive, query, candidates, mlp, ce, pair, calls >>

\* Candidates the store no longer has are dropped; the classifier scores the
\* others and the first of the highest is the only one that is looked at.
Score ==
    LET left == { i \in DOMAIN candidates : candidates[i] \in alive }
        First(i, score) == /\ \A j \in left : score[i] >= score[j]
                           /\ \A j \in left : j < i => score[j] < score[i]
    IN  /\ stage = "searched"
        /\ config.classifies
        /\ IF left = {}
           THEN /\ stage' = "decided"
                /\ verdict' = Miss("no_candidate_entries_in_store")
                /\ UNCHANGED << best, mlp >>
           ELSE /\ stage' = "scored"
                /\ \E score \in [left -> Scores], i \in left :
                     First(i, score) /\ best' = candidates[i] /\ mlp' = score[i]
                /\ UNCHANGED verdict
        /\ UNCHANGED << config, threshold, alive, query, candidates, ce, pair, calls >>

-----------------------------------------------------------------------------
(* The gates.                                                              *)

\* Mutant: the guard comes after the bypass.
OppositeMutant == /\ config.policy.prevent_opposite_actions
                  /\ mlp < config.high_precision_skip_threshold
                  /\ OppositeAction(query, CachedPrompt[best])

Opposite == config.policy.prevent_opposite_actions
            /\ OppositeAction(query, CachedPrompt[best])

BelowThreshold == mlp < ClassifierThreshold(config, threshold, query)

\* The opposite action guard, the classifier's threshold and the bypass.
ClassifierGate ==
    /\ stage = "scored"
    /\ IF Opposite
       THEN stage' = "decided" /\ verdict' = Miss("opposite_action_detected")
       ELSE IF BelowThreshold
       THEN stage' = "decided" /\ verdict' = Miss("failed_mlp_threshold")
       ELSE IF mlp >= config.high_precision_skip_threshold
       THEN stage' = "decided" /\ verdict' = Hit("mlp_bypass")
       ELSE stage' = "cleared" /\ UNCHANGED verdict
    /\ UNCHANGED << config, threshold, alive, query, candidates, scores, pair, calls >>

\* The cross-encoder, when there is one.  A score below its threshold is
\* kept as a hard negative.
Encode(score) ==
    /\ stage = "cleared"
    /\ config.encodes
    /\ ce' = score
    /\ IF score >= EncoderThreshold(config, query)
       THEN stage' = "encoded" /\ UNCHANGED << verdict, pair >>
       ELSE /\ stage' = "decided"
            /\ verdict' = Miss("failed_cross_encoder_threshold")
            /\ pair' = "mlp_ce_disagreement"
    /\ UNCHANGED << config, threshold, alive, query, candidates, best, mlp, calls >>

\* The entity change detector, last with or without a cross-encoder.
EntityGate ==
    /\ stage = (IF config.encodes THEN "encoded" ELSE "cleared")
    /\ \E found \in Detect(Active(config.entities), query, CachedPrompt[best]) :
         \/ /\ found = "raised"
            /\ stage' = "failed"
            /\ UNCHANGED << verdict, pair >>
         \/ /\ found \in CheckerNames
            /\ stage' = "decided"
            /\ verdict' = Miss("entity_change_detected")
            /\ pair' = "entity_change_detected"
         \/ /\ found = "none"
            /\ stage' = "decided"
            /\ verdict' = Hit(IF config.encodes THEN "passed_all_thresholds"
                              ELSE "passed_mlp_threshold_no_cross_encoder")
            /\ UNCHANGED pair
    /\ UNCHANGED << config, threshold, alive, query, candidates, scores, calls >>

-----------------------------------------------------------------------------
(* The answer.                                                             *)

\* The entry is read again: one that was evicted meanwhile is a miss.
Revalidate ==
    /\ stage = "decided"
    /\ IF verdict.decision = "hit" /\ best \in alive
       THEN stage' = "served" /\ UNCHANGED calls
       ELSE /\ stage' = "calling"
            /\ attempt' = 1
            /\ backoff' = config.retry.initial_backoff
            /\ UNCHANGED pause
    /\ UNCHANGED << config, threshold, alive, query, candidates, scores, verdict, pair >>

\* The model answers, and the answer may be cached as an entry for the prompt.
CallAnswers ==
    /\ Goto("calling", "answered")
    /\ \/ UNCHANGED alive
       \/ \E e \in Entries \ alive : CachedPrompt[e] = query /\ alive' = alive \cup {e}
    /\ UNCHANGED << config, threshold, query, candidates, scores, verdict, pair, calls >>

\* Mutant: the pauses grow without a bound.
LongerMutant(b) == b * config.retry.backoff_multiplier

\* The pause after the next failure.
Longer(b) ==
    LET longer == b * config.retry.backoff_multiplier
    IN  IF longer < config.retry.max_backoff THEN longer ELSE config.retry.max_backoff

\* A failure of a kind the policy retries is followed by a pause, until the
\* attempts are used up; any other one ends the query at once.  Without a
\* policy no kind is retried.
CallFails(kind) ==
    /\ stage = "calling"
    /\ IF kind \in config.retry.retry_on /\ attempt < config.retry.max_attempts
       THEN /\ stage' = "sleeping"
            /\ pause' = backoff
            /\ backoff' = Longer(backoff)
       ELSE stage' = "failed" /\ UNCHANGED << pause, backoff >>
    /\ UNCHANGED << config, threshold, alive, query, candidates, scores, verdict, pair, attempt >>

Wake ==
    /\ Goto("sleeping", "calling")
    /\ attempt' = attempt + 1
    /\ pause' = 0
    /\ UNCHANGED << config, threshold, alive, query, candidates, scores, verdict, pair, backoff >>

\* The caller cancels the query while the model answers or it sleeps: the
\* exception is none that a policy retries.
Cancel ==
    /\ stage \in {"calling", "sleeping"}
    /\ stage' = "failed"
    /\ pause' = 0
    /\ UNCHANGED << config, threshold, alive, query, candidates, scores, verdict, pair,
                    attempt, backoff >>

\* The result is handed to the caller and the next query may begin.
Return ==
    /\ stage \in {"served", "answered", "failed"}
    /\ stage' = "idle" /\ query' = None /\ candidates' = << >>
    /\ best' = None /\ mlp' = None /\ ce' = None
    /\ verdict' = NoVerdict /\ pair' = "none"
    /\ attempt' = 0 /\ backoff' = 0 /\ pause' = 0
    /\ UNCHANGED << config, threshold, alive >>

-----------------------------------------------------------------------------
(* What happens around the query.                                          *)

\* Another process evicts an entry.
Evict(e) ==
    /\ e \in alive
    /\ alive' = alive \ {e}
    /\ UNCHANGED << config, threshold, stage, query, candidates, scores, verdict, pair, calls >>

\* The classifier service loads another checkpoint and takes its threshold,
\* whatever the configuration said.
Reload(t) ==
    /\ stage = "idle"
    /\ config.classifies /\ config.facade
    /\ threshold' = t
    /\ UNCHANGED << config, alive, stage, query, candidates, scores, verdict, pair, calls >>

\* The steps of a query that nobody has to ask for.
Proceed ==
    \/ \E cosine \in Cosines : Baseline(cosine)
    \/ Score
    \/ ClassifierGate
    \/ \E score \in Scores : Encode(score)
    \/ EntityGate
    \/ Revalidate
    \/ CallAnswers
    \/ \E kind \in Failures : CallFails(kind)
    \/ Wake
    \/ Return

Next ==
    \/ Search
    \/ Proceed
    \/ Cancel
    \/ \E e \in Entries : Evict(e)
    \/ \E t \in Checkpoints : Reload(t)

Spec == Init /\ [][Next]_vars

-----------------------------------------------------------------------------
(* Properties.                                                             *)

\* A candidate the classifier's path accepts, at the moment it is accepted.
Accepted == stage = "decided" /\ verdict.decision = "hit" /\ config.classifies

\* Safety of an accepted candidate.  However high its scores are, its prompt
\* does not ask for the opposite while the guard is on, and unless the bypass
\* skipped the detector it is about the same things in every category that is
\* looked at, with or without a cross-encoder.
NoDriftServed ==
    Accepted =>
      /\ config.policy.prevent_opposite_actions =>
           ~OppositeAction(query, CachedPrompt[best])
      /\ verdict.reason # "mlp_bypass" =>
           \A d \in Active(config.entities) : ~Drift(d, query, CachedPrompt[best])

\* When the service holds no threshold, nothing is accepted in a high-risk
\* domain below the policy's high-risk thresholds, the domain's own aside:
\* not even by the bypass.
RiskHonoured ==
    LET own == DomainOf(config, query)
    IN  Accepted /\ threshold = None /\ TierOf(config, query) = "high" =>
          /\ config.policy.domain_mlp[own] = None => mlp >= config.policy.high_mlp
          /\ ce # None /\ config.encoder_threshold = None
                     /\ config.policy.domain_ce[own] = None
               => ce >= config.policy.high_ce

\* Which of two prompts was cached and which is asked makes no difference to
\* the guard or to the detector.
Symmetric ==
    stage = "scored" =>
      LET p == CachedPrompt[best]
          active == Active(config.entities)
      IN  /\ OppositeAction(query, p) <=> OppositeAction(p, query)
          /\ Detect(active, query, p) = Detect(active, p, query)

\* A prompt that takes both sides of a contextual rule.
TakesBothSides(p) ==
    \/ {"follow_up", "urgent", "routine"} \subseteq Facts[p]
    \/ {"limitation", "passed", "applies"} \subseteq Facts[p]
    \/ Occurs("risk", p) /\ {"increases", "reduces"} \subseteq Facts[p]
    \/ {"auth", "required", "disabled"} \subseteq Facts[p]

\* A prompt asked again word for word, whose best candidate is its own answer.
Repeated ==
    stage \in {"decided", "failed"} /\ attempt = 0 /\ best # None
      /\ config.classifies /\ CachedPrompt[best] = query

\* One prompt names some drugs, or some roles, and the other the same and more.
NamesMore(p, q) ==
    \E d \in {"drug", "privilege"} \cap Active(config.entities) :
      Differ(Found[p][d], Found[q][d])
        /\ (Found[p][d] \subseteq Found[q][d] \/ Found[q][d] \subseteq Found[p][d])

\* Every refusal has its cause.  A repeated prompt is refused its own answer
\* for a low score, or because it takes both sides of a contextual rule: such
\* a prompt is its own opposite and is never served.  A query fails before
\* the model is called only where one prompt names more drugs or roles.  And
\* a pair is kept as a hard negative for training only when the classifier
\* accepted it and a later gate did not.
RefusedForCause ==
    /\ Repeated /\ verdict.decision # "hit" =>
         \/ verdict.reason \in {"failed_mlp_threshold", "failed_cross_encoder_threshold"}
         \/ verdict.reason = "opposite_action_detected" /\ TakesBothSides(query)
    /\ stage = "failed" /\ attempt = 0 => NamesMore(query, CachedPrompt[best])
    /\ pair # "none" =>
         /\ verdict.decision = "miss"
         /\ ~BelowThreshold /\ mlp < config.high_precision_skip_threshold
         /\ pair = "entity_change_detected" => query # CachedPrompt[best]

\* The model is called at most max_attempts times for a query, and no pause is
\* longer than max_backoff except the first, which nothing bounds.
RetriesBounded ==
    /\ attempt <= config.retry.max_attempts
    /\ pause > config.retry.max_backoff =>
         attempt = 1 /\ pause = config.retry.initial_backoff

-----------------------------------------------------------------------------
(* What the documentation says and the code does not do.                   *)

\* entity_change_detection.py:27, "When in doubt, return True (entity
\* changed)": the detector answers and does not fail.
DetectorAnswers == ~(stage = "failed" /\ attempt = 0)

=============================================================================
