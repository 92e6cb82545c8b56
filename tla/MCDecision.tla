----------------------------- MODULE MCDecision -----------------------------
(* A small instance of Decision: three cached prompts, and for each of them *)
(* prompts that differ from it in one way a gate should, or does, notice.   *)
EXTENDS Decision, TLC

\* "current dose of ibuprofen, is it safe" and four variations.
MCIbuprofen == {"ibuprofen", "two_drugs", "unsafe", "historical"}
\* "Do not issue my refund for Q3" and three variations.
MCRefunds   == {"refuse_refund", "issue_refund", "refund_q4", "admin_refund"}
\* "Does exercise reduce the risk that smoking increases?"
MCPrompts   == MCIbuprofen \cup MCRefunds \cup {"both_risks"}

MCFoundIn(p) ==
    CASE p = "ibuprofen"     -> [drug |-> {"ibuprofen"}, temporal |-> {"current"}]
      [] p = "two_drugs"     -> [drug |-> {"ibuprofen", "aspirin"}]
      [] p = "unsafe"        -> [drug |-> {"ibuprofen"}, temporal |-> {"recent"}]
      [] p = "historical"    -> [drug |-> {"ibuprofen"}, temporal |-> {"historical"}]
      [] p = "refuse_refund" -> [quarter |-> {"q3"}, possessive |-> {"my"}]
      [] p = "issue_refund"  -> [quarter |-> {"q3"}, possessive |-> {"my"}]
      [] p = "refund_q4"     -> [quarter |-> {"q4"}, possessive |-> {"my"}]
      [] p = "admin_refund"  -> [quarter |-> {"q3"}, privilege |-> {"admin"}]
      [] OTHER               -> [drug |-> {}]

MCToken == {"ibuprofen", "aspirin", "current", "recent", "historical",
            "q3", "q4", "my", "admin"}
MCFound == [p \in MCPrompts |->
              [d \in Kinds |-> IF d \in DOMAIN MCFoundIn(p) THEN MCFoundIn(p)[d] ELSE {}]]
MCHarmlessPairs == {{"current", "recent"}}

MCWord   == {"safe", "unsafe", "risk"}
MCWords  == [p \in MCPrompts |->
               CASE p \in {"ibuprofen", "historical"} -> {"safe"}
                 [] p = "unsafe"                      -> {"unsafe"}
                 [] p = "both_risks"                  -> {"risk"}
                 [] OTHER                             -> {}]
MCWithin == {<<"safe", "unsafe">>}
MCFact   == {"refund_issued", "refund_refused", "negation", "increases", "reduces"}
MCFacts  == [p \in MCPrompts |->
               CASE p \in {"refuse_refund", "refund_q4", "admin_refund"} ->
                      {"refund_issued", "refund_refused", "negation"}
                 [] p = "issue_refund" -> {"refund_issued"}
                 [] p = "both_risks"   -> {"increases", "reduces"}
                 [] OTHER              -> {}]
MCDigits == [p \in MCPrompts |-> IF p = "two_drugs" THEN {2} ELSE {}]
MCPairs  == {<<"approve", "deny">>}
MCPrefix == {<<"safe", "unsafe">>}

MCEntries      == {"e1", "e2", "e3"}
MCCachedPrompt == [e1 |-> "ibuprofen", e2 |-> "refuse_refund", e3 |-> "both_risks"]
MCAffinity     == [p \in MCPrompts |->
                     [medical  |-> IF p \in MCRefunds THEN 100 ELSE 700,
                      finance  |-> IF p = "admin_refund" THEN 450
                                   ELSE IF p \in MCRefunds THEN 500 ELSE 700,
                      legal    |-> 200,
                      security |-> 300]]

-----------------------------------------------------------------------------

MCEverywhere(x) == [d \in DomainNames |-> x]
MCPolicy == [tiers |-> [d \in DomainNames |-> IF d = "general" THEN "low" ELSE "high"],
             domain_mlp |-> MCEverywhere(None), domain_ce |-> MCEverywhere(None),
             low_mlp |-> 900, high_mlp |-> 990, low_ce |-> 850, high_ce |-> 950,
             prevent_opposite_actions |-> TRUE]
MCEntities == [enabled |-> TRUE, disabled |-> {}, strict_time_periods |-> TRUE,
               strict_proper_nouns |-> TRUE]
MCRetry   == [max_attempts |-> 3, initial_backoff |-> 2, backoff_multiplier |-> 3,
              max_backoff |-> 5, retry_on |-> {"transient"}]
MCNoRetry == [MCRetry EXCEPT !.max_attempts = 1, !.retry_on = {}]

\* What the facade builds from its defaults and a risk policy.
MCFacade == [facade |-> TRUE, explicit |-> None, classifier_threshold |-> 850,
             classifies |-> TRUE, encodes |-> TRUE, encoder_threshold |-> None,
             high_precision_skip_threshold |-> 995, cosine_threshold |-> 900,
             detects |-> TRUE, domain |-> "general", entities |-> MCEntities,
             policy |-> MCPolicy, retry |-> MCRetry]

MCConfigs ==
    { MCFacade,
      \* no risk policy, no cross-encoder, a threshold of the user's
      [MCFacade EXCEPT !.explicit = 900, !.encodes = FALSE, !.detects = FALSE,
                       !.policy.tiers = MCEverywhere("low"), !.retry = MCNoRetry],
      \* an orchestrator given a classifier that holds no threshold
      [MCFacade EXCEPT !.facade = FALSE, !.encodes = FALSE, !.retry = MCNoRetry],
      [MCFacade EXCEPT !.facade = FALSE, !.policy.domain_mlp["finance"] = 900,
                       !.policy.prevent_opposite_actions = FALSE,
                       !.retry.initial_backoff = 7],
      \* two checkers off, an explicit cross-encoder threshold, no bypass
      [MCFacade EXCEPT !.entities.strict_time_periods = FALSE,
                       !.entities.disabled = {"drug"}, !.encoder_threshold = 900,
                       !.high_precision_skip_threshold = 1001, !.retry = MCNoRetry],
      \* no classifier
      [MCFacade EXCEPT !.classifies = FALSE, !.detects = FALSE,
                       !.policy.tiers = MCEverywhere("low"), !.retry = MCNoRetry] }

=============================================================================
