---------------------------- MODULE EntityChange ----------------------------
(***************************************************************************)
(* The entity change detector: the last gate of the decision pipeline.  It *)
(* compares what eleven patterns find in the incoming prompt with what they *)
(* find in the cached one and answers with the first checker that fires.   *)
(*                                                                         *)
(* Every check returns the SET of results a call can have: "same",         *)
(* "changed", or "raised" when the code leaves with an exception.          *)
(* A set has several elements where the code takes "some" element of a     *)
(* Python set: the order of iteration depends on the hash seed.            *)
(***************************************************************************)
EXTENDS Reading, Integers, Sequences

CONSTANT HarmlessPairs   \* sets of two temporal words that mean the same

\* The checkers in the order the detector runs them.
Checkers == << "quarter", "year", "ordinal", "drug", "numeric", "version",
               "month", "day", "temporal", "privilege", "proper_noun" >>

CheckerNames == { Checkers[i] : i \in DOMAIN Checkers }

\* Possessive pronouns are looked for by the privilege checker only.
Kinds == CheckerNames \cup {"possessive"}

ASSUME FoundAssumption == Found \in [Prompts -> [Kinds -> SUBSET Token]]

-----------------------------------------------------------------------------

\* Both prompts name something and they do not name the same.
Differ(A, B) == A # {} /\ B # {} /\ A # B

\* Quarter, year, ordinal, numeric, version, month and day: the tokens that
\* are reported have a default, so the comparison never fails.
SetCheck(A, B) == IF Differ(A, B) THEN {"changed"} ELSE {"same"}

\* The drug checker reports one token of each difference and has no default
\* for an empty one: next(iter(...)) raises when a set contains the other.
DrugCheck(A, B) ==
    IF ~Differ(A, B) THEN {"same"}
    ELSE IF A \subseteq B \/ B \subseteq A THEN {"raised"} ELSE {"changed"}

\* Some word of each difference is compared with the harmless pairs.
TemporalCheck(A, B) ==
    IF A \subseteq B \/ B \subseteq A THEN {"same"}
    ELSE { r \in {"same", "changed"} :
             \E x \in A \ B, y \in B \ A : r = "same" <=> {x, y} \in HarmlessPairs }

\* Different roles, or a role against "my", "our", "your".  The first case
\* has the drug checker's missing default.
PrivilegeCheck(A, B, mineA, mineB) ==
    IF Differ(A, B) THEN DrugCheck(A, B)
    ELSE IF \/ A # {} /\ mineB # {} /\ B = {}
            \/ B # {} /\ mineA # {} /\ A = {}
         THEN {"changed"} ELSE {"same"}

\* A name that only one prompt has, on both sides.
ProperNounCheck(A, B) ==
    IF A \subseteq B \/ B \subseteq A THEN {"same"} ELSE {"changed"}

Check(d, a, b) ==
    LET A == Found[a][d]
        B == Found[b][d]
    IN  CASE d = "drug"        -> DrugCheck(A, B)
          [] d = "temporal"    -> TemporalCheck(A, B)
          [] d = "privilege"   -> PrivilegeCheck(A, B, Found[a]["possessive"],
                                                       Found[b]["possessive"])
          [] d = "proper_noun" -> ProperNounCheck(A, B)
          [] OTHER             -> SetCheck(A, B)

\* The checkers that look at the prompts under a configuration: none when the
\* detector is off, and the two strict ones only when they are asked for.
Active(c) ==
    { d \in CheckerNames : /\ c.enabled
                           /\ d \notin c.disabled
                           /\ d = "temporal" => c.strict_time_periods
                           /\ d = "proper_noun" => c.strict_proper_nouns }

\* The i-th checker is reached, and it may end with r.
Ends(i, r, active, a, b) ==
    /\ Checkers[i] \in active
    /\ \A j \in DOMAIN Checkers :
          j < i /\ Checkers[j] \in active => "same" \in Check(Checkers[j], a, b)
    /\ r \in Check(Checkers[i], a, b)

\* What a call of the detector can end with: the name of the first checker
\* that fires, "raised", or "none".
Detect(active, a, b) ==
    { Checkers[i] : i \in { k \in DOMAIN Checkers : Ends(k, "changed", active, a, b) } }
    \cup (IF \E i \in DOMAIN Checkers : Ends(i, "raised", active, a, b)
          THEN {"raised"} ELSE {})
    \cup (IF \A d \in active : "same" \in Check(d, a, b) THEN {"none"} ELSE {})

-----------------------------------------------------------------------------
(* What the detector is for, stated without the order of the checkers.     *)

\* A role here, and there no role but a user's own things.
Escalates(a, b) ==
    /\ Found[a]["privilege"] # {} /\ Found[b]["privilege"] = {}
    /\ Found[b]["possessive"] # {}

\* The prompts are about different things of kind d.
Drift(d, a, b) ==
    LET A == Found[a][d]
        B == Found[b][d]
        onlyA == A \ B
        onlyB == B \ A
    IN  CASE d = "temporal" ->
               /\ onlyA # {} /\ onlyB # {}
               /\ \A x \in onlyA, y \in onlyB : {x, y} \notin HarmlessPairs
          [] d = "proper_noun" -> onlyA # {} /\ onlyB # {}
          [] d = "privilege"   -> Differ(A, B) \/ Escalates(a, b) \/ Escalates(b, a)
          [] OTHER             -> Differ(A, B)

=============================================================================
