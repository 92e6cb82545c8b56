------------------------------- MODULE Reading -------------------------------
(***************************************************************************)
(* What the gates of the decision pipeline read in a prompt.  A prompt is  *)
(* a name; these functions say which tokens, words, phrases and numbers    *)
(* the regular expressions and word lists of the gates find in it.         *)
(***************************************************************************)
CONSTANTS
    Prompts,    \* the prompts that are asked and cached
    Token,      \* tokens of the entity change detector
    Found,      \* Found[p][d]: the tokens of kind d in prompt p
    Word,       \* the words the opposite action guard looks for, and longer ones
    Words,      \* Words[p]: the words of prompt p
    Within,     \* <<v, w>>: the word v is written inside the word w
    Fact,       \* the patterns of the contextual rules
    Facts,      \* Facts[p]: the patterns that match prompt p
    Number,     \* numbers that prompts mention
    Digits      \* Digits[p]: the numbers of prompt p

ASSUME ReadingAssumption ==
    /\ Words \in [Prompts -> SUBSET Word]
    /\ Within \subseteq Word \X Word
    /\ Facts \in [Prompts -> SUBSET Fact]
    /\ Digits \in [Prompts -> SUBSET Number]

=============================================================================
