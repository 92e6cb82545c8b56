--------------------------- MODULE SingleFlight ---------------------------
(***************************************************************************)
(* What coalescing of identical cache misses promises to its callers,      *)
(* whatever coordinates them (concurrency/protocol.py, the contract of     *)
(* SingleFlightManager.execute).  A result is named by the caller whose    *)
(* operation, one LLM call, produced it.  A caller is answered once, with  *)
(* a result its own operation produced or with one that a caller entitled  *)
(* to share has shared; nothing is shared before it has been produced.     *)
(***************************************************************************)
CONSTANTS Callers,   \* the concurrent calls of execute for one flight key
          Sharers,   \* the callers whose result may reach other callers
          NoCaller   \* the answer of a caller that has none yet

VARIABLES produced,  \* callers whose operation has returned a result
          shared,    \* results that have been made available to others
          answer     \* the result each caller was given

vars == <<produced, shared, answer>>

Init == /\ produced = {}
        /\ shared = {}
        /\ answer = [c \in Callers |-> NoCaller]

(* The result of c becomes available to the other callers, or not yet. *)
Share(c) == shared' = IF c \in Sharers THEN shared \cup {c} ELSE shared
Keep == UNCHANGED shared

(* The operation of c returns.  c may be answered with its result at once. *)
Produce(c) ==
  /\ produced' = produced \cup {c}
  /\ \/ UNCHANGED answer
     \/ answer[c] = NoCaller /\ answer' = [answer EXCEPT ![c] = c]
  /\ Share(c) \/ Keep

(* A result produced earlier is shared later, through the store. *)
ShareLater(c) ==
  /\ c \in produced
  /\ Share(c)
  /\ UNCHANGED <<produced, answer>>

(* c is answered with its own result or with a shared one. *)
Answer(c) ==
  /\ answer[c] = NoCaller
  /\ \E r \in shared \cup (produced \cap {c}) : answer' = [answer EXCEPT ![c] = r]
  /\ UNCHANGED <<produced, shared>>

Next == \E c \in Callers : Produce(c) \/ ShareLater(c) \/ Answer(c)

Spec == Init /\ [][Next]_vars
===========================================================================
