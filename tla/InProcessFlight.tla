-------------------------- MODULE InProcessFlight --------------------------
(***************************************************************************)
(* InProcessSingleFlightManager (concurrency/in_process.py) for ONE flight *)
(* key, with the loader, writer and store the orchestrator gives it.  All  *)
(* callers are tasks of one event loop: a step runs from one suspension to *)
(* the next.  The loader and the writer never suspend, so the end of the   *)
(* operation, the write and the resolution of the future are one step,     *)
(* while a follower only wakes up some steps later.                        *)
(*                                                                         *)
(* The process may restart: its futures and its generation counter are     *)
(* lost, the store is not.  A result is named by the caller whose          *)
(* operation produced it.  boot, produced, shared, asked and faults record *)
(* history; of them only MaxFaults bounds a step.                          *)
(***************************************************************************)
EXTENDS Naturals, FiniteSets

CONSTANTS Callers,   \* calls of execute for one flight key
          NoCaller,  \* no leader, no answer
          CanWrite,  \* callers whose user may write the cache
          MaxFaults  \* bound on errors, cancellations, restarts, lost rows

ASSUME CallersAssumption == NoCaller \notin Callers /\ CanWrite \subseteq Callers
ASSUME MaxFaultsAssumption == MaxFaults \in Nat

VARIABLES
  inflight,    \* _inflight[flight_key]: the leader whose future it is
  generation,  \* _flight_generations[flight_key], 0 when absent
  rows,        \* cache entries of the flight's identity
  clock,       \* number of created_at stamps taken
  pc,          \* where each caller is suspended
  leaderOf,    \* the leader whose future a follower awaits
  ticket,      \* the generation each leader registered with
  future,      \* state of the future of each leader
  answer,      \* the result each call returns
  boot,        \* number of restarts so far
  produced,    \* callers whose operation has returned
  shared,      \* callers whose result others can be given
  asked,       \* callers whose own task was cancelled
  faults       \* number of faults so far

vars == <<inflight, generation, rows, clock, pc, leaderOf, ticket, future, answer,
          boot, produced, shared, asked, faults>>
storeVars == <<rows, clock>>

Ended == {"returned", "raised", "cancelled", "crashed"}
Points == {"new", "operate", "await", "direct"} \cup Ended
Row == [gen : Nat, boot : Nat, by : Callers, at : Nat, state : {"live", "expired"}]

Init ==
  /\ inflight = NoCaller
  /\ generation = 0
  /\ rows = {}
  /\ clock = 0
  /\ pc = [c \in Callers |-> "new"]
  /\ leaderOf = [c \in Callers |-> NoCaller]
  /\ ticket = [c \in Callers |-> 0]
  /\ future = [c \in Callers |-> "pending"]
  /\ answer = [c \in Callers |-> NoCaller]
  /\ boot = 0
  /\ produced = {}
  /\ shared = {}
  /\ asked = {}
  /\ faults = 0

---------------------------------------------------------------------------
Goto(c, p) == pc' = [pc EXCEPT ![c] = p]
Fault == faults < MaxFaults /\ faults' = faults + 1
NoFault == UNCHANGED faults

(* find_by_prompt: the newest unexpired row, none on a miss. *)
Newest == {r \in rows : r.state = "live" /\ \A s \in rows : s.state = "live" => s.at <= r.at}

(* The entry of c; the mutant calls the writer with its arguments swapped. *)
NewRowMutant(c) ==
  [gen |-> c, boot |-> boot, by |-> ticket[c], at |-> clock + 1, state |-> "live"]
NewRow(c) ==
  [gen |-> ticket[c], boot |-> boot, by |-> c, at |-> clock + 1, state |-> "live"]

(* store.add: an older generation is refused, which is not an error. *)
Store(c) ==
  /\ clock' = clock + 1
  /\ rows' = IF \A r \in rows : r.gen <= ticket[c] THEN rows \cup {NewRow(c)} ELSE rows

(* The leader's future is resolved and leaves _inflight.  One mutant       *)
(* forgets to set it, one sets a result even on a failure and one clears   *)
(* the key's generation after a failure.                                   *)
ResolveUnsetMutant(c, outcome) ==
  inflight' = NoCaller /\ UNCHANGED <<future, generation>>
ResolveResultMutant(c, outcome) ==
  /\ future' = [future EXCEPT ![c] = "result"]
  /\ inflight' = NoCaller
  /\ UNCHANGED generation
ResolveResetMutant(c, outcome) ==
  /\ future' = [future EXCEPT ![c] = outcome]
  /\ inflight' = NoCaller
  /\ generation' = IF outcome = "result" THEN generation ELSE 0
Resolve(c, outcome) ==
  /\ future' = [future EXCEPT ![c] = outcome]
  /\ inflight' = NoCaller
  /\ UNCHANGED generation

(* Some flight of the key is under way; the mutant never looks. *)
FlyingMutant == FALSE
Flying == inflight # NoCaller

(* execute: join the flight that is there, else register a future and the  *)
(* next generation and start the operation.                                *)
Call(c) ==
  /\ pc[c] = "new"
  /\ \/ /\ Flying
        /\ Goto(c, "await")
        /\ leaderOf' = [leaderOf EXCEPT ![c] = inflight]
        /\ UNCHANGED <<inflight, generation, ticket>>
     \/ /\ ~ Flying
        /\ Goto(c, "operate")
        /\ inflight' = c
        /\ generation' = generation + 1
        /\ ticket' = [ticket EXCEPT ![c] = generation + 1]
        /\ UNCHANGED leaderOf
  /\ UNCHANGED <<storeVars, future, answer, boot, produced, shared, asked, faults>>

(* The operation returns and the writer, a no-op without write authority,  *)
(* succeeds: the followers get the result.                                 *)
Succeed(c) ==
  /\ pc[c] = "operate"
  /\ IF c \in CanWrite THEN Store(c) ELSE UNCHANGED storeVars
  /\ Resolve(c, "result")
  /\ Goto(c, "returned")
  /\ answer' = [answer EXCEPT ![c] = c]
  /\ produced' = produced \cup {c}
  /\ shared' = shared \cup {c}
  /\ UNCHANGED <<leaderOf, ticket, boot, asked, faults>>

(* The operation raises, or the writer does after it, with the row stored  *)
(* or not: the exception goes to the caller and into the future.           *)
Fail(c) ==
  /\ pc[c] = "operate"
  /\ Fault
  /\ \/ UNCHANGED <<storeVars, produced, shared>>
     \/ /\ c \in CanWrite
        /\ produced' = produced \cup {c}
        /\ \/ UNCHANGED <<storeVars, shared>>
           \/ Store(c) /\ shared' = shared \cup {c}
  /\ Resolve(c, "failed")
  /\ Goto(c, "raised")
  /\ UNCHANGED <<leaderOf, ticket, answer, boot, asked>>

(* A follower resumes once the future it shields is resolved.  After a     *)
(* failure it asks the store, whose errors reach the caller, and else runs *)
(* the operation itself, outside any flight.  A CancelledError is not an   *)
(* Exception and passes through.                                           *)
Wake(c) ==
  /\ pc[c] = "await"
  /\ \/ /\ future[leaderOf[c]] = "result"
        /\ Goto(c, "returned")
        /\ answer' = [answer EXCEPT ![c] = leaderOf[c]]
        /\ NoFault
     \/ /\ future[leaderOf[c]] = "failed"
        /\ \/ /\ Goto(c, "returned")
              /\ \E r \in Newest : answer' = [answer EXCEPT ![c] = r.by]
              /\ NoFault
           \/ Newest = {} /\ Goto(c, "direct") /\ NoFault /\ UNCHANGED answer
           \/ Goto(c, "raised") /\ Fault /\ UNCHANGED answer
     \/ /\ future[leaderOf[c]] = "cancelled"
        /\ Goto(c, "cancelled")
        /\ NoFault
        /\ UNCHANGED answer
  /\ UNCHANGED <<inflight, generation, storeVars, leaderOf, ticket, future, boot, produced,
                 shared, asked>>

(* The operation a follower runs by itself: it is neither stored nor       *)
(* shared.                                                                 *)
Direct(c) ==
  /\ pc[c] = "direct"
  /\ \/ /\ Goto(c, "returned")
        /\ answer' = [answer EXCEPT ![c] = c]
        /\ produced' = produced \cup {c}
        /\ NoFault
     \/ Goto(c, "raised") /\ Fault /\ UNCHANGED <<answer, produced>>
  /\ UNCHANGED <<inflight, generation, storeVars, leaderOf, ticket, future, boot, shared, asked>>

(* The task of c is cancelled.  A leader resolves its future with the      *)
(* CancelledError; the shield keeps a follower's cancellation to itself.   *)
Cancel(c) ==
  /\ pc[c] \in {"operate", "await", "direct"}
  /\ Fault
  /\ asked' = asked \cup {c}
  /\ Goto(c, "cancelled")
  /\ IF pc[c] = "operate"
       THEN Resolve(c, "cancelled")
       ELSE UNCHANGED <<future, inflight, generation>>
  /\ UNCHANGED <<storeVars, leaderOf, ticket, answer, boot, produced, shared>>

(* The process restarts: its calls are gone, and so are its generations. *)
Restart ==
  /\ Fault
  /\ boot' = boot + 1
  /\ pc' = [c \in Callers |-> IF pc[c] \in Ended \cup {"new"} THEN pc[c] ELSE "crashed"]
  /\ inflight' = NoCaller
  /\ generation' = 0
  /\ UNCHANGED <<storeVars, leaderOf, ticket, future, answer, produced, shared, asked>>

(* A row passes its expires_at, or leaves the store by eviction. *)
ForgetRow ==
  /\ Fault
  /\ \E r \in rows : \/ rows' = (rows \ {r}) \cup {[r EXCEPT !.state = "expired"]}
                     \/ rows' = rows \ {r}
  /\ UNCHANGED <<inflight, generation, clock, pc, leaderOf, ticket, future, answer, boot,
                 produced, shared, asked>>

Step(c) == Call(c) \/ Succeed(c) \/ Fail(c) \/ Wake(c) \/ Direct(c)

Next == \/ \E c \in Callers : Step(c) \/ Cancel(c)
        \/ Restart
        \/ ForgetRow

Spec == Init /\ [][Next]_vars

(* The event loop resumes every task that can go on; LLM calls end. *)
FairSpec == Spec /\ \A c \in Callers : WF_vars(Step(c))

---------------------------------------------------------------------------
(* Properties *)

(* Every variable keeps its type. *)
TypeOK ==
  /\ inflight \in Callers \cup {NoCaller}
  /\ generation \in Nat /\ clock \in Nat /\ boot \in Nat /\ faults \in Nat
  /\ rows \subseteq Row
  /\ pc \in [Callers -> Points]
  /\ leaderOf \in [Callers -> Callers \cup {NoCaller}]
  /\ ticket \in [Callers -> Nat]
  /\ future \in [Callers -> {"pending", "result", "failed", "cancelled"}]
  /\ answer \in [Callers -> Callers \cup {NoCaller}]
  /\ produced \subseteq Callers /\ shared \subseteq Callers /\ asked \subseteq Callers

(* At most one call of the process runs the flight's operation at a time,  *)
(* and it is the one new calls join; anyone else running it does so after  *)
(* a flight that failed.                                                   *)
OneLeader ==
  \A c \in Callers : /\ pc[c] = "operate" => inflight = c
                     /\ pc[c] = "direct" => future[leaderOf[c]] = "failed"

(* A call is cancelled only when its own task or its leader's was: the      *)
(* leader's CancelledError reaches its followers, which do not fall back.  *)
CancelledForCause ==
  \A c \in Callers : pc[c] = "cancelled" => c \in asked \/ leaderOf[c] \in asked

(* A follower never awaits a future that nobody is going to resolve, and   *)
(* what becomes of it otherwise than by its own cancellation is its        *)
(* leader's doing.                                                         *)
NoOrphanFollower ==
  /\ \A c \in Callers : pc[c] = "await" /\ future[leaderOf[c]] = "pending"
                            => inflight = leaderOf[c] /\ pc[leaderOf[c]] = "operate"
  /\ CancelledForCause

(* The store's generation check turns down a leader's result only because  *)
(* of a row written before the last restart, whose generations it cannot   *)
(* know.                                                                   *)
OnlyOlderBootBlocks ==
  \A c \in Callers, r \in rows : pc[c] = "operate" /\ r.gen > ticket[c] => r.boot < boot

(* Whatever happens to the leader, every call ends. *)
EveryCallEnds == \A c \in Callers : <>(pc[c] \in Ended)

(* The calls of execute implement SingleFlight, and here every leader      *)
(* shares: a result reaches the followers even when it may not be cached.  *)
Abstract ==
  INSTANCE SingleFlight WITH
    Sharers <- Callers,
    answer <- [c \in Callers |-> IF pc[c] = "returned" THEN answer[c] ELSE NoCaller]

ImplementsSingleFlight == Abstract!Spec
============================================================================
