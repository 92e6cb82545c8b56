---------------------------- MODULE OutboxProofs ----------------------------
(***************************************************************************)
(* Proofs about Outbox, for any number of events, relays, consumers and    *)
(* faults, any batch size and any max_retries.                             *)
(***************************************************************************)
EXTENDS Outbox, FiniteSetTheorems, TLAPS

USE DEF rowVars, runVars, consumerVars, deployment

---------------------------------------------------------------------------
(* Types *)

(* The initial states are well typed.                                      *)
LEMMA TypeInit == Init => TypeOK
BY NumbersAssumption DEF Init, TypeOK, Statuses, Events

(* Ending a run keeps the types of the relays. *)
LEMMA EndRunType ==
  ASSUME TypeOK, NEW r \in Relays, EndRun(r)
  PROVE  /\ pc' \in [Relays -> {"idle", "claiming", "reading", "publishing", "failing"}]
         /\ claim' \in [Relays -> [Events -> Nat]]
         /\ todo' \in [Relays -> SUBSET Events]
<1>1. [e \in Events |-> 0] \in [Events -> Nat]
  OBVIOUS
<1>2. claim' \in [Relays -> [Events -> Nat]]
  BY <1>1 DEF EndRun, TypeOK
<1> QED
  BY <1>2 DEF EndRun, TypeOK

(* So does handing an event to the bus. *)
LEMMA PostType ==
  ASSUME TypeOK, NEW r \in Relays, NEW e \in Events, Post(r, e)
  PROVE  mail' \subseteq Messages /\ sends' \in [Events -> Nat]
<1>1. {<<Waiting(r), c, e>> : c \in Consumers} \subseteq Messages
  BY DEF Messages, Waiting
<1> QED
  BY <1>1 DEF Post, TypeOK

(* So does taking a set of rows. *)
LEMMA GrabType ==
  ASSUME TypeOK, NEW r \in Relays, NEW E \in SUBSET Events, Grab(r, E)
  PROVE  /\ retries' \in [Events -> Nat]
         /\ owner' \in [Events -> Relays \cup {NoRelay}]
         /\ status' \in [Events -> Statuses]
BY DEF Grab, TypeOK, Statuses

(* Every step of a relay, a consumer or the environment preserves types.   *)
LEMMA TypeStep == TypeOK /\ [Next]_vars => TypeOK'
<1> SUFFICES ASSUME TypeOK, [Next]_vars PROVE TypeOK'
  OBVIOUS
<1>0. UNCHANGED <<bus, store>>
  BY DEF Next, vars
<1> USE <1>0, RelaysAssumption DEF TypeOK, Fault, NoFault
<1>1. ASSUME NEW r \in Relays, Claim(r) PROVE TypeOK'
  <2>1. Oldest \subseteq Events
    BY DEF Oldest, Due
  <2>2. retries' \in [Events -> Nat] /\ owner' \in [Events -> Relays \cup {NoRelay}]
        /\ status' \in [Events -> Statuses]
    BY <1>1, <2>1, GrabType DEF Claim
  <2>3. [e \in Events |-> IF e \in Oldest THEN retries'[e] ELSE 0] \in [Events -> Nat]
    BY <2>2
  <2>4. claim' \in [Relays -> [Events -> Nat]]
    BY <1>1, <2>3 DEF Claim
  <2>5. pc' \in [Relays -> {"idle", "claiming", "reading", "publishing", "failing"}]
        /\ todo' \in [Relays -> SUBSET Events]
    BY <1>1, <2>1 DEF Claim
  <2> QED
    BY <1>1, <2>2, <2>4, <2>5 DEF Claim
<1>1a. ASSUME NEW r \in Relays, Select(r) PROVE TypeOK'
  <2>1. Oldest \subseteq Events
    BY DEF Oldest, Due
  <2> QED
    BY <1>1a, <2>1 DEF Select
<1>1b. ASSUME NEW r \in Relays, Update(r) PROVE TypeOK'
  <2>1. retries' \in [Events -> Nat] /\ owner' \in [Events -> Relays \cup {NoRelay}]
        /\ status' \in [Events -> Statuses]
    BY <1>1b, GrabType DEF Update
  <2>2. crossed' \subseteq Events
    BY <1>1b DEF Update
  <2> QED
    BY <1>1b, <2>1, <2>2 DEF Update
<1>1c. ASSUME NEW r \in Relays, Reread(r) PROVE TypeOK'
  <2>1. [e \in Events |-> IF e \in todo[r] THEN retries[e] ELSE 0] \in [Events -> Nat]
    OBVIOUS
  <2>2. claim' \in [Relays -> [Events -> Nat]]
    BY <1>1c, <2>1 DEF Reread
  <2> QED
    BY <1>1c, <2>2 DEF Reread
<1>2. ASSUME NEW r \in Relays, NEW e \in Events, Send(r, e) PROVE TypeOK'
  BY <1>2, PostType DEF Send
<1>3. ASSUME NEW r \in Relays, NEW e \in Events, MarkRetry(r, e) PROVE TypeOK'
  <2>1. AfterRetry(r, e) \in Statuses
    BY DEF AfterRetry, Statuses
  <2> QED
    BY <1>3, <2>1, EndRunType DEF MarkRetry
<1>4. ASSUME NEW r \in Relays, SetPublished(r) PROVE status' \in [Events -> Statuses]
  BY <1>4 DEF SetPublished, Statuses
<1>5. ASSUME NEW r \in Relays, MarkPublished(r) PROVE TypeOK'
  BY <1>4, <1>5, EndRunType DEF MarkPublished
<1>6. ASSUME NEW r \in Relays, SendError(r) PROVE TypeOK'
  <2>1. mail' \subseteq Messages /\ sends' \in [Events -> Nat]
    <3>1. PICK e \in todo[r] : Post(r, e) \/ UNCHANGED <<mail, sends>>
      BY <1>6 DEF SendError
    <3> QED
      BY <3>1, PostType
  <2>2. Batch(r) \subseteq Events
    BY DEF Batch
  <2> QED
    BY <1>6, <2>1, <2>2 DEF SendError
<1>7. ASSUME NEW r \in Relays, MarkError(r) PROVE TypeOK'
  <2>1. Batch(r) \subseteq Events
    BY DEF Batch
  <2>2. faults' \in Nat /\ UNCHANGED <<owner, retries, mail, consumerVars, sends, overrun, crossed>>
    BY <1>7 DEF MarkError
  <2>3. CASE EndRun(r)
    <3>1. status' \in [Events -> Statuses]
      BY <1>4, <1>7 DEF MarkError
    <3> QED
      BY <2>2, <2>3, <3>1, EndRunType
  <2>4. CASE ~ EndRun(r)
    <3>1. pc' = [pc EXCEPT ![r] = "failing"] /\ todo' = [todo EXCEPT ![r] = Batch(r)]
          /\ UNCHANGED <<status, claim>>
      BY <1>7, <2>4 DEF MarkError
    <3> QED
      BY <2>1, <2>2, <3>1
  <2> QED
    BY <2>3, <2>4
<1>8. ASSUME NEW r \in Relays, MarkRetryError(r) PROVE TypeOK'
  BY <1>8, EndRunType DEF MarkRetryError
<1>9. ASSUME NEW r \in Relays, Halt(r) PROVE TypeOK'
  <2>1. mail' \subseteq Messages /\ working' \subseteq Messages /\ sends' \in [Events -> Nat]
    BY <1>9, PostType DEF Halt
  <2> QED
    BY <1>9, <2>1, EndRunType DEF Halt
<1>10. ASSUME NEW e \in Events, Record(e) \/ LeaseExpires(e) \/ BackoffElapses(e) PROVE TypeOK'
  <2>1. status' \in [Events -> Statuses]
    BY <1>10 DEF Record, LeaseExpires, BackoffElapses, Statuses
  <2> QED
    BY <1>10, <2>1 DEF Record, LeaseExpires, BackoffElapses
<1>11. ASSUME NEW m \in Messages, \/ Deliver(m) \/ DeliverError(m)
                                  \/ Callback(m) \/ CallbackError(m)
       PROVE TypeOK'
  <2>1. PICK p \in Pairs : p = <<m[2], m[3]>>
    BY DEF Messages, Pairs
  <2>2. CASE Deliver(m)
    <3>1. mail' \subseteq Messages
      BY <2>2 DEF Deliver, Take
    <3>2. recorded' \subseteq Pairs /\ working' \subseteq Messages
      BY <2>1, <2>2 DEF Deliver
    <3>3. calls' = calls \/ calls' = [calls EXCEPT ![p] = @ + 1]
      BY <2>1, <2>2 DEF Deliver
    <3>4. calls' \in [Pairs -> Nat]
      BY <3>3
    <3> QED
      BY <2>2, <3>1, <3>2, <3>4 DEF Deliver
  <2>3. CASE DeliverError(m)
    <3>1. mail' \subseteq Messages /\ dropped' \subseteq Pairs
      BY <2>1, <2>3 DEF DeliverError, Take
    <3> QED
      BY <2>3, <3>1 DEF DeliverError
  <2>4. CASE Callback(m)
    <3>1. working' \subseteq Messages /\ applied' \subseteq Pairs
      BY <2>1, <2>4 DEF Callback
    <3> QED
      BY <2>4, <3>1 DEF Callback
  <2>5. CASE CallbackError(m)
    BY <2>5 DEF CallbackError
  <2> QED
    BY <1>11, <2>2, <2>3, <2>4, <2>5
<1>12. CASE Restart
  <2>1. claim' \in [Relays -> [Events -> Nat]]
    BY <1>12 DEF Restart
  <2> QED
    BY <1>12, <2>1 DEF Restart
<1>13. CASE UNCHANGED vars
  BY <1>13 DEF vars
<1> QED
  BY <1>1, <1>2, <1>3, <1>5, <1>6, <1>7, <1>8, <1>9, <1>10, <1>11, <1>12, <1>13,
     <1>1a, <1>1b, <1>1c
  DEF Next, RelayStep, RelayFault

(* Every variable keeps its type, whatever fails and whoever restarts. *)
THEOREM TypeCorrect == Spec => []TypeOK
BY TypeInit, TypeStep, PTL DEF Spec

---------------------------------------------------------------------------
(* What a run has in its hands *)

(* What a relay has yet to send or mark it has claimed; its claim is a     *)
(* retry_count the row has had.  Only where the statements of a claim      *)
(* interleave is a relay between them, or a claim crossed by another.      *)
RunsSound ==
  /\ \A r \in Relays : pc[r] \in {"idle", "claiming", "reading"} => Batch(r) = {}
  /\ \A r \in Relays : pc[r] = "idle" => todo[r] = {}
  /\ \A r \in Relays : pc[r] \in {"publishing", "failing"} => todo[r] \subseteq Batch(r)
  /\ \A r \in Relays : pc[r] = "reading" => \A e \in todo[r] : retries[e] > 0
  /\ \A r \in Relays, e \in Events : claim[r][e] <= retries[e]
  /\ \A e \in Events : retries[e] = 0 => status[e] \in {"absent", "pending"}
  /\ \A r \in Relays : pc[r] \in {"claiming", "reading"} => Split
  /\ crossed # {} => Split

(* What a step of one relay leaves to the others. *)
OthersKeep(r) ==
  \A s \in Relays \ {r} : /\ pc'[s] = pc[s] /\ todo'[s] = todo[s] /\ claim'[s] = claim[s]
                          /\ Batch(s)' = Batch(s) /\ Claimed(s)' = Claimed(s)

(* A run that ends leaves its relay with nothing and the others alone. *)
LEMMA EndRunClears ==
  ASSUME TypeOK, NEW r \in Relays, EndRun(r)
  PROVE  /\ pc'[r] = "idle" /\ Batch(r)' = {} /\ todo'[r] = {} /\ Claimed(r)' = {}
         /\ \A e \in Events : claim'[r][e] = 0
         /\ OthersKeep(r)
<1>1. \A e \in Events : claim'[r][e] = 0
  BY DEF EndRun, TypeOK
<1>2. \A s \in Relays \ {r} : claim'[s] = claim[s]
  BY DEF EndRun, TypeOK
<1> QED
  BY <1>1, <1>2 DEF EndRun, TypeOK, Batch, Claimed, OthersKeep

(* What consumers do is no concern of the rows and the relays. *)
LEMMA ConsumerSteps ==
  ASSUME TypeOK, NEW m \in Messages,
         Deliver(m) \/ DeliverError(m) \/ Callback(m) \/ CallbackError(m)
  PROVE  /\ UNCHANGED <<status, owner, retries, pc, claim, todo, sends, overrun, crossed>>
         /\ faults' = faults \/ faults' = faults + 1
BY DEF TypeOK, Deliver, DeliverError, Callback, CallbackError, Fault

(* A claim takes the events it takes, all claimable, and a retry_count     *)
(* higher than any before; or the answer is lost and the relay has nothing.*)
LEMMA ClaimTakes ==
  ASSUME TypeOK, RunsSound, NEW r \in Relays, Claim(r)
  PROVE  /\ ~ Split /\ pc[r] = "idle" /\ Batch(r) = {} /\ Claimed(r) = {}
         /\ Oldest \subseteq {e \in Events : status[e] \in {"pending", "lapsed"}}
         /\ \A e \in Oldest : /\ status'[e] = "processing" /\ owner'[e] = r
                              /\ retries'[e] = retries[e] + 1
         /\ \A e \in Events \ Oldest : /\ status'[e] = status[e] /\ owner'[e] = owner[e]
                                       /\ retries'[e] = retries[e]
         /\ OthersKeep(r)
         /\ \/ /\ pc'[r] = "publishing" /\ todo'[r] = Oldest /\ Batch(r)' = Oldest
               /\ Claimed(r)' = Oldest
               /\ \A e \in Oldest : claim'[r][e] = retries[e] + 1
               /\ \A e \in Events \ Oldest : claim'[r][e] = 0
               /\ faults' = faults
            \/ /\ UNCHANGED <<pc, claim, todo>> /\ Batch(r)' = {} /\ Claimed(r)' = {}
               /\ faults' = faults + 1
         /\ UNCHANGED <<mail, recorded, working, calls, applied, dropped, sends, overrun, crossed>>
<1> USE DEF TypeOK
<1>1. ~ Split /\ pc[r] = "idle" /\ Batch(r) = {} /\ Claimed(r) = {}
  BY DEF Claim, RunsSound, Claimed
<1>2. Oldest \subseteq {e \in Events : status[e] \in {"pending", "lapsed"}}
  BY DEF Oldest, Due
<1>3. /\ \A e \in Oldest : /\ status'[e] = "processing" /\ owner'[e] = r
                           /\ retries'[e] = retries[e] + 1
      /\ \A e \in Events \ Oldest : /\ status'[e] = status[e] /\ owner'[e] = owner[e]
                                    /\ retries'[e] = retries[e]
  BY <1>2 DEF Claim, Grab
<1>4. UNCHANGED <<mail, recorded, working, calls, applied, dropped, sends, overrun, crossed>>
  BY DEF Claim
<1>5. CASE UNCHANGED runVars /\ Fault
  BY <1>1, <1>2, <1>3, <1>4, <1>5 DEF Fault, Batch, Claimed, OthersKeep
<1>6. CASE /\ pc' = [pc EXCEPT ![r] = "publishing"]
           /\ claim' = [claim EXCEPT ![r] = [e \in Events |-> IF e \in Oldest THEN retries'[e] ELSE 0]]
           /\ todo' = [todo EXCEPT ![r] = Oldest]
           /\ NoFault
  <2>1. /\ \A e \in Oldest : claim'[r][e] = retries[e] + 1
        /\ \A e \in Events \ Oldest : claim'[r][e] = 0
    BY <1>2, <1>3, <1>6
  <2>2. Batch(r)' = Oldest
    BY <1>2, <2>1 DEF Batch
  <2>3. pc'[r] = "publishing" /\ Claimed(r)' = Oldest
    BY <1>6, <2>2 DEF Claimed
  <2>4. OthersKeep(r)
    BY <1>6 DEF Batch, Claimed, OthersKeep
  <2> QED
    BY <1>1, <1>2, <1>3, <1>4, <1>6, <2>1, <2>2, <2>3, <2>4 DEF NoFault
<1> QED
  BY <1>5, <1>6 DEF Claim

(* Selecting what is due claims nothing yet. *)
LEMMA SelectClaimsNone ==
  ASSUME TypeOK, RunsSound, NEW r \in Relays, Select(r)
  PROVE  /\ Split /\ pc[r] = "idle" /\ pc'[r] = "claiming"
         /\ todo'[r] \subseteq {e \in Events : status[e] \in {"pending", "lapsed"}}
         /\ Batch(r) = {} /\ Batch(r)' = {} /\ Claimed(r) = {} /\ Claimed(r)' = {}
         /\ OthersKeep(r)
         /\ UNCHANGED <<status, owner, retries, claim, mail, recorded, working, calls,
                        applied, dropped, sends, overrun, crossed, faults>>
<1>1. todo'[r] \subseteq {e \in Events : status[e] \in {"pending", "lapsed"}}
  BY DEF Select, Oldest, Due, TypeOK
<1> QED
  BY <1>1 DEF Select, RunsSound, TypeOK, Batch, Claimed, OthersKeep

(* The UPDATE of a claim takes what was selected, due or not. *)
LEMMA UpdateTakes ==
  ASSUME TypeOK, RunsSound, NEW r \in Relays, Update(r)
  PROVE  /\ Split /\ pc[r] = "claiming" /\ pc'[r] = "reading" /\ todo'[r] = todo[r]
         /\ Batch(r) = {} /\ Batch(r)' = {} /\ Claimed(r) = {} /\ Claimed(r)' = todo[r]
         /\ \A e \in todo[r] : /\ status'[e] = "processing" /\ owner'[e] = r
                               /\ retries'[e] = retries[e] + 1
                               /\ status[e] \in {"pending", "lapsed"} \/ e \in crossed'
         /\ \A e \in Events \ todo[r] : /\ status'[e] = status[e] /\ owner'[e] = owner[e]
                                        /\ retries'[e] = retries[e]
         /\ OthersKeep(r)
         /\ crossed \subseteq crossed'
         /\ UNCHANGED <<claim, todo, mail, recorded, working, calls, applied, dropped,
                        sends, overrun, faults>>
<1>1. todo[r] \subseteq Events
  BY DEF TypeOK
<1>2. /\ \A e \in todo[r] : /\ status'[e] = "processing" /\ owner'[e] = r
                            /\ retries'[e] = retries[e] + 1
      /\ \A e \in Events \ todo[r] : /\ status'[e] = status[e] /\ owner'[e] = owner[e]
                                     /\ retries'[e] = retries[e]
  BY <1>1 DEF Update, Grab
<1>3. crossed \subseteq crossed'
      /\ \A e \in todo[r] : status[e] \in {"pending", "lapsed"} \/ e \in crossed'
  BY <1>1 DEF Update, Due
<1> QED
  BY <1>2, <1>3 DEF Update, RunsSound, TypeOK, Batch, Claimed, OthersKeep

(* Reading the claimed rows again changes nobody's claims. *)
LEMMA RereadKeeps ==
  ASSUME TypeOK, RunsSound, NEW r \in Relays, Reread(r)
  PROVE  /\ pc[r] = "reading" /\ pc'[r] = "publishing"
         /\ Batch(r)' = todo[r] /\ Claimed(r) = todo[r] /\ Claimed(r)' = todo[r]
         /\ \A e \in Events : claim'[r][e] \in {0, retries[e]}
         /\ OthersKeep(r)
         /\ UNCHANGED <<status, owner, retries, todo, mail, recorded, working, calls,
                        applied, dropped, sends, overrun, crossed, faults>>
<1> USE DEF TypeOK
<1>1. \A e \in Events : claim'[r][e] = IF e \in todo[r] THEN retries[e] ELSE 0
  BY DEF Reread
<1>2. Batch(r)' = todo[r]
  BY <1>1 DEF Reread, RunsSound, Batch
<1> QED
  BY <1>1, <1>2 DEF Reread, Batch, Claimed, OthersKeep

(* Marking an event for a retry is all a relay has to do with it. *)
LEMMA MarkRetryDrops ==
  ASSUME TypeOK, NEW r \in Relays, NEW e \in Events, MarkRetry(r, e)
  PROVE  /\ pc[r] = "failing" /\ e \in todo[r] /\ e \in Claimed(r)
         /\ Claimed(r)' = Claimed(r) \ {e}
         /\ pc'[r] \in {"idle", "failing"} /\ todo'[r] = todo[r] \ {e}
         /\ status'[e] = AfterRetry(r, e) /\ owner'[e] = NoRelay
         /\ \A f \in Events \ {e} : status'[f] = status[f] /\ owner'[f] = owner[f]
         /\ OthersKeep(r)
         /\ UNCHANGED <<retries, mail, recorded, working, calls, applied, dropped,
                        sends, overrun, crossed, faults>>
<1>1. /\ pc[r] = "failing" /\ e \in todo[r] /\ e \in Claimed(r)
      /\ status'[e] = AfterRetry(r, e) /\ owner'[e] = NoRelay
      /\ \A f \in Events \ {e} : status'[f] = status[f] /\ owner'[f] = owner[f]
      /\ UNCHANGED <<retries, mail, recorded, working, calls, applied, dropped,
                     sends, overrun, crossed, faults>>
  BY DEF MarkRetry, Claimed, TypeOK
<1>2. CASE todo[r] = {e}
  <2>1. EndRun(r)
    BY <1>2 DEF MarkRetry
  <2> QED
    BY <1>1, <1>2, <2>1, EndRunClears DEF Claimed
<1>3. CASE todo[r] # {e}
  <2>1. todo' = [todo EXCEPT ![r] = @ \ {e}] /\ UNCHANGED <<pc, claim>>
    BY <1>3 DEF MarkRetry
  <2> QED
    BY <1>1, <2>1 DEF Claimed, Batch, OthersKeep, TypeOK
<1> QED
  BY <1>2, <1>3

(* Every step keeps the runs of the relays sound.                          *)
LEMMA RunsStep == TypeOK /\ RunsSound /\ [Next]_vars => RunsSound'
<1> SUFFICES ASSUME TypeOK, RunsSound, [Next]_vars PROVE RunsSound'
  OBVIOUS
<1>0. Split' = Split
  BY DEF Next, vars, Split
<1> USE <1>0, RelaysAssumption DEF TypeOK
<1>1. ASSUME NEW r \in Relays, OthersKeep(r),
             pc'[r] \in {"idle", "claiming", "reading"} => Batch(r)' = {},
             pc'[r] = "idle" => todo'[r] = {},
             pc'[r] \in {"publishing", "failing"} => todo'[r] \subseteq Batch(r)',
             pc'[r] = "reading" => \A e \in todo'[r] : retries'[e] > 0,
             pc'[r] \in {"claiming", "reading"} => Split,
             \A e \in Events : claim'[r][e] <= retries'[e],
             \A e \in Events : retries'[e] = retries[e] \/ retries'[e] = retries[e] + 1,
             \A e \in Events : retries'[e] = 0 => status'[e] \in {"absent", "pending"},
             crossed' # {} => Split
      PROVE RunsSound'
  <2>1. \A s \in Relays \ {r} :
          /\ pc'[s] \in {"idle", "claiming", "reading"} => Batch(s)' = {}
          /\ pc'[s] = "idle" => todo'[s] = {}
          /\ pc'[s] \in {"publishing", "failing"} => todo'[s] \subseteq Batch(s)'
          /\ pc'[s] \in {"claiming", "reading"} => Split
    BY <1>1 DEF RunsSound, OthersKeep
  <2>2. ASSUME NEW s \in Relays \ {r}, pc'[s] = "reading", NEW e \in todo'[s]
        PROVE  retries'[e] > 0
    <3>1. e \in todo[s] /\ pc[s] = "reading" /\ e \in Events
      BY <1>1, <2>2 DEF OthersKeep
    <3>2. retries[e] > 0 /\ retries[e] \in Nat
      BY <3>1 DEF RunsSound
    <3> QED
      BY <1>1, <3>1, <3>2
  <2>3. ASSUME NEW s \in Relays \ {r}, NEW e \in Events PROVE claim'[s][e] <= retries'[e]
    <3>1. claim'[s][e] = claim[s][e] /\ claim[s][e] <= retries[e]
          /\ claim[s][e] \in Nat /\ retries[e] \in Nat
      BY <1>1 DEF RunsSound, OthersKeep
    <3> QED
      BY <1>1, <3>1
  <2> QED
    BY <1>1, <2>1, <2>2, <2>3 DEF RunsSound
<1>2. ASSUME NEW r \in Relays, Claim(r) PROVE RunsSound'
  <2>1. \A e \in Events : retries'[e] = retries[e] \/ retries'[e] = retries[e] + 1
    BY <1>2, ClaimTakes
  <2>2. ASSUME NEW e \in Events PROVE claim'[r][e] <= retries'[e]
    <3>1. claim'[r][e] = 0 \/ claim'[r][e] = retries'[e] \/ claim'[r] = claim[r]
      BY <1>2, ClaimTakes
    <3>2. claim[r][e] <= retries[e] /\ claim[r][e] \in Nat /\ retries[e] \in Nat
      BY DEF RunsSound
    <3> QED
      BY <2>1, <3>1, <3>2
  <2>3. \A e \in Events : retries'[e] = 0 => status'[e] \in {"absent", "pending"}
    BY <1>2, ClaimTakes DEF RunsSound
  <2>4. OthersKeep(r) /\ crossed' = crossed
    BY <1>2, ClaimTakes
  <2>5. CASE pc'[r] = "publishing" /\ todo'[r] = Oldest /\ Batch(r)' = Oldest
    BY <1>1, <2>1, <2>2, <2>3, <2>4, <2>5 DEF RunsSound
  <2>6. CASE UNCHANGED <<pc, claim, todo>> /\ Batch(r)' = {}
    BY <1>1, <1>2, <2>1, <2>2, <2>3, <2>4, <2>6, ClaimTakes DEF RunsSound
  <2> QED
    BY <1>2, <2>5, <2>6, ClaimTakes
<1>3. ASSUME NEW r \in Relays, Select(r) PROVE RunsSound'
  BY <1>1, <1>3, SelectClaimsNone DEF RunsSound
<1>4. ASSUME NEW r \in Relays, Update(r) PROVE RunsSound'
  <2>1. \A e \in Events : retries'[e] = retries[e] \/ retries'[e] = retries[e] + 1
    BY <1>4, UpdateTakes
  <2>2. ASSUME NEW e \in Events PROVE claim'[r][e] <= retries'[e]
    <3>1. claim'[r] = claim[r] /\ claim[r][e] <= retries[e]
          /\ claim[r][e] \in Nat /\ retries[e] \in Nat
      BY <1>4, UpdateTakes DEF RunsSound
    <3> QED
      BY <2>1, <3>1
  <2>3. \A e \in todo[r] : retries'[e] > 0
    BY <1>4, UpdateTakes
  <2>4. \A e \in Events : retries'[e] = 0 => status'[e] \in {"absent", "pending"}
    BY <1>4, <2>3, UpdateTakes DEF RunsSound
  <2>5. /\ OthersKeep(r) /\ Batch(r)' = {} /\ Split
        /\ pc'[r] = "reading" /\ todo'[r] = todo[r]
    BY <1>4, UpdateTakes
  <2> QED
    BY <1>1, <2>1, <2>2, <2>3, <2>4, <2>5
<1>5. ASSUME NEW r \in Relays, Reread(r) PROVE RunsSound'
  <2>1. \A e \in Events : claim'[r][e] <= retries'[e]
    BY <1>5, RereadKeeps
  <2> QED
    BY <1>1, <1>5, <2>1, RereadKeeps DEF RunsSound
<1>6. ASSUME NEW r \in Relays, NEW e \in Events, Send(r, e) PROVE RunsSound'
  BY <1>6 DEF Send, RunsSound, Batch
<1>7. ASSUME NEW r \in Relays, NEW e \in Events, MarkRetry(r, e) PROVE RunsSound'
  <2>1. retries[e] # 0
    <3>1. claim[r][e] > 0 /\ claim[r][e] <= retries[e] /\ claim[r][e] \in Nat
      BY <1>7 DEF MarkRetry, RunsSound, Batch
    <3> QED
      BY <3>1
  <2>2. \A f \in Events : retries'[f] = 0 => status'[f] \in {"absent", "pending"}
    BY <1>7, <2>1, MarkRetryDrops DEF RunsSound
  <2>3. OthersKeep(r) /\ retries' = retries /\ crossed' = crossed
    BY <1>7, MarkRetryDrops
  <2>4. CASE todo[r] = {e}
    <3>1. EndRun(r)
      BY <1>7, <2>4 DEF MarkRetry
    <3> QED
      BY <1>1, <2>2, <2>3, <3>1, EndRunClears DEF RunsSound
  <2>5. CASE todo[r] # {e}
    <3>1. todo'[r] = todo[r] \ {e} /\ UNCHANGED <<pc, claim>> /\ pc[r] = "failing"
      BY <1>7, <2>5 DEF MarkRetry
    <3>2. Batch(r)' = Batch(r)
      BY <3>1 DEF Batch
    <3> QED
      BY <1>1, <2>2, <2>3, <3>1, <3>2 DEF RunsSound
  <2> QED
    BY <2>4, <2>5
<1>8. ASSUME NEW r \in Relays, EndRun(r), UNCHANGED <<owner, retries, crossed>>,
             status' = status \/ SetPublished(r)
      PROVE RunsSound'
  <2>1. ASSUME NEW e \in Batch(r) PROVE retries[e] # 0
    <3>1. e \in Events /\ claim[r][e] > 0 /\ claim[r][e] <= retries[e] /\ claim[r][e] \in Nat
      BY DEF RunsSound, Batch
    <3> QED
      BY <3>1
  <2>2. \A e \in Events : retries'[e] = 0 => status'[e] \in {"absent", "pending"}
    BY <1>8, <2>1 DEF SetPublished, RunsSound
  <2> QED
    BY <1>1, <1>8, <2>2, EndRunClears DEF RunsSound
<1>9. ASSUME NEW r \in Relays, MarkPublished(r) \/ MarkRetryError(r) \/ Halt(r) PROVE RunsSound'
  BY <1>8, <1>9 DEF MarkPublished, MarkRetryError, Halt
<1>10. ASSUME NEW r \in Relays, pc[r] = "publishing", pc' = [pc EXCEPT ![r] = "failing"],
              todo' = [todo EXCEPT ![r] = Batch(r)],
              UNCHANGED <<status, owner, retries, claim, crossed>>
       PROVE RunsSound'
  BY <1>10 DEF RunsSound, Batch
<1>11. ASSUME NEW r \in Relays, SendError(r) PROVE RunsSound'
  BY <1>10, <1>11 DEF SendError
<1>12. ASSUME NEW r \in Relays, MarkError(r) PROVE RunsSound'
  BY <1>8, <1>10, <1>12 DEF MarkError
<1>13. ASSUME NEW e \in Events, Record(e) \/ LeaseExpires(e) \/ BackoffElapses(e) PROVE RunsSound'
  <2>1. UNCHANGED <<owner, retries, pc, claim, todo, crossed>>
    BY <1>13 DEF Record, LeaseExpires, BackoffElapses
  <2>2. \A f \in Events : retries[f] = 0 => status'[f] \in {"absent", "pending"}
    BY <1>13 DEF Record, LeaseExpires, BackoffElapses, RunsSound
  <2> QED
    BY <2>1, <2>2 DEF RunsSound, Batch
<1>14. ASSUME NEW m \in Messages, \/ Deliver(m) \/ DeliverError(m)
                                  \/ Callback(m) \/ CallbackError(m)
       PROVE RunsSound'
  BY <1>14, ConsumerSteps DEF RunsSound, Batch
<1>15. CASE Restart
  BY <1>15 DEF Restart, RunsSound, Batch
<1>16. CASE UNCHANGED vars
  BY <1>16 DEF vars, RunsSound, Batch
<1> QED
  BY <1>2, <1>3, <1>4, <1>5, <1>6, <1>7, <1>9, <1>11, <1>12, <1>13, <1>14, <1>15, <1>16
  DEF Next, RelayStep, RelayFault

(* The runs of the relays are sound in every reachable state.              *)
LEMMA AlwaysSound == Spec => []RunsSound
<1>1. Init => RunsSound
  BY DEF Init, RunsSound, Batch
<1> QED
  BY <1>1, TypeCorrect, RunsStep, PTL DEF Spec

---------------------------------------------------------------------------
(* Giving up *)

(* No step makes a dead letter of an event claimed too few times.          *)
LEMMA DeadLetterStep ==
  TypeOK /\ RunsSound /\ DeadLetterEarned /\ [Next]_vars => DeadLetterEarned'
<1> SUFFICES ASSUME TypeOK, RunsSound, DeadLetterEarned, [Next]_vars PROVE DeadLetterEarned'
  OBVIOUS
<1> USE NumbersAssumption DEF TypeOK, DeadLetterEarned
<1>1. ASSUME UNCHANGED retries,
             \A e \in Events : status'[e] = "dead_letter" => status[e] = "dead_letter"
      PROVE DeadLetterEarned'
  BY <1>1
<1>2. ASSUME NEW r \in Relays, Claim(r) PROVE DeadLetterEarned'
  <2> SUFFICES ASSUME NEW e \in Events, status'[e] = "dead_letter"
               PROVE  retries'[e] >= MaxRetries
    OBVIOUS
  <2>1. status[e] = "dead_letter" /\ retries'[e] = retries[e]
    BY <1>2, ClaimTakes
  <2> QED
    BY <2>1
<1>2a. ASSUME NEW r \in Relays, Update(r) PROVE DeadLetterEarned'
  <2> SUFFICES ASSUME NEW e \in Events, status'[e] = "dead_letter"
               PROVE  retries'[e] >= MaxRetries
    OBVIOUS
  <2>1. status[e] = "dead_letter" /\ retries'[e] = retries[e]
    BY <1>2a, UpdateTakes
  <2> QED
    BY <2>1
<1>2b. ASSUME NEW r \in Relays, Select(r) \/ Reread(r) PROVE DeadLetterEarned'
  BY <1>1, <1>2b DEF Select, Reread
<1>3. ASSUME NEW r \in Relays, NEW e \in Events, MarkRetry(r, e) PROVE DeadLetterEarned'
  <2>1. claim[r][e] <= retries[e] /\ claim[r][e] \in Nat
    BY DEF RunsSound
  <2>2. AfterRetry(r, e) = "dead_letter" => retries[e] >= MaxRetries
    BY <2>1 DEF AfterRetry
  <2> QED
    BY <1>3, <2>2 DEF MarkRetry
<1>4. ASSUME NEW r \in Relays, NEW e \in Events, Send(r, e) PROVE DeadLetterEarned'
  BY <1>1, <1>4 DEF Send
<1>5. ASSUME NEW r \in Relays, \/ MarkPublished(r) \/ SendError(r) \/ MarkError(r)
                               \/ MarkRetryError(r) \/ Halt(r)
      PROVE DeadLetterEarned'
  BY <1>1, <1>5 DEF MarkPublished, SendError, MarkError, MarkRetryError, Halt, SetPublished
<1>6. ASSUME NEW e \in Events, Record(e) \/ LeaseExpires(e) \/ BackoffElapses(e)
      PROVE DeadLetterEarned'
  BY <1>1, <1>6 DEF Record, LeaseExpires, BackoffElapses
<1>7. ASSUME NEW m \in Messages, Deliver(m) \/ DeliverError(m) \/ Callback(m) \/ CallbackError(m)
      PROVE DeadLetterEarned'
  BY <1>1, <1>7, ConsumerSteps
<1>8. CASE Restart
  BY <1>1, <1>8 DEF Restart
<1>9. CASE UNCHANGED vars
  BY <1>1, <1>9 DEF vars
<1> QED
  BY <1>2, <1>2a, <1>2b, <1>3, <1>4, <1>5, <1>6, <1>7, <1>8, <1>9
  DEF Next, RelayStep, RelayFault

(* However relays overlap, and although mark_outbox_retry looks at neither *)
(* owner nor status, an event is a dead letter only after max_retries      *)
(* claims of it.                                                           *)
THEOREM GivenUpLate == Spec => []DeadLetterEarned
<1>1. Init => DeadLetterEarned
  BY DEF Init, DeadLetterEarned
<1> QED
  BY <1>1, TypeCorrect, AlwaysSound, DeadLetterStep, PTL DEF Spec

---------------------------------------------------------------------------
(* Owners *)

(* As long as no lease of it ended under a relay at work and no claims of  *)
(* it crossed, an event is in the hands of its owner only, and waits for   *)
(* that relay's mark.                                                      *)
OwnersMind ==
  \A r \in Relays, e \in Events :
    WorkingOn(r, e) /\ e \notin overrun \cup crossed => status[e] = "processing" /\ owner[e] = r

(* Every step keeps marks to the owners, but for overrun leases and crossed*)
(* claims.                                                                 *)
LEMMA OwnersStep == TypeOK /\ RunsSound /\ OwnersMind /\ [Next]_vars => OwnersMind'
<1> SUFFICES ASSUME TypeOK, RunsSound, OwnersMind, [Next]_vars PROVE OwnersMind'
  OBVIOUS
<1> USE RelaysAssumption DEF TypeOK, WorkingOn
<1>1. ASSUME NEW r \in Relays, Claim(r) PROVE OwnersMind'
  <2> SUFFICES ASSUME NEW s \in Relays, NEW e \in Events, WorkingOn(s, e)',
                      e \notin overrun' \cup crossed'
               PROVE  status'[e] = "processing" /\ owner'[e] = s
    BY DEF OwnersMind
  <2>1. CASE s = r
    BY <1>1, <2>1, ClaimTakes
  <2>2. CASE s # r
    <3>1. WorkingOn(s, e) /\ e \notin overrun \cup crossed
      BY <1>1, <2>2, ClaimTakes DEF OthersKeep
    <3>2. status[e] = "processing" /\ owner[e] = s
      BY <3>1 DEF OwnersMind
    <3> QED
      BY <1>1, <3>2, ClaimTakes
  <2> QED
    BY <2>1, <2>2
<1>2. ASSUME NEW r \in Relays, Update(r) PROVE OwnersMind'
  <2> SUFFICES ASSUME NEW s \in Relays, NEW e \in Events, WorkingOn(s, e)',
                      e \notin overrun' \cup crossed'
               PROVE  status'[e] = "processing" /\ owner'[e] = s
    BY DEF OwnersMind
  <2>1. CASE s = r
    BY <1>2, <2>1, UpdateTakes
  <2>2. CASE s # r
    <3>1. WorkingOn(s, e) /\ e \notin overrun \cup crossed
      BY <1>2, <2>2, UpdateTakes DEF OthersKeep
    <3>2. status[e] = "processing" /\ owner[e] = s
      BY <3>1 DEF OwnersMind
    <3>3. e \notin todo[r]
      BY <1>2, <3>2, UpdateTakes
    <3> QED
      BY <1>2, <3>2, <3>3, UpdateTakes
  <2> QED
    BY <2>1, <2>2
<1>3. ASSUME \A s \in Relays : Claimed(s)' \subseteq Claimed(s),
             UNCHANGED <<status, owner, overrun, crossed>>
      PROVE OwnersMind'
  BY <1>3 DEF OwnersMind
<1>4. ASSUME NEW r \in Relays, Select(r) PROVE OwnersMind'
  BY <1>3, <1>4, SelectClaimsNone DEF OthersKeep
<1>5. ASSUME NEW r \in Relays, Reread(r) PROVE OwnersMind'
  BY <1>3, <1>5, RereadKeeps DEF OthersKeep
<1>6. ASSUME NEW r \in Relays, NEW e \in Events, Send(r, e) PROVE OwnersMind'
  BY <1>3, <1>6 DEF Send, Claimed, Batch
<1>7. ASSUME NEW r \in Relays, NEW e \in Events, MarkRetry(r, e) PROVE OwnersMind'
  BY <1>7, MarkRetryDrops DEF OwnersMind, OthersKeep
<1>8. ASSUME NEW r \in Relays, EndRun(r), UNCHANGED <<owner, overrun, crossed>>,
             \/ UNCHANGED status
             \/ pc[r] = "publishing" /\ SetPublished(r)
      PROVE OwnersMind'
  <2>1. \A s \in Relays, f \in Events : WorkingOn(s, f)' => WorkingOn(s, f) /\ s # r
    BY <1>8, EndRunClears DEF OthersKeep
  <2>2. CASE UNCHANGED status
    BY <1>8, <2>1, <2>2 DEF OwnersMind
  <2>3. CASE pc[r] = "publishing" /\ SetPublished(r)
    <3>1. \A f \in Batch(r) : WorkingOn(r, f)
      BY <2>3 DEF Claimed
    <3>2. \A f \in Events \ Batch(r) : status'[f] = status[f]
      BY <2>3 DEF SetPublished
    <3> QED
      BY <1>8, <2>1, <3>1, <3>2 DEF OwnersMind, Batch
  <2> QED
    BY <1>8, <2>2, <2>3
<1>9. ASSUME NEW r \in Relays, MarkPublished(r) \/ MarkRetryError(r) \/ Halt(r) PROVE OwnersMind'
  BY <1>8, <1>9 DEF MarkPublished, MarkRetryError, Halt
<1>10. ASSUME NEW r \in Relays, pc[r] = "publishing", pc' = [pc EXCEPT ![r] = "failing"],
              todo' = [todo EXCEPT ![r] = Batch(r)],
              UNCHANGED <<claim, status, owner, overrun, crossed>>
       PROVE OwnersMind'
  BY <1>3, <1>10 DEF Claimed, Batch
<1>11. ASSUME NEW r \in Relays, SendError(r) PROVE OwnersMind'
  BY <1>10, <1>11 DEF SendError
<1>12. ASSUME NEW r \in Relays, MarkError(r) PROVE OwnersMind'
  BY <1>8, <1>10, <1>12 DEF MarkError
<1>13. ASSUME NEW e \in Events, LeaseExpires(e) PROVE OwnersMind'
  <2>1. \A r \in Relays : Claimed(r)' = Claimed(r)
    BY <1>13 DEF LeaseExpires, Claimed, Batch
  <2>2. \A r \in Relays : WorkingOn(r, e) => e \in overrun' \cup crossed'
    BY <1>13 DEF LeaseExpires, OwnersMind
  <2> QED
    BY <1>13, <2>1, <2>2 DEF LeaseExpires, OwnersMind
<1>14. ASSUME NEW e \in Events, Record(e) \/ BackoffElapses(e) PROVE OwnersMind'
  <2>1. \A r \in Relays : Claimed(r)' = Claimed(r)
    BY <1>14 DEF Record, BackoffElapses, Claimed, Batch
  <2> QED
    BY <1>14, <2>1 DEF Record, BackoffElapses, OwnersMind
<1>15. ASSUME NEW m \in Messages, \/ Deliver(m) \/ DeliverError(m)
                                  \/ Callback(m) \/ CallbackError(m)
       PROVE OwnersMind'
  BY <1>3, <1>15, ConsumerSteps DEF Claimed, Batch
<1>16. CASE Restart
  BY <1>3, <1>16 DEF Restart, Claimed, Batch
<1>17. CASE UNCHANGED vars
  BY <1>3, <1>17 DEF vars, Claimed, Batch
<1> QED
  BY <1>1, <1>2, <1>4, <1>5, <1>6, <1>7, <1>9, <1>11, <1>12, <1>13, <1>14, <1>15, <1>16, <1>17
  DEF Next, RelayStep, RelayFault

(* Owners mind their events in every reachable state.                      *)
LEMMA AlwaysOwners == Spec => []OwnersMind
<1>1. Init => OwnersMind
  BY DEF Init, OwnersMind, WorkingOn, Claimed, Batch
<1> QED
  BY <1>1, TypeCorrect, AlwaysSound, OwnersStep, PTL DEF Spec

(* Two relays have the same event in hand only after a lease of it ended   *)
(* under a relay at work, or after SQLite claims of it crossed.            *)
THEOREM OneWorker == Spec => []ClaimsExclusive
<1>1. TypeOK /\ RunsSound /\ OwnersMind => ClaimsExclusive
  <2> SUFFICES ASSUME TypeOK, RunsSound, OwnersMind,
                      NEW q \in Relays, NEW r \in Relays, NEW e \in Events,
                      q # r, WorkingOn(q, e), WorkingOn(r, e)
               PROVE  e \in overrun \/ (Split /\ e \in crossed)
    BY DEF ClaimsExclusive
  <2>1. e \in overrun \cup crossed
    BY DEF OwnersMind
  <2> QED
    BY <2>1 DEF RunsSound
<1> QED
  BY <1>1, TypeCorrect, AlwaysSound, AlwaysOwners, PTL

---------------------------------------------------------------------------
(* Settled for good *)

(* A step that changes a settled event is one of an overrun lease or of a  *)
(* crossed claim.                                                          *)
LEMMA SettledStep ==
  ASSUME TypeOK, RunsSound, OwnersMind, Next, NEW e \in Events,
         status[e] \in Settled, status'[e] # status[e]
  PROVE  e \in overrun \/ (Split /\ e \in crossed')
<1> USE DEF TypeOK, Settled
<1>1. ASSUME NEW r \in Relays, WorkingOn(r, e), crossed' = crossed
      PROVE  e \in overrun \/ (Split /\ e \in crossed')
  BY <1>1 DEF OwnersMind, RunsSound
<1>2. ASSUME NEW r \in Relays, Claim(r) PROVE FALSE
  BY <1>2, ClaimTakes
<1>3. ASSUME NEW r \in Relays, Update(r) PROVE Split /\ e \in crossed'
  BY <1>3, UpdateTakes
<1>4. ASSUME NEW r \in Relays, NEW f \in Events, MarkRetry(r, f)
      PROVE  WorkingOn(r, e) /\ crossed' = crossed
  BY <1>4, MarkRetryDrops DEF WorkingOn
<1>5. ASSUME NEW r \in Relays, MarkPublished(r) \/ MarkError(r)
      PROVE  WorkingOn(r, e) /\ crossed' = crossed
  BY <1>5 DEF MarkPublished, MarkError, SetPublished, WorkingOn, Claimed
<1>6. ASSUME NEW r \in Relays, \/ Select(r) \/ Reread(r) \/ \E f \in Events : Send(r, f)
                               \/ SendError(r) \/ MarkRetryError(r) \/ Halt(r)
      PROVE FALSE
  BY <1>6 DEF Select, Reread, Send, SendError, MarkRetryError, Halt
<1>7. ASSUME NEW f \in Events, Record(f) \/ LeaseExpires(f) \/ BackoffElapses(f) PROVE FALSE
  BY <1>7 DEF Record, LeaseExpires, BackoffElapses
<1>8. ASSUME NEW m \in Messages, Deliver(m) \/ DeliverError(m) \/ Callback(m) \/ CallbackError(m)
      PROVE FALSE
  BY <1>8, ConsumerSteps
<1>9. ~ Restart
  BY DEF Restart
<1> QED
  BY <1>1, <1>2, <1>3, <1>4, <1>5, <1>6, <1>7, <1>8, <1>9 DEF Next, RelayStep, RelayFault

(* A settled event stays as it is, although marking asks for no owner: it  *)
(* takes a lease that ended under a relay at work, or SQLite claims that   *)
(* crossed, to settle one twice.                                           *)
THEOREM StaysSettled == Spec => SettledForGood
<1>1. TypeOK /\ RunsSound /\ OwnersMind /\ [Next]_vars =>
        [\A e \in Events : status[e] \in Settled /\ status'[e] # status[e]
           => e \in overrun \/ (Split /\ e \in crossed')]_vars
  BY SettledStep
<1> QED
  BY <1>1, TypeCorrect, AlwaysSound, AlwaysOwners, PTL DEF Spec, SettledForGood

---------------------------------------------------------------------------
(* Delivery *)

(* A consumer has recorded the event, or its in-memory handler failed to.  *)
Known(c, e) == <<c, e>> \in recorded \/ (bus = "memory" /\ <<c, e>> \in dropped)

(* Unless the bus is mute, what a relay has sent is known or in the mail;  *)
(* and what is published is known to all or there to be read in the log.   *)
Underway ==
  /\ \A r \in Relays, e \in Events, c \in Consumers :
       pc[r] = "publishing" /\ e \in Batch(r) \ todo[r] =>
         bus = "mute" \/ Known(c, e) \/ <<Waiting(r), c, e>> \in mail
  /\ \A e \in Events, c \in Consumers :
       status[e] = "published" =>
         bus = "mute" \/ Known(c, e) \/ (bus = "log" /\ <<NoRelay, c, e>> \in mail)

(* No step but a restart or the end of its sender loses a message that its *)
(* consumer does not know of.                                              *)
Kept(w, c, e) == <<w, c, e>> \in mail => Known(c, e)' \/ <<w, c, e>> \in mail'

(* No step of a consumer drops a message its consumer does not know of.    *)
LEMMA ConsumersKeep ==
  ASSUME TypeOK, bus' = bus, NEW m \in Messages,
         Deliver(m) \/ DeliverError(m) \/ Callback(m) \/ CallbackError(m)
  PROVE  /\ \A c \in Consumers, e \in Events : Known(c, e) => Known(c, e)'
         /\ \A w \in Relays \cup {NoRelay}, c \in Consumers, e \in Events : Kept(w, c, e)
<1> USE DEF Known, Kept, Take
<1>1. ASSUME NEW c \in Consumers, NEW e \in Events, Known(c, e) PROVE Known(c, e)'
  BY <1>1 DEF Deliver, DeliverError, Callback, CallbackError
<1>2. ASSUME NEW w \in Relays \cup {NoRelay}, NEW c \in Consumers, NEW e \in Events
      PROVE  Kept(w, c, e)
  <2>1. CASE Deliver(m)
    BY <2>1 DEF Deliver, IsNew, Messages
  <2>2. CASE DeliverError(m)
    BY <2>2 DEF DeliverError, Messages
  <2>3. CASE Callback(m) \/ CallbackError(m)
    BY <2>3 DEF Callback, CallbackError
  <2> QED
    BY <2>1, <2>2, <2>3
<1> QED
  BY <1>1, <1>2

(* A relay that has sent all of its batch, and whose in-memory handlers    *)
(* are done, may mark it published.                                        *)
LEMMA SentIsUnderway ==
  ASSUME TypeOK, Underway, NEW r \in Relays, pc[r] = "publishing", todo[r] = {}, HandlersDone(r)
  PROVE  \A e \in Batch(r), c \in Consumers :
           bus = "mute" \/ Known(c, e) \/ (bus = "log" /\ <<NoRelay, c, e>> \in mail)
<1> TAKE e \in Batch(r), c \in Consumers
<1>1. bus = "mute" \/ Known(c, e) \/ <<Waiting(r), c, e>> \in mail
  BY DEF Underway, Batch
<1>2. CASE bus = "memory"
  BY <1>1, <1>2 DEF HandlersDone, Waiting
<1>3. CASE bus # "memory"
  BY <1>1, <1>3, BusesAssumption DEF Waiting, TypeOK
<1> QED
  BY <1>2, <1>3

(* Every step keeps what is or will be published on its way.               *)
LEMMA UnderwayStep == TypeOK /\ RunsSound /\ Underway /\ [Next]_vars => Underway'
<1> SUFFICES ASSUME TypeOK, RunsSound, Underway, [Next]_vars PROVE Underway'
  OBVIOUS
<1>0. bus' = bus /\ \A r \in Relays : Waiting(r)' = Waiting(r) /\ Waiting(r) \in Relays \cup {NoRelay}
  BY DEF Next, vars, Waiting
<1> USE <1>0 DEF TypeOK
<1>1. ASSUME \A c \in Consumers, e \in Events : Known(c, e) => Known(c, e)',
             \A r \in Relays, e \in Events :
               pc'[r] = "publishing" /\ e \in Batch(r)' \ todo'[r] =>
                 /\ pc[r] = "publishing" /\ e \in Batch(r) \ todo[r]
                 /\ \A c \in Consumers : Kept(Waiting(r), c, e),
             bus = "log" => \A c \in Consumers, e \in Events : Kept(NoRelay, c, e),
             \A e \in Events : status'[e] = "published" => status[e] = "published"
      PROVE Underway'
  BY <1>1 DEF Underway, Kept
<1>2. ASSUME UNCHANGED <<recorded, dropped>>
      PROVE  \A c \in Consumers, e \in Events : Known(c, e)' = Known(c, e)
  BY <1>2 DEF Known
<1>3. ASSUME UNCHANGED <<recorded, dropped>>, mail \subseteq mail',
             \A r \in Relays, e \in Events :
               pc'[r] = "publishing" /\ e \in Batch(r)' \ todo'[r] =>
                 pc[r] = "publishing" /\ e \in Batch(r) \ todo[r],
             \A e \in Events : status'[e] = "published" => status[e] = "published"
      PROVE Underway'
  BY <1>1, <1>2, <1>3 DEF Kept
<1>4. ASSUME NEW r \in Relays, Claim(r) PROVE Underway'
  <2>1. \A s \in Relays, e \in Events :
          pc'[s] = "publishing" /\ e \in Batch(s)' \ todo'[s]
            => pc[s] = "publishing" /\ e \in Batch(s) \ todo[s]
    BY <1>4, ClaimTakes DEF OthersKeep
  <2>2. \A e \in Events : status'[e] = "published" => status[e] = "published"
    BY <1>4, ClaimTakes
  <2>3. UNCHANGED <<mail, recorded, dropped>>
    BY <1>4, ClaimTakes
  <2> QED
    BY <1>3, <2>1, <2>2, <2>3
<1>5. ASSUME NEW r \in Relays, Select(r) PROVE Underway'
  BY <1>3, <1>5, SelectClaimsNone DEF OthersKeep
<1>6. ASSUME NEW r \in Relays, Update(r) PROVE Underway'
  <2>1. \A e \in Events : status'[e] = "published" => status[e] = "published"
    BY <1>6, UpdateTakes
  <2> QED
    BY <1>3, <1>6, <2>1, UpdateTakes DEF OthersKeep
<1>7. ASSUME NEW r \in Relays, Reread(r) PROVE Underway'
  BY <1>3, <1>7, RereadKeeps DEF OthersKeep
<1>8. ASSUME NEW r \in Relays, NEW e \in Events, Send(r, e) PROVE Underway'
  <2>1. mail \subseteq mail' /\ (bus = "mute" \/ \A c \in Consumers : <<Waiting(r), c, e>> \in mail')
    BY <1>8 DEF Send, Post
  <2>2. \A c \in Consumers, f \in Events : Known(c, f)' = Known(c, f)
    BY <1>8, <1>2 DEF Send
  <2>3. \A s \in Relays, f \in Events : pc'[s] = "publishing" /\ f \in Batch(s)' \ todo'[s]
          => pc[s] = "publishing" /\ (f \in Batch(s) \ todo[s] \/ (s = r /\ f = e))
    BY <1>8 DEF Send, Batch
  <2>4. status' = status
    BY <1>8 DEF Send
  <2> QED
    BY <2>1, <2>2, <2>3, <2>4 DEF Underway
<1>9. ASSUME NEW r \in Relays, NEW e \in Events, MarkRetry(r, e) PROVE Underway'
  <2>1. \A f \in Events : status'[f] = "published" => status[f] = "published"
    BY <1>9, MarkRetryDrops DEF AfterRetry
  <2> QED
    BY <1>3, <1>9, <2>1, MarkRetryDrops DEF OthersKeep
<1>10. ASSUME NEW r \in Relays, EndRun(r), UNCHANGED <<mail, recorded, dropped>>,
              \/ UNCHANGED status
              \/ pc[r] = "publishing" /\ todo[r] = {} /\ HandlersDone(r) /\ SetPublished(r)
       PROVE Underway'
  <2>1. \A s \in Relays, e \in Events :
          pc'[s] = "publishing" /\ e \in Batch(s)' \ todo'[s]
            => pc[s] = "publishing" /\ e \in Batch(s) \ todo[s]
    BY <1>10, EndRunClears DEF OthersKeep
  <2>2. CASE UNCHANGED status
    BY <1>3, <1>10, <2>1, <2>2
  <2>3. CASE pc[r] = "publishing" /\ todo[r] = {} /\ HandlersDone(r) /\ SetPublished(r)
    <3>1. \A e \in Events : status'[e] = "published" => status[e] = "published" \/ e \in Batch(r)
      BY <2>3 DEF SetPublished
    <3>2. \A e \in Batch(r), c \in Consumers :
            bus = "mute" \/ Known(c, e) \/ (bus = "log" /\ <<NoRelay, c, e>> \in mail)
      BY <2>3, SentIsUnderway
    <3> QED
      BY <1>2, <1>10, <2>1, <3>1, <3>2 DEF Underway
  <2> QED
    BY <1>10, <2>2, <2>3
<1>11. ASSUME NEW r \in Relays, MarkPublished(r) \/ MarkRetryError(r) PROVE Underway'
  BY <1>10, <1>11 DEF MarkPublished, MarkRetryError
<1>12. ASSUME NEW r \in Relays, pc' = [pc EXCEPT ![r] = "failing"],
              todo' = [todo EXCEPT ![r] = Batch(r)],
              UNCHANGED <<claim, status, recorded, dropped>>, mail \subseteq mail'
       PROVE Underway'
  BY <1>3, <1>12 DEF Batch
<1>13. ASSUME NEW r \in Relays, SendError(r) PROVE Underway'
  <2>1. mail \subseteq mail'
    BY <1>13 DEF SendError, Post
  <2> QED
    BY <1>12, <1>13, <2>1 DEF SendError
<1>14. ASSUME NEW r \in Relays, MarkError(r) PROVE Underway'
  BY <1>10, <1>12, <1>14 DEF MarkError
<1>15. ASSUME NEW r \in Relays, Halt(r) PROVE Underway'
  <2>1. \A s \in Relays, e \in Events :
          pc'[s] = "publishing" /\ e \in Batch(s)' \ todo'[s]
            => s # r /\ pc[s] = "publishing" /\ e \in Batch(s) \ todo[s]
    BY <1>15, EndRunClears DEF Halt, OthersKeep
  <2>2. CASE bus = "memory"
    <3>1. \A s \in Relays \ {r}, c \in Consumers, e \in Events : Kept(Waiting(s), c, e)
      BY <1>15, <2>2 DEF Halt, Kept, Waiting
    <3> QED
      BY <1>1, <1>2, <1>15, <2>1, <2>2, <3>1 DEF Halt
  <2>3. CASE bus # "memory"
    BY <1>3, <1>15, <2>1, <2>3 DEF Halt, Post
  <2> QED
    BY <2>2, <2>3
<1>16. ASSUME NEW e \in Events, Record(e) \/ LeaseExpires(e) \/ BackoffElapses(e) PROVE Underway'
  <2>1. UNCHANGED <<pc, claim, todo, mail, recorded, dropped>>
    BY <1>16 DEF Record, LeaseExpires, BackoffElapses
  <2>2. \A f \in Events : status'[f] = "published" => status[f] = "published"
    BY <1>16 DEF Record, LeaseExpires, BackoffElapses
  <2> QED
    BY <1>3, <2>1, <2>2 DEF Batch
<1>17. ASSUME NEW m \in Messages, \/ Deliver(m) \/ DeliverError(m)
                                  \/ Callback(m) \/ CallbackError(m)
       PROVE Underway'
  BY <1>1, <1>17, ConsumerSteps, ConsumersKeep DEF Batch
<1>18. CASE Restart
  BY <1>2, <1>18 DEF Restart, Underway
<1>19. CASE UNCHANGED vars
  BY <1>3, <1>19 DEF vars, Batch
<1> QED
  BY <1>4, <1>5, <1>6, <1>7, <1>8, <1>9, <1>11, <1>13, <1>14, <1>15, <1>16, <1>17, <1>18, <1>19
  DEF Next, RelayStep, RelayFault

(* An event is marked published only when every consumer of the in-memory  *)
(* bus has it or has failed to record it, or when it is in the log for them*)
(* to read: relays that overlap, crash or retry, and claims that cross,    *)
(* mark nothing a bus that sends has not been given.                       *)
THEOREM PublishedIsDelivered == Spec => []PublishedReachesConsumers
<1>1. Init => Underway
  BY DEF Init, Underway
<1>2. TypeOK /\ Underway => PublishedReachesConsumers
  <2> SUFFICES ASSUME TypeOK, Underway, NEW e \in Events, NEW c \in Consumers,
                      status[e] = "published"
               PROVE  CASE bus = "memory" -> <<c, e>> \in recorded \cup dropped
                        [] bus = "log" -> <<c, e>> \in recorded \/ <<NoRelay, c, e>> \in mail
                        [] bus = "mute" -> TRUE
    BY DEF PublishedReachesConsumers
  <2>1. bus = "mute" \/ Known(c, e) \/ (bus = "log" /\ <<NoRelay, c, e>> \in mail)
    BY DEF Underway
  <2> QED
    BY <2>1, BusesAssumption DEF Known, TypeOK
<1> QED
  BY <1>1, <1>2, TypeCorrect, AlwaysSound, UnderwayStep, PTL DEF Spec

---------------------------------------------------------------------------
(* Duplicates *)

(* A set that gains at most one element has at most one more.              *)
LEMMA CountGrown ==
  ASSUME NEW S, NEW T, NEW x, IsFiniteSet(S), T \subseteq S \cup {x}
  PROVE  IsFiniteSet(T) /\ Cardinality(T) \in Nat /\ Cardinality(T) <= Cardinality(S) + 1
<1>1. IsFiniteSet(S \cup {x}) /\ Cardinality(S \cup {x}) <= Cardinality(S) + 1
  <2>1. IsFiniteSet(S \cup {x})
        /\ Cardinality(S \cup {x}) = IF x \in S THEN Cardinality(S) ELSE Cardinality(S) + 1
    BY FS_AddElement, Zenon
  <2>2. Cardinality(S) \in Nat
    BY FS_CardinalityType
  <2> QED
    BY <2>1, <2>2
<1>2. IsFiniteSet(T) /\ Cardinality(T) <= Cardinality(S \cup {x})
  BY <1>1, FS_Subset
<1> QED
  BY <1>1, <1>2, FS_CardinalityType

(* A set that loses elements, if any, does not grow.                       *)
LEMMA CountKept ==
  ASSUME NEW S, NEW T, IsFiniteSet(S), T \subseteq S
  PROVE  IsFiniteSet(T) /\ Cardinality(T) \in Nat /\ Cardinality(T) <= Cardinality(S)
BY FS_Subset, FS_CardinalityType

(* A set that loses at least one element has one less.                     *)
LEMMA CountShrunk ==
  ASSUME NEW S, NEW T, NEW x \in S, IsFiniteSet(S), T \subseteq S \ {x}
  PROVE  IsFiniteSet(T) /\ Cardinality(T) \in Nat /\ Cardinality(T) + 1 <= Cardinality(S)
<1>1. IsFiniteSet(S \ {x}) /\ Cardinality(S \ {x}) = Cardinality(S) - 1
  BY FS_RemoveElement
<1>2. IsFiniteSet(T) /\ Cardinality(T) <= Cardinality(S \ {x})
  BY <1>1, FS_Subset
<1> QED
  BY <1>1, <1>2, FS_CardinalityType

(* A consumer's callback is called for what it has recorded, once. *)
CalledOnce == \A p \in Pairs : calls[p] = IF p \in recorded THEN 1 ELSE 0

(* Every step keeps calls and records of a consumer together.              *)
LEMMA CalledOnceStep == TypeOK /\ CalledOnce /\ [Next]_vars => CalledOnce'
<1> SUFFICES ASSUME TypeOK, CalledOnce, [Next]_vars PROVE CalledOnce'
  OBVIOUS
<1> USE DEF TypeOK
<1>1. ASSUME NEW m \in Messages, Deliver(m) PROVE CalledOnce'
  <2>1. PICK p \in Pairs : p = <<m[2], m[3]>>
    BY DEF Messages, Pairs
  <2>2. \/ UNCHANGED <<recorded, calls>>
        \/ p \notin recorded /\ recorded' = recorded \cup {p} /\ calls' = [calls EXCEPT ![p] = @ + 1]
    BY <1>1, <2>1 DEF Deliver, IsNew
  <2> QED
    BY <2>2 DEF CalledOnce
<1>2. UNCHANGED <<recorded, calls>> \/ \E m \in Messages : Deliver(m)
  <2>1. CASE Next
    BY <2>1 DEF Next, RelayStep, RelayFault, Claim, Select, Update, Reread,
       Send, SendError, MarkPublished, MarkError,
       MarkRetry, MarkRetryError, Halt, Record, LeaseExpires, BackoffElapses,
       DeliverError, Callback, CallbackError, Restart
  <2>2. CASE UNCHANGED vars
    BY <2>2 DEF vars
  <2> QED
    BY <2>1, <2>2
<1> QED
  BY <1>1, <1>2 DEF CalledOnce

(* Each hand-over of an event to the bus uses up a claim of it: those that *)
(* have happened and those still to come are no more than the claims.      *)
Sending(e) == {r \in Relays : pc[r] \in {"reading", "publishing"} /\ e \in todo[r]}

SendsPaid ==
  \A e \in Events : IsFiniteSet(Sending(e)) /\ sends[e] + Cardinality(Sending(e)) <= retries[e]

(* Every step keeps the sends of an event within its claims.               *)
LEMMA SendsStep == TypeOK /\ RunsSound /\ SendsPaid /\ [Next]_vars => SendsPaid'
<1> SUFFICES ASSUME TypeOK, RunsSound, SendsPaid, [Next]_vars, NEW e \in Events
             PROVE  IsFiniteSet(Sending(e)') /\ sends'[e] + Cardinality(Sending(e)') <= retries'[e]
  BY DEF SendsPaid
<1> DEFINE Good == IsFiniteSet(Sending(e)') /\ sends'[e] + Cardinality(Sending(e)') <= retries'[e]
<1> USE DEF TypeOK
<1>0. IsFiniteSet(Sending(e)) /\ sends[e] + Cardinality(Sending(e)) <= retries[e]
      /\ Cardinality(Sending(e)) \in Nat
  BY FS_CardinalityType DEF SendsPaid
<1>1. ASSUME Sending(e)' \subseteq Sending(e), sends'[e] = sends[e], retries'[e] = retries[e]
      PROVE  Good
  <2>1. IsFiniteSet(Sending(e)') /\ Cardinality(Sending(e)') \in Nat
        /\ Cardinality(Sending(e)') <= Cardinality(Sending(e))
    BY <1>0, <1>1, CountKept
  <2> QED
    BY <1>0, <1>1, <2>1
<1>2. ASSUME NEW r \in Sending(e), Sending(e)' \subseteq Sending(e) \ {r},
             sends'[e] = sends[e] + 1, retries'[e] = retries[e]
      PROVE  Good
  <2>1. IsFiniteSet(Sending(e)') /\ Cardinality(Sending(e)') \in Nat
        /\ Cardinality(Sending(e)') + 1 <= Cardinality(Sending(e))
    BY <1>0, <1>2, CountShrunk
  <2> QED
    BY <1>0, <1>2, <2>1
<1>3. ASSUME NEW r \in Relays, NEW f \in Events, Post(r, f) \/ UNCHANGED <<mail, sends>>,
             r \in Sending(f), \A s \in Relays \ {r} : pc'[s] = pc[s] /\ todo'[s] = todo[s],
             pc'[r] \in {"reading", "publishing"} => todo'[r] \subseteq todo[r] \ {f},
             UNCHANGED retries
      PROVE  Good
  <2>1. Sending(e)' \subseteq Sending(e)
    BY <1>3 DEF Sending
  <2>2. CASE sends'[e] = sends[e]
    BY <1>1, <1>3, <2>1, <2>2
  <2>3. CASE sends'[e] # sends[e]
    <3>1. e = f /\ sends'[e] = sends[e] + 1
      BY <1>3, <2>3 DEF Post
    <3>2. Sending(e)' \subseteq Sending(e) \ {r}
      BY <1>3, <2>1, <3>1 DEF Sending
    <3> QED
      BY <1>2, <1>3, <3>1, <3>2
  <2> QED
    BY <2>2, <2>3
<1>4. ASSUME NEW r \in Relays, Claim(r) PROVE Good
  <2>1. sends' = sends
    BY <1>4, ClaimTakes
  <2>2. CASE e \in Oldest
    <3>1. Sending(e)' \subseteq Sending(e) \cup {r} /\ retries'[e] = retries[e] + 1
      BY <1>4, <2>2, ClaimTakes DEF Sending, OthersKeep
    <3>2. IsFiniteSet(Sending(e)') /\ Cardinality(Sending(e)') \in Nat
          /\ Cardinality(Sending(e)') <= Cardinality(Sending(e)) + 1
      BY <1>0, <3>1, CountGrown
    <3> QED
      BY <1>0, <2>1, <3>1, <3>2
  <2>3. CASE e \notin Oldest
    <3>1. Sending(e)' \subseteq Sending(e) /\ retries'[e] = retries[e]
      BY <1>4, <2>3, ClaimTakes DEF Sending, OthersKeep
    <3> QED
      BY <1>1, <2>1, <3>1
  <2> QED
    BY <2>2, <2>3
<1>4a. ASSUME NEW r \in Relays, Select(r) PROVE Good
  <2>1. Sending(e)' \subseteq Sending(e)
    BY <1>4a, SelectClaimsNone DEF Sending, OthersKeep
  <2> QED
    BY <1>1, <1>4a, <2>1, SelectClaimsNone
<1>4b. ASSUME NEW r \in Relays, Update(r) PROVE Good
  <2>1. sends' = sends
    BY <1>4b, UpdateTakes
  <2>2. CASE e \in todo[r]
    <3>1. Sending(e)' \subseteq Sending(e) \cup {r} /\ retries'[e] = retries[e] + 1
      BY <1>4b, <2>2, UpdateTakes DEF Sending, OthersKeep
    <3>2. IsFiniteSet(Sending(e)') /\ Cardinality(Sending(e)') \in Nat
          /\ Cardinality(Sending(e)') <= Cardinality(Sending(e)) + 1
      BY <1>0, <3>1, CountGrown
    <3> QED
      BY <1>0, <2>1, <3>1, <3>2
  <2>3. CASE e \notin todo[r]
    <3>1. Sending(e)' \subseteq Sending(e) /\ retries'[e] = retries[e]
      BY <1>4b, <2>3, UpdateTakes DEF Sending, OthersKeep
    <3> QED
      BY <1>1, <2>1, <3>1
  <2> QED
    BY <2>2, <2>3
<1>4c. ASSUME NEW r \in Relays, Reread(r) PROVE Good
  <2>1. Sending(e)' \subseteq Sending(e)
    BY <1>4c, RereadKeeps DEF Sending, OthersKeep
  <2> QED
    BY <1>1, <1>4c, <2>1, RereadKeeps
<1>5. ASSUME NEW r \in Relays, NEW f \in Events, Send(r, f) PROVE Good
  <2>1. \A s \in Relays \ {r} : pc'[s] = pc[s] /\ todo'[s] = todo[s]
    BY <1>5 DEF Send
  <2>2. todo'[r] \subseteq todo[r] \ {f} /\ r \in Sending(f)
    BY <1>5 DEF Send, Sending
  <2>3. Post(r, f) /\ UNCHANGED retries
    BY <1>5 DEF Send
  <2> QED
    BY <1>3, <2>1, <2>2, <2>3
<1>6. ASSUME NEW r \in Relays, SendError(r) PROVE Good
  <2>1. PICK f \in todo[r] : Post(r, f) \/ UNCHANGED <<mail, sends>>
    BY <1>6 DEF SendError
  <2>2. \A s \in Relays \ {r} : pc'[s] = pc[s] /\ todo'[s] = todo[s]
    BY <1>6 DEF SendError
  <2>3. r \in Sending(f) /\ pc'[r] = "failing" /\ UNCHANGED retries /\ f \in Events
    BY <1>6, <2>1 DEF SendError, Sending
  <2> QED
    BY <1>3, <2>1, <2>2, <2>3
<1>7. ASSUME NEW r \in Relays, EndRun(r), UNCHANGED <<sends, retries>> PROVE Good
  <2>1. Sending(e)' \subseteq Sending(e)
    BY <1>7, EndRunClears DEF Sending, OthersKeep
  <2> QED
    BY <1>1, <1>7, <2>1
<1>8. ASSUME NEW r \in Relays, Halt(r) PROVE Good
  <2>1. EndRun(r) /\ UNCHANGED retries
    BY <1>8 DEF Halt
  <2>2. CASE UNCHANGED sends
    BY <1>7, <2>1, <2>2
  <2>3. CASE sends' # sends
    <3>1. pc[r] = "publishing" /\ \E f \in todo[r] : Post(r, f)
      BY <1>8, <2>3 DEF Halt
    <3>2. PICK f \in todo[r] : Post(r, f)
      BY <3>1
    <3>3. r \in Sending(f) /\ f \in Events
      BY <3>1, <3>2 DEF Sending
    <3>4. pc'[r] = "idle" /\ \A s \in Relays \ {r} : pc'[s] = pc[s] /\ todo'[s] = todo[s]
      BY <2>1, EndRunClears DEF OthersKeep
    <3> QED
      BY <1>3, <2>1, <3>2, <3>3, <3>4
  <2> QED
    BY <2>2, <2>3
<1>9. ASSUME NEW r \in Relays, \/ MarkPublished(r) \/ MarkError(r) \/ MarkRetryError(r)
                               \/ \E f \in Events : MarkRetry(r, f)
      PROVE Good
  <2>1. UNCHANGED <<sends, retries>>
    BY <1>9 DEF MarkPublished, MarkError, MarkRetryError, MarkRetry
  <2>2. CASE EndRun(r)
    BY <1>7, <2>1, <2>2
  <2>3. CASE ~ EndRun(r)
    <3>1. \A s \in Relays : pc'[s] \in {"reading", "publishing"} =>
                             pc'[s] = pc[s] /\ todo'[s] \subseteq todo[s]
      BY <1>9, <2>3 DEF MarkPublished, MarkError, MarkRetryError, MarkRetry
    <3>2. Sending(e)' \subseteq Sending(e)
      BY <3>1 DEF Sending
    <3> QED
      BY <1>1, <2>1, <3>2
  <2> QED
    BY <2>2, <2>3
<1>10. ASSUME UNCHANGED <<pc, todo, sends, retries>> PROVE Good
  BY <1>1, <1>10 DEF Sending
<1>11. ASSUME NEW f \in Events, Record(f) \/ LeaseExpires(f) \/ BackoffElapses(f) PROVE Good
  BY <1>10, <1>11 DEF Record, LeaseExpires, BackoffElapses
<1>12. ASSUME NEW m \in Messages, \/ Deliver(m) \/ DeliverError(m)
                                  \/ Callback(m) \/ CallbackError(m)
       PROVE Good
  BY <1>10, <1>12, ConsumerSteps
<1>13. CASE Restart
  BY <1>1, <1>13 DEF Restart, Sending
<1>14. CASE UNCHANGED vars
  BY <1>10, <1>14 DEF vars
<1> QED
  BY <1>4, <1>4a, <1>4b, <1>4c, <1>5, <1>6, <1>8, <1>9, <1>11, <1>12, <1>13, <1>14
  DEF Next, RelayStep, RelayFault

(* Each further occasion to claim an event is paid for by a fault: one that*)
(* made a relay mark it for a retry, or one that left it to be claimed     *)
(* again.  An occasion serves one relay or, where SQLite claims cross,     *)
(* each relay once.  Those still to come are, of a row that is free, all;  *)
(* of a row that is taken, the relays that selected it before.             *)
Failing(e) == {r \in Relays : pc[r] = "failing" /\ e \in todo[r]}
Claiming(e) == {r \in Relays : pc[r] = "claiming" /\ e \in todo[r]}

Free(e) ==
  \/ status[e] \in {"absent", "pending", "backoff", "lapsed"}
  \/ status[e] = "processing" /\ ~ WorkingOn(owner[e], e)

Coming(e) == IF Free(e) THEN Rivals ELSE Cardinality(Claiming(e))

ClaimsPaid ==
  \A e \in Events : retries[e] + Coming(e) + Rivals * Cardinality(Failing(e)) <= Rivals * (1 + faults)

(* Arithmetic of occasions. *)
LEMMA Occasions ==
  ASSUME NEW k \in Nat, NEW a \in Nat, NEW b \in Nat
  PROVE  /\ k * a \in Nat /\ k * (a + 1) = k * a + k /\ k * (1 + a) = k * a + k
         /\ a <= b => k * a <= k * b
         /\ a + 1 <= b => k * a + k <= k * b
<1>1. k * a \in Nat /\ k * (a + 1) = k * a + k /\ k * (1 + a) = k * a + k
  OBVIOUS
<1>2. ASSUME NEW c \in Nat, c <= b PROVE k * c <= k * b
  <2>1. b - c \in Nat /\ k * (b - c) \in Nat
    BY <1>2
  <2>2. k * b = k * c + k * (b - c)
    BY <1>2
  <2> QED
    BY <2>1, <2>2
<1> QED
  BY <1>1, <1>2

(* What is still to come of an event is counted, and serves no more than   *)
(* one occasion.                                                           *)
ComingSound ==
  \A e \in Events :
    /\ Rivals \in Nat /\ Coming(e) \in Nat /\ Cardinality(Claiming(e)) \in Nat
    /\ Cardinality(Claiming(e)) <= Coming(e) /\ Coming(e) <= Rivals
    /\ IsFiniteSet(Failing(e)) /\ Cardinality(Failing(e)) \in Nat
    /\ IsFiniteSet(Claiming(e))

(* It does so in every state whose runs are sound.                         *)
LEMMA ComingBound ==
  ASSUME IsFiniteSet(Relays)
  PROVE  TypeOK /\ RunsSound => ComingSound
<1> SUFFICES ASSUME TypeOK, RunsSound, NEW e \in Events
             PROVE  /\ Rivals \in Nat /\ Coming(e) \in Nat /\ Cardinality(Claiming(e)) \in Nat
                    /\ Cardinality(Claiming(e)) <= Coming(e) /\ Coming(e) <= Rivals
                    /\ IsFiniteSet(Failing(e)) /\ Cardinality(Failing(e)) \in Nat
                    /\ IsFiniteSet(Claiming(e))
  BY DEF ComingSound
<1>1. Claiming(e) \subseteq Relays /\ Failing(e) \subseteq Relays
  BY DEF Claiming, Failing
<1>2. /\ IsFiniteSet(Failing(e)) /\ Cardinality(Failing(e)) \in Nat
      /\ IsFiniteSet(Claiming(e)) /\ Cardinality(Claiming(e)) \in Nat
      /\ Cardinality(Claiming(e)) <= Cardinality(Relays)
      /\ Cardinality(Relays) \in Nat
  BY <1>1, FS_Subset, FS_CardinalityType
<1>3. ~ Split => Cardinality(Claiming(e)) = 0
  <2>1. ~ Split => Claiming(e) = {}
    BY DEF Claiming, RunsSound
  <2> QED
    BY <2>1, FS_EmptySet
<1> QED
  BY <1>2, <1>3 DEF Coming, Rivals

(* Every step keeps the claims of an event within what faults account for. *)
LEMMA ClaimsStep ==
  ASSUME IsFiniteSet(Relays)
  PROVE  /\ TypeOK /\ RunsSound /\ ComingSound /\ ClaimsPaid /\ [Next]_vars
         /\ TypeOK' /\ ComingSound'
         => ClaimsPaid'
<1> SUFFICES ASSUME TypeOK, RunsSound, ComingSound, ClaimsPaid, [Next]_vars, TypeOK', ComingSound',
                    NEW e \in Events
             PROVE  retries'[e] + Coming(e)' + Rivals' * Cardinality(Failing(e)')
                      <= Rivals' * (1 + faults')
  BY DEF ClaimsPaid
<1> DEFINE Good == retries'[e] + Coming(e)' + Rivals' * Cardinality(Failing(e)')
                     <= Rivals' * (1 + faults')
<1>0. /\ Rivals \in Nat /\ Coming(e) \in Nat /\ Cardinality(Claiming(e)) \in Nat
      /\ Cardinality(Claiming(e)) <= Coming(e) /\ Coming(e) <= Rivals
      /\ IsFiniteSet(Failing(e)) /\ Cardinality(Failing(e)) \in Nat
      /\ IsFiniteSet(Claiming(e))
      /\ retries[e] + Coming(e) + Rivals * Cardinality(Failing(e)) <= Rivals * (1 + faults)
      /\ retries[e] \in Nat /\ faults \in Nat
  BY DEF ClaimsPaid, ComingSound, TypeOK
<1>1. Rivals' = Rivals /\ Split' = Split
  BY DEF Next, vars, Rivals, Split
<1>2. /\ Coming(e)' \in Nat /\ Coming(e)' <= Rivals
      /\ Cardinality(Failing(e)') \in Nat /\ Cardinality(Claiming(e)') \in Nat
      /\ retries'[e] \in Nat /\ faults' \in Nat
  BY <1>1 DEF ComingSound, TypeOK
<1>3. ASSUME Failing(e)' \subseteq Failing(e), retries'[e] = retries[e],
             \/ faults' = faults + 1
             \/ faults' = faults /\ Coming(e)' <= Coming(e)
      PROVE  Good
  <2>1. Cardinality(Failing(e)') <= Cardinality(Failing(e))
    BY <1>0, <1>3, CountKept
  <2>2. Rivals * Cardinality(Failing(e)') <= Rivals * Cardinality(Failing(e))
        /\ Rivals * Cardinality(Failing(e)) \in Nat /\ Rivals * Cardinality(Failing(e)') \in Nat
    BY <1>0, <1>2, <2>1, Occasions
  <2>3. CASE faults' = faults + 1
    <3>1. Rivals * (1 + faults') = Rivals * (1 + faults) + Rivals /\ Rivals * (1 + faults) \in Nat
      BY <1>0, <2>3, Occasions
    <3> QED
      BY <1>0, <1>1, <1>2, <1>3, <2>2, <3>1
  <2>4. CASE faults' = faults /\ Coming(e)' <= Coming(e)
    <3>1. Rivals * (1 + faults) \in Nat
      BY <1>0
    <3> QED
      BY <1>0, <1>1, <1>2, <1>3, <2>2, <2>4, <3>1
  <2> QED
    BY <1>3, <2>3, <2>4
<1>4. ASSUME NEW r \in Relays, Failing(e)' \subseteq Failing(e) \cup {r},
             retries'[e] = retries[e], faults' = faults + 1, Coming(e)' <= Coming(e)
      PROVE  Good
  <2>1. Cardinality(Failing(e)') <= Cardinality(Failing(e)) + 1
    BY <1>0, <1>4, CountGrown
  <2>2. Rivals * Cardinality(Failing(e)') <= Rivals * Cardinality(Failing(e)) + Rivals
        /\ Rivals * Cardinality(Failing(e)) \in Nat /\ Rivals * Cardinality(Failing(e)') \in Nat
    <3>1. Rivals * Cardinality(Failing(e)') <= Rivals * (Cardinality(Failing(e)) + 1)
      BY <1>0, <1>2, <2>1, Occasions
    <3> QED
      BY <1>0, <1>2, <3>1, Occasions
  <2>3. Rivals * (1 + faults') = Rivals * (1 + faults) + Rivals /\ Rivals * (1 + faults) \in Nat
    BY <1>0, <1>4, Occasions
  <2> QED
    BY <1>0, <1>1, <1>2, <1>4, <2>2, <2>3
<1>5. ASSUME NEW r \in Failing(e), Failing(e)' \subseteq Failing(e) \ {r},
             retries'[e] = retries[e], faults' = faults
      PROVE  Good
  <2>1. Cardinality(Failing(e)') + 1 <= Cardinality(Failing(e))
    BY <1>0, <1>5, CountShrunk
  <2>2. Rivals * Cardinality(Failing(e)') + Rivals <= Rivals * Cardinality(Failing(e))
        /\ Rivals * Cardinality(Failing(e)) \in Nat /\ Rivals * Cardinality(Failing(e)') \in Nat
    BY <1>0, <1>2, <2>1, Occasions
  <2>3. Rivals * (1 + faults) \in Nat
    BY <1>0
  <2> QED
    BY <1>0, <1>1, <1>2, <1>5, <2>2, <2>3
<1>6. ASSUME Failing(e)' \subseteq Failing(e), retries'[e] = retries[e] + 1,
             \/ faults' = faults /\ Coming(e)' + 1 <= Coming(e)
             \/ faults' = faults + 1 /\ Coming(e)' <= Coming(e) /\ Rivals >= 1
      PROVE  Good
  <2>1. Cardinality(Failing(e)') <= Cardinality(Failing(e))
    BY <1>0, <1>6, CountKept
  <2>2. Rivals * Cardinality(Failing(e)') <= Rivals * Cardinality(Failing(e))
        /\ Rivals * Cardinality(Failing(e)) \in Nat /\ Rivals * Cardinality(Failing(e)') \in Nat
    BY <1>0, <1>2, <2>1, Occasions
  <2>3. Rivals * (1 + faults) \in Nat /\ Rivals * (1 + (faults + 1)) = Rivals * (1 + faults) + Rivals
    BY <1>0, Occasions
  <2>4. CASE faults' = faults /\ Coming(e)' + 1 <= Coming(e)
    BY <1>0, <1>1, <1>2, <1>6, <2>2, <2>3, <2>4
  <2>5. CASE faults' = faults + 1 /\ Coming(e)' <= Coming(e) /\ Rivals >= 1
    <3>1. Rivals * (1 + faults') = Rivals * (1 + faults) + Rivals
      BY <2>3, <2>5
    <3> QED
      BY <1>0, <1>1, <1>2, <1>6, <2>2, <2>3, <2>5, <3>1
  <2> QED
    BY <1>6, <2>4, <2>5
<1>7. ASSUME status'[e] = status[e], owner'[e] = owner[e], Claiming(e)' \subseteq Claiming(e),
             WorkingOn(owner[e], e) => WorkingOn(owner[e], e)'
      PROVE  Coming(e)' <= Coming(e)
  <2>1. Cardinality(Claiming(e)') <= Cardinality(Claiming(e))
    BY <1>0, <1>7, CountKept
  <2>2. Free(e)' => Free(e)
    BY <1>7 DEF Free
  <2> QED
    BY <1>0, <1>1, <1>2, <2>1, <2>2 DEF Coming
<1> HIDE DEF Good
<1> USE RelaysAssumption DEF TypeOK, WorkingOn
<1>8. ASSUME NEW r \in Relays, Claim(r) PROVE Good
  <2>1. Failing(e)' \subseteq Failing(e) /\ Claiming(e)' \subseteq Claiming(e)
    BY <1>8, ClaimTakes DEF Failing, Claiming, OthersKeep
  <2>2. CASE e \in Oldest
    <3>1. /\ retries'[e] = retries[e] + 1 /\ status'[e] = "processing" /\ owner'[e] = r
          /\ status[e] \in {"pending", "lapsed"} /\ ~ Split
      BY <1>8, <2>2, ClaimTakes
    <3>2. Coming(e) = 1 /\ Rivals = 1
      BY <3>1 DEF Coming, Free, Rivals
    <3>3. CASE faults' = faults + 1
      BY <1>1, <1>2, <1>6, <2>1, <3>1, <3>2, <3>3
    <3>4. CASE faults' # faults + 1
      <4>1. faults' = faults /\ e \in Claimed(r)'
        BY <1>8, <2>2, <3>4, ClaimTakes
      <4>2. ~ Free(e)'
        BY <3>1, <4>1 DEF Free
      <4>3. Claiming(e)' = {}
        BY <2>1, <3>1 DEF Claiming, RunsSound
      <4>4. Coming(e)' = 0
        BY <4>2, <4>3, FS_EmptySet DEF Coming
      <4> QED
        BY <1>6, <2>1, <3>1, <3>2, <4>1, <4>4
    <3> QED
      BY <3>3, <3>4
  <2>3. CASE e \notin Oldest
    <3>1. retries'[e] = retries[e] /\ status'[e] = status[e] /\ owner'[e] = owner[e]
      BY <1>8, <2>3, ClaimTakes
    <3>2. Claimed(r) = {} /\ \A s \in Relays \ {r} : Claimed(s)' = Claimed(s)
      BY <1>8, ClaimTakes DEF OthersKeep
    <3>3. WorkingOn(owner[e], e) => WorkingOn(owner[e], e)'
      BY <3>1, <3>2
    <3>4. faults' = faults \/ faults' = faults + 1
      BY <1>8, ClaimTakes
    <3> QED
      BY <1>3, <1>7, <2>1, <3>1, <3>3, <3>4
  <2> QED
    BY <2>2, <2>3
<1>9. ASSUME NEW r \in Relays, Select(r) PROVE Good
  <2>1. Failing(e)' \subseteq Failing(e)
    BY <1>9, SelectClaimsNone DEF Failing, OthersKeep
  <2>2. status' = status /\ owner' = owner /\ retries' = retries /\ faults' = faults
    BY <1>9, SelectClaimsNone
  <2>3. CASE e \in todo'[r]
    <3>1. Free(e)
      BY <1>9, <2>3, SelectClaimsNone DEF Free
    <3>2. Coming(e) = Rivals
      BY <3>1 DEF Coming
    <3> QED
      BY <1>2, <1>3, <2>1, <2>2, <3>2
  <2>4. CASE e \notin todo'[r]
    <3>1. Claiming(e)' \subseteq Claiming(e)
      BY <1>9, <2>4, SelectClaimsNone DEF Claiming, OthersKeep
    <3>2. WorkingOn(owner[e], e) => WorkingOn(owner[e], e)'
      BY <1>9, <2>2, SelectClaimsNone DEF OthersKeep
    <3> QED
      BY <1>3, <1>7, <2>1, <2>2, <3>1, <3>2
  <2> QED
    BY <2>3, <2>4
<1>10. ASSUME NEW r \in Relays, Update(r) PROVE Good
  <2>1. Failing(e)' \subseteq Failing(e) /\ faults' = faults
    BY <1>10, UpdateTakes DEF Failing, OthersKeep
  <2>2. CASE e \in todo[r]
    <3>1. retries'[e] = retries[e] + 1 /\ status'[e] = "processing" /\ owner'[e] = r
          /\ e \in Claimed(r)' /\ Split
      BY <1>10, <2>2, UpdateTakes
    <3>2. r \in Claiming(e) /\ Claiming(e)' \subseteq Claiming(e) \ {r}
      BY <1>10, <2>2, UpdateTakes DEF Claiming, OthersKeep
    <3>3. Cardinality(Claiming(e)') + 1 <= Cardinality(Claiming(e))
      BY <1>0, <3>2, CountShrunk
    <3>4. ~ Free(e)'
      BY <3>1 DEF Free
    <3>5. Coming(e)' + 1 <= Coming(e)
      BY <1>0, <1>2, <3>3, <3>4 DEF Coming
    <3> QED
      BY <1>6, <2>1, <3>1, <3>5
  <2>3. CASE e \notin todo[r]
    <3>1. retries'[e] = retries[e] /\ status'[e] = status[e] /\ owner'[e] = owner[e]
      BY <1>10, <2>3, UpdateTakes
    <3>2. Claiming(e)' \subseteq Claiming(e)
      BY <1>10, UpdateTakes DEF Claiming, OthersKeep
    <3>3. WorkingOn(owner[e], e) => WorkingOn(owner[e], e)'
      BY <1>10, <3>1, UpdateTakes DEF OthersKeep
    <3> QED
      BY <1>3, <1>7, <2>1, <3>1, <3>2, <3>3
  <2> QED
    BY <2>2, <2>3
<1>11. ASSUME UNCHANGED <<status, owner, retries>>, faults' = faults \/ faults' = faults + 1,
              Failing(e)' \subseteq Failing(e), Claiming(e)' \subseteq Claiming(e),
              \A s \in Relays : Claimed(s) \subseteq Claimed(s)'
       PROVE Good
  BY <1>3, <1>7, <1>11
<1>12. ASSUME NEW r \in Relays, Reread(r) PROVE Good
  <2>1. Failing(e)' \subseteq Failing(e) /\ Claiming(e)' \subseteq Claiming(e)
    BY <1>12, RereadKeeps DEF Failing, Claiming, OthersKeep
  <2> QED
    BY <1>11, <1>12, <2>1, RereadKeeps DEF OthersKeep
<1>13. ASSUME NEW r \in Relays, NEW f \in Events, Send(r, f) PROVE Good
  <2>1. Failing(e)' \subseteq Failing(e) /\ Claiming(e)' \subseteq Claiming(e)
    BY <1>13 DEF Send, Failing, Claiming
  <2>2. \A s \in Relays : Claimed(s)' = Claimed(s)
    BY <1>13 DEF Send, Claimed, Batch
  <2> QED
    BY <1>11, <1>13, <2>1, <2>2 DEF Send
<1>14. ASSUME NEW r \in Relays, NEW f \in Events, MarkRetry(r, f) PROVE Good
  <2>1. UNCHANGED <<retries, faults>> /\ f \in todo[r] /\ pc[r] = "failing"
    BY <1>14, MarkRetryDrops
  <2>2. Failing(e)' \subseteq Failing(e) /\ (e = f => r \notin Failing(e)')
        /\ Claiming(e)' \subseteq Claiming(e)
    <3>1. /\ pc'[r] \in {"idle", "failing"} /\ todo'[r] = todo[r] \ {f}
          /\ \A s \in Relays \ {r} : pc'[s] = pc[s] /\ todo'[s] = todo[s]
      BY <1>14, MarkRetryDrops DEF OthersKeep
    <3> QED
      BY <2>1, <3>1 DEF Failing, Claiming
  <2>3. CASE e = f
    <3>1. r \in Failing(e)
      BY <2>1, <2>3 DEF Failing
    <3> QED
      BY <1>5, <2>1, <2>2, <2>3, <3>1
  <2>4. CASE e # f
    <3>1. status'[e] = status[e] /\ owner'[e] = owner[e]
      BY <1>14, <2>4, MarkRetryDrops
    <3>2. WorkingOn(owner[e], e) => WorkingOn(owner[e], e)'
      BY <1>14, <2>4, <3>1, MarkRetryDrops DEF OthersKeep
    <3> QED
      BY <1>3, <1>7, <2>1, <2>2, <3>1, <3>2
  <2> QED
    BY <2>3, <2>4
<1>15. ASSUME NEW r \in Relays, EndRun(r), UNCHANGED retries, faults' = faults + 1 PROVE Good
  <2>1. Failing(e)' \subseteq Failing(e)
    BY <1>15, EndRunClears DEF Failing, OthersKeep
  <2> QED
    BY <1>3, <1>15, <2>1
<1>16. ASSUME NEW r \in Relays, MarkPublished(r) PROVE Good
  <2>1. EndRun(r) /\ SetPublished(r) /\ UNCHANGED <<owner, retries, faults>> /\ Claimed(r) = Batch(r)
    BY <1>16 DEF MarkPublished, Claimed
  <2>2. Failing(e)' \subseteq Failing(e) /\ Claiming(e)' \subseteq Claiming(e)
    BY <2>1, EndRunClears DEF Failing, Claiming, OthersKeep
  <2>3. CASE e \in Batch(r)
    <3>1. status'[e] = "published"
      BY <2>1, <2>3 DEF SetPublished
    <3>2. ~ Free(e)'
      BY <3>1 DEF Free
    <3>3. Cardinality(Claiming(e)') <= Cardinality(Claiming(e))
      BY <1>0, <2>2, CountKept
    <3>4. Coming(e)' <= Coming(e)
      BY <1>0, <1>2, <3>2, <3>3 DEF Coming
    <3> QED
      BY <1>3, <2>1, <2>2, <3>4
  <2>4. CASE e \notin Batch(r)
    <3>1. status'[e] = status[e]
      BY <2>1, <2>4 DEF SetPublished
    <3>2. WorkingOn(owner[e], e) => WorkingOn(owner[e], e)'
      BY <2>1, <2>4, EndRunClears DEF OthersKeep
    <3> QED
      BY <1>3, <1>7, <2>1, <2>2, <3>1, <3>2
  <2> QED
    BY <2>3, <2>4
<1>17. ASSUME NEW r \in Relays, MarkRetryError(r) \/ Halt(r) PROVE Good
  BY <1>15, <1>17 DEF MarkRetryError, Halt, Fault
<1>18. ASSUME NEW r \in Relays, pc[r] = "publishing", pc' = [pc EXCEPT ![r] = "failing"],
              todo' = [todo EXCEPT ![r] = Batch(r)],
              UNCHANGED <<status, owner, retries, claim>>, faults' = faults + 1
       PROVE Good
  <2>1. Failing(e)' \subseteq Failing(e) \cup {r} /\ Claiming(e)' \subseteq Claiming(e)
    BY <1>18 DEF Failing, Claiming
  <2>2. \A s \in Relays : Claimed(s)' = Claimed(s)
    BY <1>18 DEF Claimed, Batch
  <2> QED
    BY <1>4, <1>7, <1>18, <2>1, <2>2
<1>19. ASSUME NEW r \in Relays, SendError(r) \/ MarkError(r) PROVE Good
  BY <1>15, <1>18, <1>19 DEF SendError, MarkError, Fault
<1>20. ASSUME NEW f \in Events, Record(f) \/ LeaseExpires(f) \/ BackoffElapses(f) PROVE Good
  <2>1. UNCHANGED <<owner, retries, pc, claim, todo>>
    BY <1>20 DEF Record, LeaseExpires, BackoffElapses
  <2>2. Failing(e)' = Failing(e) /\ Claiming(e)' = Claiming(e)
        /\ \A s \in Relays : Claimed(s)' = Claimed(s)
    BY <2>1 DEF Failing, Claiming, Claimed, Batch
  <2>3. CASE faults' = faults + 1
    BY <1>3, <2>1, <2>2, <2>3
  <2>4. CASE faults' # faults + 1
    <3>1. faults' = faults
      BY <1>20, <2>4 DEF Record, LeaseExpires, BackoffElapses, Fault, NoFault
    <3>2. Free(e)' => Free(e)
      BY <1>20, <2>1, <2>2, <2>4 DEF Record, LeaseExpires, BackoffElapses, Free, Fault
    <3>3. Coming(e)' <= Coming(e)
      BY <1>0, <1>1, <1>2, <2>2, <3>2 DEF Coming
    <3> QED
      BY <1>3, <2>1, <2>2, <3>1, <3>3
  <2> QED
    BY <2>3, <2>4
<1>21. ASSUME NEW m \in Messages, \/ Deliver(m) \/ DeliverError(m)
                                  \/ Callback(m) \/ CallbackError(m)
       PROVE Good
  <2>1. UNCHANGED <<status, owner, retries, pc, claim, todo>>
    BY <1>21, ConsumerSteps
  <2>2. Failing(e)' = Failing(e) /\ Claiming(e)' = Claiming(e)
        /\ \A s \in Relays : Claimed(s)' = Claimed(s)
    BY <2>1 DEF Failing, Claiming, Claimed, Batch
  <2> QED
    BY <1>11, <1>21, <2>1, <2>2, ConsumerSteps
<1>22. ASSUME Restart PROVE Good
  <2>1. Failing(e)' \subseteq Failing(e)
    BY <1>22 DEF Restart, Failing
  <2>2. UNCHANGED retries /\ faults' = faults + 1
    BY <1>22 DEF Restart, Fault
  <2> QED
    BY <1>3, <2>1, <2>2
<1>23. ASSUME UNCHANGED vars PROVE Good
  <2>1. Failing(e)' = Failing(e) /\ Claiming(e)' = Claiming(e)
        /\ \A s \in Relays : Claimed(s)' = Claimed(s)
    BY <1>23 DEF vars, Failing, Claiming, Claimed, Batch
  <2>2. UNCHANGED <<status, owner, retries, faults>>
    BY <1>23 DEF vars
  <2> QED
    BY <1>11, <2>1, <2>2
<1> HIDE DEF TypeOK, WorkingOn
<1>24. Good
  BY <1>8, <1>9, <1>10, <1>12, <1>13, <1>14, <1>16, <1>17, <1>19, <1>20, <1>21, <1>22, <1>23
  DEF Next, RelayStep, RelayFault
<1> QED
  BY <1>24 DEF Good

(* At least once, at a price: a consumer is called for an event once, and  *)
(* an event is claimed and handed to the bus no oftener than occasions to  *)
(* claim it, the first and one per fault, account for: each serves one     *)
(* relay or, where SQLite claims cross, every relay once.                  *)
THEOREM DuplicatesBounded ==
  ASSUME IsFiniteSet(Relays) PROVE Spec => []DuplicatesAccounted
<1>1. Init => CalledOnce /\ SendsPaid /\ ClaimsPaid
  <2> SUFFICES ASSUME Init PROVE CalledOnce /\ SendsPaid /\ ClaimsPaid
    OBVIOUS
  <2>1. \A e \in Events : Sending(e) = {} /\ Failing(e) = {}
    BY DEF Init, Sending, Failing
  <2>2. IsFiniteSet({}) /\ Cardinality({}) = 0
    BY FS_EmptySet
  <2>3. CalledOnce
    BY DEF Init, CalledOnce
  <2>4. \A e \in Events : retries[e] = 0 /\ sends[e] = 0
    BY DEF Init
  <2>5. SendsPaid
    BY <2>1, <2>2, <2>4 DEF SendsPaid
  <2>6. faults = 0 /\ \A e \in Events : Coming(e) = Rivals
    BY DEF Init, Coming, Free
  <2>7. Rivals \in Nat
    BY FS_CardinalityType DEF Rivals
  <2>8. ClaimsPaid
    BY <2>1, <2>2, <2>4, <2>6, <2>7 DEF ClaimsPaid
  <2> QED
    BY <2>3, <2>5, <2>8
<1>2. TypeOK /\ CalledOnce /\ SendsPaid /\ ClaimsPaid /\ ComingSound => DuplicatesAccounted
  <2> SUFFICES ASSUME TypeOK, CalledOnce, SendsPaid, ClaimsPaid, ComingSound PROVE DuplicatesAccounted
    OBVIOUS
  <2>1. \A p \in Pairs : calls[p] <= 1
    BY DEF CalledOnce
  <2>2. ASSUME NEW e \in Events PROVE sends[e] <= retries[e] /\ retries[e] <= Rivals * (1 + faults)
    <3>1. /\ Cardinality(Sending(e)) \in Nat /\ sends[e] + Cardinality(Sending(e)) <= retries[e]
          /\ sends[e] \in Nat /\ retries[e] \in Nat /\ faults \in Nat
      BY FS_CardinalityType DEF SendsPaid, TypeOK
    <3>2. /\ Rivals \in Nat /\ Coming(e) \in Nat /\ Cardinality(Failing(e)) \in Nat
          /\ retries[e] + Coming(e) + Rivals * Cardinality(Failing(e)) <= Rivals * (1 + faults)
      BY DEF ComingSound, ClaimsPaid
    <3>3. Rivals * Cardinality(Failing(e)) \in Nat /\ Rivals * (1 + faults) \in Nat
      BY <3>1, <3>2
    <3> QED
      BY <3>1, <3>2, <3>3
  <2> QED
    BY <2>1, <2>2 DEF DuplicatesAccounted
<1>3. TypeOK /\ RunsSound => ComingSound
  BY ComingBound
<1>4. /\ TypeOK /\ RunsSound /\ ComingSound /\ ClaimsPaid /\ [Next]_vars
      /\ TypeOK' /\ ComingSound'
      => ClaimsPaid'
  BY ClaimsStep
<1> QED
  BY <1>1, <1>2, <1>3, <1>4, TypeCorrect, AlwaysSound, CalledOnceStep, SendsStep, PTL DEF Spec
============================================================================
