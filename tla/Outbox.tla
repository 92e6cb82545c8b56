------------------------------- MODULE Outbox -------------------------------
(***************************************************************************)
(* The transactional outbox: events recorded in the store's outbox_events  *)
(* table (sqlite_store.py, postgres_store.py), the relays that claim and   *)
(* publish them (events/relay.py), the bus (events/bus.py) and the         *)
(* consumers that apply them (events/consumer.py).                         *)
(*                                                                         *)
(* Store calls are synchronous, so a step is what a task does between two  *)
(* awaits or, against other processes, between two store calls.  An event  *)
(* is named by its place in the order of created_at.  calls, applied,      *)
(* sends, dropped, overrun, crossed and faults record history; of them     *)
(* only faults bounds a step.                                              *)
(*                                                                         *)
(* The in-memory bus runs in one process with its relays and consumers.    *)
(* "log" is Kafka with a producer: what is sent stays in the topic, and an *)
(* application outside this repository reads it and calls handle_event; no *)
(* code here does, so nothing is promised about when.  "mute" is a bus     *)
(* that sends nothing and raises nothing: Kafka with the default producer, *)
(* None, and RabbitMQ.                                                     *)
(***************************************************************************)
EXTENDS Naturals, FiniteSets

CONSTANTS NumEvents,  \* number of events ever recorded
          Relays,     \* OutboxRelay instances
          NoRelay,    \* no claim owner
          Consumers,  \* InvalidationConsumer instances, one name each
          Buses,      \* the event buses a deployment can be configured with
          Stores,     \* the stores it can be configured with
          BatchSize,  \* batch_size of run_once
          MaxRetries, \* max_retries of the relays
          MaxFaults,  \* bound on errors, stops, crashes and overrun leases
          MaxSplitFaults \* the same, where the claims of two relays interleave

ASSUME NumbersAssumption ==
  NumEvents \in Nat /\ BatchSize \in Nat \ {0} /\ MaxRetries \in Nat /\ MaxFaults \in Nat /\ MaxSplitFaults \in Nat
ASSUME RelaysAssumption == NoRelay \notin Relays
ASSUME BusesAssumption == Buses \subseteq {"memory", "log", "mute"}
ASSUME StoresAssumption == Stores \subseteq {"sqlite", "postgres"}

Events == 1 .. NumEvents
Pairs == Consumers \X Events
Messages == (Relays \cup {NoRelay}) \X Consumers \X Events

VARIABLES
  bus,       \* the bus of this deployment; it never changes
  store,     \* nor does its store
  status,    \* status of each row, with the deadline its next claim waits for
  owner,     \* claim_owner of each row
  retries,   \* retry_count of each row: the times it has been claimed
  pc,        \* where the run_once of each relay is
  claim,     \* retry_count of the events of its batch, 0 for the others
  todo,      \* events a relay is claiming, has yet to send, or to mark for a retry
  mail,      \* messages the bus can deliver: relay that waits for it, consumer, event
  recorded,  \* processed_events: pairs of a consumer and an event
  working,   \* messages whose callback is running
  calls,     \* number of times a consumer's callback was called for an event
  applied,   \* pairs whose callback has completed
  sends,     \* number of times each event was handed to the bus
  dropped,   \* pairs whose in-memory handler failed before it recorded the event
  overrun,   \* events whose lease ended while its owner was still at work
  crossed,   \* events claimed although they were no longer due
  faults     \* number of faults so far

rowVars == <<status, owner, retries>>
runVars == <<pc, claim, todo>>
consumerVars == <<recorded, working, calls, applied, dropped>>
deployment == <<bus, store>>
vars == <<deployment, rowVars, runVars, mail, consumerVars, sends, overrun, crossed, faults>>

(* "backoff" is pending with next_attempt_at still to come, and "lapsed"   *)
(* is processing with claim_expires_at past.                               *)
Statuses == {"absent", "pending", "backoff", "processing", "lapsed", "published", "dead_letter"}
Settled == {"published", "dead_letter"}

Init ==
  /\ bus \in Buses
  /\ store \in Stores
  /\ status = [e \in Events |-> "absent"]
  /\ owner = [e \in Events |-> NoRelay]
  /\ retries = [e \in Events |-> 0]
  /\ pc = [r \in Relays |-> "idle"]
  /\ claim = [r \in Relays |-> [e \in Events |-> 0]]
  /\ todo = [r \in Relays |-> {}]
  /\ mail = {}
  /\ recorded = {}
  /\ working = {}
  /\ calls = [p \in Pairs |-> 0]
  /\ applied = {}
  /\ sends = [e \in Events |-> 0]
  /\ dropped = {}
  /\ overrun = {}
  /\ crossed = {}
  /\ faults = 0

---------------------------------------------------------------------------
(* Two processes interleave between the statements of SQLite's claim.      *)
Split == store = "sqlite" /\ bus # "memory"

Fault == faults < (IF Split THEN MaxSplitFaults ELSE MaxFaults) /\ faults' = faults + 1
NoFault == UNCHANGED faults

Batch(r) == {e \in Events : claim[r][e] > 0}

(* The events a relay has claimed and is not done with. *)
Claimed(r) == IF pc[r] \in {"reading", "failing"} THEN todo[r] ELSE Batch(r)
WorkingOn(r, e) == r \in Relays /\ e \in Claimed(r)

(* run_once returns or raises. *)
EndRun(r) ==
  /\ pc' = [pc EXCEPT ![r] = "idle"]
  /\ claim' = [claim EXCEPT ![r] = [e \in Events |-> 0]]
  /\ todo' = [todo EXCEPT ![r] = {}]

(* What can be claimed, and the oldest BatchSize of it.  One mutant does   *)
(* not respect leases, the other never takes up a lapsed one.              *)
DueUnleasedMutant == {e \in Events : status[e] \in {"pending", "processing", "lapsed"}}
DuePendingMutant == {e \in Events : status[e] = "pending"}
Due == {e \in Events : status[e] \in {"pending", "lapsed"}}
Oldest == {e \in Due : Cardinality({f \in Due : f < e}) < BatchSize}

(* record_outbox_event, or the INSERT beside a version increment. *)
Record(e) ==
  /\ status[e] = "absent"
  /\ status' = [status EXCEPT ![e] = "pending"]
  /\ UNCHANGED <<owner, retries, runVars, mail, consumerVars, sends, overrun, crossed, faults>>

(* The UPDATE of a claim, whatever has become of the events since they     *)
(* were selected.                                                          *)
Grab(r, E) ==
  /\ status' = [e \in Events |-> IF e \in E THEN "processing" ELSE status[e]]
  /\ owner' = [e \in Events |-> IF e \in E THEN r ELSE owner[e]]
  /\ retries' = [e \in Events |-> IF e \in E THEN retries[e] + 1 ELSE retries[e]]

(* claim_outbox_events in one statement (Postgres), or with nobody to run  *)
(* in between; if its answer is lost the rows stay claimed.                *)
Claim(r) ==
  /\ ~ Split
  /\ pc[r] = "idle"
  /\ Due # {}
  /\ Grab(r, Oldest)
  /\ \/ /\ pc' = [pc EXCEPT ![r] = "publishing"]
        /\ claim' = [claim EXCEPT ![r] = [e \in Events |-> IF e \in Oldest THEN retries'[e] ELSE 0]]
        /\ todo' = [todo EXCEPT ![r] = Oldest]
        /\ NoFault
     \/ Fault /\ UNCHANGED runVars
  /\ UNCHANGED <<mail, consumerVars, sends, overrun, crossed>>

(* SQLite's claim is three statements, each seen by the other processes:   *)
(* the SELECT of what is due,                                              *)
Select(r) ==
  /\ Split
  /\ pc[r] = "idle"
  /\ Due # {}
  /\ pc' = [pc EXCEPT ![r] = "claiming"]
  /\ todo' = [todo EXCEPT ![r] = Oldest]
  /\ UNCHANGED <<rowVars, claim, mail, consumerVars, sends, overrun, crossed, faults>>

(* the UPDATE of those rows by their ids, with its commit,                 *)
Update(r) ==
  /\ pc[r] = "claiming"
  /\ Grab(r, todo[r])
  /\ crossed' = crossed \cup (todo[r] \ Due)
  /\ pc' = [pc EXCEPT ![r] = "reading"]
  /\ UNCHANGED <<claim, todo, mail, consumerVars, sends, overrun, faults>>

(* and a SELECT that reads the rows, their retry_count included, again.    *)
Reread(r) ==
  /\ pc[r] = "reading"
  /\ claim' = [claim EXCEPT ![r] = [e \in Events |-> IF e \in todo[r] THEN retries[e] ELSE 0]]
  /\ pc' = [pc EXCEPT ![r] = "publishing"]
  /\ UNCHANGED <<rowVars, todo, mail, consumerVars, sends, overrun, crossed, faults>>

(* One event handed to the bus.  The in-memory bus runs the handlers inside *)
(* publish_batch; nobody waits for the readers of a log.                    *)
Waiting(r) == IF bus = "memory" THEN r ELSE NoRelay

Post(r, e) ==
  IF bus = "mute"
    THEN UNCHANGED <<mail, sends>>
    ELSE /\ mail' = mail \cup {<<Waiting(r), c, e>> : c \in Consumers}
         /\ sends' = [sends EXCEPT ![e] = @ + 1]

HandlersDone(r) == \A m \in mail \cup working : m[1] # r

Send(r, e) ==
  /\ pc[r] = "publishing"
  /\ e \in todo[r]
  /\ HandlersDone(r)
  /\ Post(r, e)
  /\ todo' = [todo EXCEPT ![r] = @ \ {e}]
  /\ UNCHANGED <<rowVars, pc, claim, consumerVars, overrun, crossed, faults>>

(* A send raises, its message lost or not, or a bus without a broker misses *)
(* its package: the whole batch is retried.                                *)
SendError(r) ==
  /\ pc[r] = "publishing"
  /\ bus # "memory"
  /\ Fault
  /\ \E e \in todo[r] : Post(r, e) \/ UNCHANGED <<mail, sends>>
  /\ pc' = [pc EXCEPT ![r] = "failing"]
  /\ todo' = [todo EXCEPT ![r] = Batch(r)]
  /\ UNCHANGED <<rowVars, claim, consumerVars, overrun, crossed>>

(* mark_outbox_published for the whole batch, whoever owns it by now; the  *)
(* mutant marks whatever is being processed.                               *)
SetPublishedMutant(r) ==
  status' = [e \in Events |-> IF status[e] = "processing" THEN "published" ELSE status[e]]
SetPublished(r) == status' = [e \in Events |-> IF e \in Batch(r) THEN "published" ELSE status[e]]

MarkPublished(r) ==
  /\ pc[r] = "publishing"
  /\ todo[r] = {}
  /\ HandlersDone(r)
  /\ SetPublished(r)
  /\ EndRun(r)
  /\ UNCHANGED <<owner, retries, mail, consumerVars, sends, overrun, crossed, faults>>

(* The statement fails and the batch is retried, or the connection is lost *)
(* before or after it committed, and the marking for a retry fails too.    *)
MarkError(r) ==
  /\ pc[r] = "publishing"
  /\ todo[r] = {}
  /\ HandlersDone(r)
  /\ Fault
  /\ \/ /\ pc' = [pc EXCEPT ![r] = "failing"]
        /\ todo' = [todo EXCEPT ![r] = Batch(r)]
        /\ UNCHANGED <<status, claim>>
     \/ EndRun(r) /\ UNCHANGED status
     \/ EndRun(r) /\ SetPublished(r)
  /\ UNCHANGED <<owner, retries, mail, consumerVars, sends, overrun, crossed>>

(* One mutant uses the status nothing else uses, one gives up a try early. *)
AfterRetryFailedMutant(r, e) == "failed"
AfterRetryEarlyMutant(r, e) == IF claim[r][e] + 1 >= MaxRetries THEN "dead_letter" ELSE "backoff"
AfterRetry(r, e) == IF claim[r][e] >= MaxRetries THEN "dead_letter" ELSE "backoff"

(* mark_outbox_retry, by the retry_count read when the event was claimed   *)
(* and without a look at the row's owner or status.                        *)
MarkRetry(r, e) ==
  /\ pc[r] = "failing"
  /\ e \in todo[r]
  /\ status' = [status EXCEPT ![e] = AfterRetry(r, e)]
  /\ owner' = [owner EXCEPT ![e] = NoRelay]
  /\ IF todo[r] = {e}
       THEN EndRun(r)
       ELSE todo' = [todo EXCEPT ![r] = @ \ {e}] /\ UNCHANGED <<pc, claim>>
  /\ UNCHANGED <<retries, mail, consumerVars, sends, overrun, crossed, faults>>

(* The marking raises: the rest of the batch waits for its lease to end. *)
MarkRetryError(r) ==
  /\ pc[r] = "failing"
  /\ Fault
  /\ EndRun(r)
  /\ UNCHANGED <<rowVars, mail, consumerVars, sends, overrun, crossed>>

(* A relay crashes, or stop() cancels it while it publishes: CancelledError *)
(* is not an Exception, nothing is marked.  The handlers that the in-memory *)
(* bus runs inside the relay's task are cancelled with it.  A statement of  *)
(* its claim that raises ends run_once alike.                               *)
Halt(r) ==
  /\ pc[r] # "idle"
  /\ bus = "memory" => pc[r] = "publishing"
  /\ Fault
  /\ EndRun(r)
  /\ IF bus = "memory"
       THEN /\ mail' = {m \in mail : m[1] # r}
            /\ working' = {m \in working : m[1] # r}
            /\ UNCHANGED sends
       ELSE /\ UNCHANGED working
            /\ \/ UNCHANGED <<mail, sends>>
               \/ pc[r] = "publishing" /\ \E e \in todo[r] : Post(r, e)
  /\ UNCHANGED <<rowVars, recorded, calls, applied, dropped, overrun, crossed>>

(* claim_expires_at passes. *)
LeaseExpires(e) ==
  /\ status[e] = "processing"
  /\ IF WorkingOn(owner[e], e)
       THEN Fault /\ overrun' = overrun \cup {e}
       ELSE NoFault /\ UNCHANGED overrun
  /\ status' = [status EXCEPT ![e] = "lapsed"]
  /\ UNCHANGED <<owner, retries, runVars, mail, consumerVars, sends, crossed>>

(* next_attempt_at passes. *)
BackoffElapses(e) ==
  /\ status[e] = "backoff"
  /\ status' = [status EXCEPT ![e] = "pending"]
  /\ UNCHANGED <<owner, retries, runVars, mail, consumerVars, sends, overrun, crossed, faults>>

---------------------------------------------------------------------------
(* Consumers *)

(* A message in a durable log can be delivered again. *)
Take(m) == mail' = IF bus = "memory" THEN mail \ {m} ELSE mail
OneHandler(m) == bus = "memory" => \A n \in working : n[1] # m[1]

(* record_processed_event: FALSE for a duplicate; the mutant never says so. *)
IsNewMutant(c, e) == TRUE
IsNew(c, e) == <<c, e>> \notin recorded

(* handle_event up to the await of its callback. *)
Deliver(m) ==
  LET c == m[2]
      e == m[3]
  IN /\ m \in mail
     /\ OneHandler(m)
     /\ Take(m)
     /\ \/ ~ IsNew(c, e) /\ UNCHANGED <<recorded, working, calls>>
        \/ /\ IsNew(c, e)
           /\ recorded' = recorded \cup {<<c, e>>}
           /\ working' = working \cup {m}
           /\ calls' = [calls EXCEPT ![<<c, e>>] = @ + 1]
     /\ UNCHANGED <<rowVars, runVars, applied, dropped, sends, overrun, crossed, faults>>

(* record_processed_event raises; the in-memory bus swallows it. *)
DeliverError(m) ==
  /\ m \in mail
  /\ OneHandler(m)
  /\ Fault
  /\ Take(m)
  /\ dropped' = IF bus = "memory" THEN dropped \cup {<<m[2], m[3]>>} ELSE dropped
  /\ UNCHANGED <<rowVars, runVars, recorded, working, calls, applied, sends, overrun, crossed>>

Callback(m) ==
  /\ m \in working
  /\ working' = working \ {m}
  /\ applied' = applied \cup {<<m[2], m[3]>>}
  /\ UNCHANGED <<rowVars, runVars, mail, recorded, calls, dropped, sends, overrun, crossed, faults>>

(* The callback raises: the error is logged.  Or the consumer crashes. *)
CallbackError(m) ==
  /\ m \in working
  /\ Fault
  /\ working' = working \ {m}
  /\ UNCHANGED <<rowVars, runVars, mail, recorded, calls, applied, dropped, sends, overrun, crossed>>

(* The one process of the in-memory bus restarts: only the store is left. *)
Restart ==
  /\ bus = "memory"
  /\ Fault
  /\ pc' = [r \in Relays |-> "idle"]
  /\ claim' = [r \in Relays |-> [e \in Events |-> 0]]
  /\ todo' = [r \in Relays |-> {}]
  /\ mail' = {}
  /\ working' = {}
  /\ UNCHANGED <<rowVars, recorded, calls, applied, dropped, sends, overrun, crossed>>

---------------------------------------------------------------------------
RelayStep(r) ==
  \/ Claim(r) \/ Select(r) \/ Update(r) \/ Reread(r)
  \/ (\E e \in Events : Send(r, e) \/ MarkRetry(r, e)) \/ MarkPublished(r)

RelayFault(r) == SendError(r) \/ MarkError(r) \/ MarkRetryError(r) \/ Halt(r)

Next ==
  /\ \/ \E r \in Relays : RelayStep(r) \/ RelayFault(r)
     \/ \E e \in Events : Record(e) \/ LeaseExpires(e) \/ BackoffElapses(e)
     \/ \E m \in Messages : Deliver(m) \/ DeliverError(m) \/ Callback(m) \/ CallbackError(m)
     \/ Restart
  /\ UNCHANGED deployment

Spec == Init /\ [][Next]_vars

(* Relays poll for ever, or are started again; leases and backoffs end;    *)
(* the in-memory bus runs its handlers and their callbacks return.  Nobody *)
(* in this code reads the log.                                             *)
FairSpec ==
  /\ Spec
  /\ \A r \in Relays : WF_vars(RelayStep(r) /\ UNCHANGED deployment)
  /\ \A e \in Events : /\ WF_vars(LeaseExpires(e) /\ UNCHANGED deployment)
                       /\ WF_vars(BackoffElapses(e) /\ UNCHANGED deployment)
  /\ \A m \in Messages : /\ WF_vars(bus = "memory" /\ Deliver(m) /\ UNCHANGED deployment)
                         /\ WF_vars(bus = "memory" /\ Callback(m) /\ UNCHANGED deployment)

---------------------------------------------------------------------------
(* Properties *)

(* Every variable keeps its type. *)
TypeOK ==
  /\ bus \in Buses /\ store \in Stores
  /\ status \in [Events -> Statuses]
  /\ owner \in [Events -> Relays \cup {NoRelay}]
  /\ retries \in [Events -> Nat]
  /\ pc \in [Relays -> {"idle", "claiming", "reading", "publishing", "failing"}]
  /\ claim \in [Relays -> [Events -> Nat]]
  /\ todo \in [Relays -> SUBSET Events]
  /\ mail \subseteq Messages /\ working \subseteq Messages
  /\ recorded \subseteq Pairs /\ applied \subseteq Pairs /\ dropped \subseteq Pairs
  /\ calls \in [Pairs -> Nat]
  /\ sends \in [Events -> Nat]
  /\ overrun \subseteq Events /\ crossed \subseteq Events
  /\ faults \in Nat

(* An event marked published, by whichever relay, has been handled by every *)
(* consumer of the in-memory bus, and on the log is there for the consumers *)
(* to read or recorded by them, unless a handler failed to record it.  A    *)
(* mute bus is promised nothing: its events are marked published and gone.  *)
PublishedReachesConsumers ==
  \A e \in Events, c \in Consumers :
    status[e] = "published" =>
      CASE bus = "memory" -> <<c, e>> \in recorded \cup dropped
        [] bus = "log" -> <<c, e>> \in recorded \/ <<NoRelay, c, e>> \in mail
        [] bus = "mute" -> TRUE

(* Two relays never have the same event in hand, unless its lease ended    *)
(* under the first or SQLite claims of two processes crossed.              *)
ClaimsExclusive ==
  \A q, r \in Relays, e \in Events :
    q # r /\ WorkingOn(q, e) /\ WorkingOn(r, e) => e \in overrun \/ (Split /\ e \in crossed)

(* How many relays one occasion to claim an event can serve. *)
Rivals == IF Split THEN Cardinality(Relays) ELSE 1

(* However often an event is published or delivered, and whoever crashes,  *)
(* a consumer's callback is called for it at most once.  The price of      *)
(* at-least-once delivery: an event is sent no more often than claimed,    *)
(* and beyond the first claim each further one is paid for by a fault,     *)
(* where SQLite claims cross by one per relay.                             *)
DuplicatesAccounted ==
  /\ \A p \in Pairs : calls[p] <= 1
  /\ \A e \in Events : sends[e] <= retries[e] /\ retries[e] <= Rivals * (1 + faults)

(* An event is given up only after max_retries claims of it.               *)
DeadLetterEarned ==
  \A e \in Events : status[e] = "dead_letter" => retries[e] >= MaxRetries

(* Once settled an event stays settled, unless its lease once ended under  *)
(* a relay at work (then a late relay may publish a dead letter, or put a  *)
(* published event back in the queue), or a SQLite claim that selected it  *)
(* before takes it up after.                                               *)
SettledForGood ==
  [][\A e \in Events : status[e] \in Settled /\ status'[e] # status[e]
       => e \in overrun \/ (Split /\ e \in crossed')]_vars

(* Every recorded event is settled in the end, whichever relays crash.     *)
EventuallySettled == \A e \in Events : <>[](status[e] \in Settled \cup {"absent"})

(* CHANGELOG.md:59, "exactly-once invalidation semantics": what a consumer *)
(* has recorded it has applied, or is applying.                            *)
ExactlyOnce ==
  \A r \in recorded : r \in applied \/ \E m \in working : m[2] = r[1] /\ m[3] = r[2]
============================================================================
