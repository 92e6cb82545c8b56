---------------------------- MODULE RedisFlight ----------------------------
(***************************************************************************)
(* RedisSingleFlightManager (concurrency/redis_flight.py) for ONE flight   *)
(* key, with the store its loader and writer use.  A worker is one call of *)
(* execute, on any node.  Every await of the code is a step of its own:    *)
(* the lock may lapse, and any other worker may run, between two of them.  *)
(*                                                                         *)
(* A result is named by the worker whose operation produced it.  The store *)
(* rows are the cache entries of the flight's identity: prompt, tenant,    *)
(* scope, resource, resource version, pipeline.                            *)
(*                                                                         *)
(* tenures, lapsed, the tenure, issued, done and stored fields, produced,  *)
(* shared, execs and faults record history for the properties; no step of  *)
(* the code reads them, except that MaxFaults bounds how many faults there *)
(* are.                                                                    *)
(***************************************************************************)
EXTENDS Naturals, FiniteSets

CONSTANTS Workers,    \* concurrent calls of execute for one flight key
          NoWorker,   \* no lock owner, no answer
          CanWrite,   \* workers whose user may write the cache
          MaxFaults   \* bound on errors, cancellations, crashes and lapses

ASSUME WorkersAssumption == NoWorker \notin Workers /\ CanWrite \subseteq Workers
ASSUME MaxFaultsAssumption == MaxFaults \in Nat

VARIABLES
  lock,      \* value of flight_key in Redis: the token, one per worker
  gen,       \* value of the generation key sm:gen:<flight_key>, no expiry
  tenures,   \* number of times the lock has been acquired
  lapsed,    \* workers whose lock expired under them
  rows,      \* cache entries of the identity
  clock,     \* number of created_at stamps taken
  pc,        \* the await each worker is at
  role,      \* "leader" from the first SET NX, "takeover" from the loop's
  ticket,    \* fencing token of each worker and how it got it
  end,       \* what a worker does once it has released the lock
  late,      \* followers whose wait_timeout_ms has elapsed
  mailbox,   \* followers with a completion message to read
  answer,    \* the result each worker's call returns
  produced,  \* workers whose operation has returned
  shared,    \* workers whose result has been stored
  execs,     \* number of operations started
  faults     \* number of faults so far

redisVars == <<lock, gen, tenures, lapsed>>
storeVars == <<rows, clock, shared>>
flowVars  == <<role, ticket, end, answer>>
vars == <<redisVars, storeVars, pc, flowVars, late, mailbox, produced, execs, faults>>

(* The steps between acquiring the lock and having tried to release it. *)
Holding == {"recheck", "incr", "operate", "check", "write", "insert", "publish", "release"}
(* The steps of the follower loop that do not hold the lock. *)
Following == {"poll", "look", "relook", "takeover", "wait"}
Ended == {"returned", "raised", "crashed"}
Points == {"fast", "acquire", "direct"} \cup Holding \cup Following \cup Ended

(* How a token was issued: not at all (the default 1), while its worker    *)
(* held the lock, or after the lock had lapsed.                            *)
Issued == {"none", "held", "lapsed"}
Ticket == [gen : Nat, tenure : Nat, issued : Issued, at : Nat]
NewTicket(t) == [gen |-> 0, tenure |-> t, issued |-> "none", at |-> 0]
(* done is the last stamp anybody had taken when the row was inserted, and *)
(* stored tells whether its worker still had the lock then.                *)
Row == [gen : Nat, by : Workers, at : Nat, done : Nat, tenure : Nat, issued : Issued,
        stored : {"held", "lapsed"}, state : {"live", "expired"}]

Init ==
  /\ lock = NoWorker
  /\ gen \in 0 .. 1            \* an earlier flight of the key may have used it
  /\ tenures = 0
  /\ lapsed = {}
  /\ rows = {}
  /\ clock = 0
  /\ pc = [w \in Workers |-> "fast"]
  /\ role = [w \in Workers |-> "leader"]
  /\ ticket = [w \in Workers |-> NewTicket(0)]
  /\ end = [w \in Workers |-> "return"]
  /\ late = {}
  /\ mailbox = {}
  /\ answer = [w \in Workers |-> NoWorker]
  /\ produced = {}
  /\ shared = {}
  /\ execs = 0
  /\ faults = 0

---------------------------------------------------------------------------
(* Building blocks *)

Goto(w, p) == pc' = [pc EXCEPT ![w] = p]
Fault == faults < MaxFaults /\ faults' = faults + 1
NoFault == UNCHANGED faults

(* find_by_prompt: the newest unexpired row, none on a miss. *)
Newest == {r \in rows : r.state = "live" /\ \A s \in rows : s.state = "live" => s.at <= r.at}

(* NX: only if the key is absent.  The mutant is a SET without NX. *)
LockFreeMutant == TRUE
LockFree == lock = NoWorker

(* SET flight_key token NX PX succeeds. *)
TakeLock(w, how) ==
  /\ LockFree
  /\ lock' = w
  /\ tenures' = tenures + 1
  /\ lapsed' = lapsed \ {w}
  /\ role' = [role EXCEPT ![w] = how]
  /\ ticket' = [ticket EXCEPT ![w] = NewTicket(tenures + 1)]

(* An exception raised while the lock is held: the finally clause releases *)
(* it; the leader's caller sees the exception, the follower loop swallows  *)
(* it and polls again.                                                     *)
Unwind(w) ==
  /\ Goto(w, "release")
  /\ end' = [end EXCEPT ![w] = IF role[w] = "leader" THEN "raise" ELSE "retry"]

(* The call returns the response of the cached entry; the mutant, the entry. *)
ReturnRowMutant(w) == \E r \in Newest : answer' = [answer EXCEPT ![w] = r]
ReturnRow(w) == \E r \in Newest : answer' = [answer EXCEPT ![w] = r.by]

---------------------------------------------------------------------------
(* Leader path of execute *)

(* 0. The loader before the lock; its errors are swallowed. *)
FastPath(w) ==
  /\ pc[w] = "fast"
  /\ \/ Goto(w, "returned") /\ ReturnRow(w) /\ NoFault
     \/ Goto(w, "acquire") /\ Newest = {} /\ NoFault /\ UNCHANGED answer
     \/ Goto(w, "acquire") /\ Fault /\ UNCHANGED answer
  /\ UNCHANGED <<redisVars, storeVars, role, ticket, end, late, mailbox, produced, execs>>

(* 1. SET NX PX.  A worker that finds the lock taken becomes a follower.   *)
Acquire(w) ==
  /\ pc[w] = "acquire"
  /\ \/ Goto(w, "recheck") /\ TakeLock(w, "leader") /\ UNCHANGED gen
     \/ Goto(w, "poll") /\ lock # NoWorker /\ UNCHANGED <<redisVars, role, ticket>>
  /\ UNCHANGED <<storeVars, end, answer, late, mailbox, produced, execs, faults>>

(* A connection error is raised to the caller, whether or not the command  *)
(* reached Redis.                                                          *)
AcquireError(w) ==
  /\ pc[w] = "acquire"
  /\ Fault
  /\ Goto(w, "raised")
  /\ \/ TakeLock(w, "leader") /\ UNCHANGED gen
     \/ UNCHANGED <<redisVars, role, ticket>>
  /\ UNCHANGED <<storeVars, end, answer, late, mailbox, produced, execs>>

(* The loader again, under the lock.  A hit ends the call.  The leader     *)
(* goes on after an error; in the takeover the error leaves the lock set.  *)
Recheck(w) ==
  /\ pc[w] = "recheck"
  /\ \/ /\ Goto(w, "release")
        /\ ReturnRow(w)
        /\ end' = [end EXCEPT ![w] = "return"]
        /\ NoFault
     \/ Goto(w, "incr") /\ Newest = {} /\ NoFault /\ UNCHANGED <<answer, end>>
     \/ /\ Goto(w, IF role[w] = "leader" THEN "incr" ELSE "wait")
        /\ Fault
        /\ UNCHANGED <<answer, end>>
  /\ UNCHANGED <<redisVars, storeVars, role, ticket, late, mailbox, produced, execs>>

(* What INCR returns; the mutant reads the counter without raising it. *)
NextGenMutant == gen
NextGen == gen + 1

(* INCR of the generation key, then the operation starts. *)
Incr(w) ==
  /\ pc[w] = "incr"
  /\ Goto(w, "operate")
  /\ gen' = NextGen
  /\ ticket' = [ticket EXCEPT ![w].gen = NextGen,
                                ![w].issued = IF w \in lapsed THEN "lapsed" ELSE "held"]
  /\ execs' = execs + 1
  /\ UNCHANGED <<lock, tenures, lapsed, storeVars, role, end, answer, late, mailbox,
                 produced, faults>>

(* INCR fails: the leader keeps the default token 1; the takeover is       *)
(* swallowed with the lock still set.                                      *)
IncrError(w) ==
  /\ pc[w] = "incr"
  /\ Fault
  /\ \/ /\ role[w] = "leader"
        /\ Goto(w, "operate")
        /\ ticket' = [ticket EXCEPT ![w].gen = 1]
        /\ execs' = execs + 1
     \/ /\ role[w] = "takeover"
        /\ Goto(w, "wait")
        /\ UNCHANGED <<ticket, execs>>
  /\ gen' \in {gen, gen + 1}
  /\ UNCHANGED <<lock, tenures, lapsed, storeVars, role, end, answer, late, mailbox, produced>>

(* await operation() *)
Operate(w) ==
  /\ pc[w] = "operate"
  /\ \/ Goto(w, "check") /\ produced' = produced \cup {w} /\ NoFault /\ UNCHANGED end
     \/ Unwind(w) /\ Fault /\ UNCHANGED produced
  /\ UNCHANGED <<redisVars, storeVars, role, ticket, answer, late, mailbox, execs>>

(* GET of the generation key: a newer generation skips the write. *)
Check(w) ==
  /\ pc[w] = "check"
  /\ \/ /\ Goto(w, IF gen > ticket[w].gen THEN "publish" ELSE "write")
        /\ NoFault
        /\ UNCHANGED end
     \/ Unwind(w) /\ Fault
  /\ UNCHANGED <<redisVars, storeVars, role, ticket, answer, late, mailbox, produced, execs>>

(* Whether w has lost its lock by now. *)
LockOf(w) == IF w \in lapsed THEN "lapsed" ELSE "held"

(* INSERT of the row of w, with the created_at its write began with. *)
Store(w) ==
  /\ rows' = rows \cup {[gen |-> ticket[w].gen, by |-> w, at |-> ticket[w].at, done |-> clock,
                         tenure |-> ticket[w].tenure, issued |-> ticket[w].issued,
                         stored |-> LockOf(w), state |-> "live"]}
  /\ shared' = shared \cup {w}

(* The SELECT of store.add: no row of a higher generation is there now.    *)
(* The mutant takes any.                                                   *)
AcceptsMutant(g) == TRUE
Accepts(g) == \A r \in rows : r.gen <= g

(* can_write, asked of the authorizer before the flight; the mutant never  *)
(* asks.                                                                   *)
MayWriteMutant(w) == TRUE
MayWrite(w) == w \in CanWrite

(* result_writer: nothing without write authority; else store.add stamps   *)
(* created_at and reads the highest generation stored.  That SELECT is a   *)
(* statement of its own, on SQLite (whose lock is one per process, and     *)
(* whose transaction only opens at the INSERT) as on Postgres: the rows    *)
(* may change before the INSERT.  Calls of one process do not interleave   *)
(* here, nothing is awaited in between; workers are on any number of nodes.*)
Write(w) ==
  /\ pc[w] = "write"
  /\ \/ /\ ~ MayWrite(w)
        /\ Goto(w, "publish")
        /\ UNCHANGED <<clock, ticket>>
     \/ /\ MayWrite(w)
        /\ clock' = clock + 1
        /\ \/ ~ Accepts(ticket[w].gen) /\ Goto(w, "publish") /\ UNCHANGED ticket
           \/ /\ Accepts(ticket[w].gen)
              /\ Goto(w, "insert")
              /\ ticket' = [ticket EXCEPT ![w].at = clock + 1]
  /\ UNCHANGED <<redisVars, rows, shared, role, end, answer, late, mailbox, produced, execs, faults>>

(* The INSERT, whatever has been stored since the SELECT. *)
Insert(w) ==
  /\ pc[w] = "insert"
  /\ Store(w)
  /\ Goto(w, "publish")
  /\ UNCHANGED <<redisVars, clock, flowVars, late, mailbox, produced, execs, faults>>

(* The writer raises, before the row is stored or after it: adding to the  *)
(* vector index and evicting come after store.add has committed.           *)
WriteError(w) ==
  /\ MayWrite(w)
  /\ Fault
  /\ Unwind(w)
  /\ \/ pc[w] \in {"write", "insert"} /\ UNCHANGED <<rows, shared>>
     \/ pc[w] = "insert" /\ Store(w)
  /\ UNCHANGED <<redisVars, clock, role, ticket, answer, late, mailbox, produced, execs>>

(* Workers inside the follower loop, subscribed to the flight's channel. *)
InLoop(w) == pc[w] \in Following \/ (pc[w] \in Holding /\ role[w] = "takeover")

(* PUBLISH reaches the subscribed followers; its errors are swallowed. *)
Publish(w) ==
  /\ pc[w] = "publish"
  /\ Goto(w, "release")
  /\ end' = [end EXCEPT ![w] = "return"]
  /\ answer' = [answer EXCEPT ![w] = w]
  /\ mailbox' \in {mailbox, mailbox \cup {v \in Workers : InLoop(v)}}
  /\ UNCHANGED <<redisVars, storeVars, role, ticket, late, produced, execs, faults>>

(* RELEASE_LUA: compare the token and delete; the mutant just deletes. *)
CompareAndDeleteMutant(w) == lock' = NoWorker
CompareAndDelete(w) == lock' = IF lock = w THEN NoWorker ELSE lock

Release(w) ==
  /\ pc[w] = "release"
  /\ \/ CompareAndDelete(w) /\ NoFault
     \/ Fault /\ UNCHANGED lock
  /\ Goto(w, CASE end[w] = "return" -> "returned"
               [] end[w] = "raise"  -> "raised"
               [] end[w] = "retry"  -> "wait")
  /\ UNCHANGED <<gen, tenures, lapsed, storeVars, flowVars, late, mailbox, produced, execs>>

---------------------------------------------------------------------------
(* Follower loop, _wait_as_follower *)

(* The loader at the top of the loop, whose errors reach the caller; past  *)
(* the deadline the follower runs the operation itself, without the lock.  *)
Poll(w) ==
  /\ pc[w] = "poll"
  /\ \/ Goto(w, "returned") /\ ReturnRow(w) /\ NoFault /\ UNCHANGED execs
     \/ Goto(w, "raised") /\ Fault /\ UNCHANGED <<answer, execs>>
     \/ /\ Newest = {}
        /\ IF w \in late
             THEN Goto(w, "direct") /\ execs' = execs + 1
             ELSE Goto(w, "look") /\ UNCHANGED execs
        /\ NoFault
        /\ UNCHANGED answer
  /\ UNCHANGED <<redisVars, storeVars, role, ticket, end, late, mailbox, produced>>

(* The fallback of a follower that waited too long. *)
Direct(w) ==
  /\ pc[w] = "direct"
  /\ \/ /\ Goto(w, "returned")
        /\ produced' = produced \cup {w}
        /\ answer' = [answer EXCEPT ![w] = w]
        /\ NoFault
     \/ Goto(w, "raised") /\ Fault /\ UNCHANGED <<produced, answer>>
  /\ UNCHANGED <<redisVars, storeVars, role, ticket, end, late, mailbox, execs>>

(* GET flight_key: somebody holds it, or it is free. *)
Look(w) ==
  /\ pc[w] = "look"
  /\ \/ Goto(w, IF lock = NoWorker THEN "relook" ELSE "wait") /\ NoFault
     \/ Goto(w, "wait") /\ Fault
  /\ UNCHANGED <<redisVars, storeVars, flowVars, late, mailbox, produced, execs>>

(* The loader once the lock was seen free. *)
Relook(w) ==
  /\ pc[w] = "relook"
  /\ \/ Goto(w, "returned") /\ ReturnRow(w) /\ NoFault
     \/ Goto(w, "takeover") /\ Newest = {} /\ NoFault /\ UNCHANGED answer
     \/ Goto(w, "wait") /\ Fault /\ UNCHANGED answer
  /\ UNCHANGED <<redisVars, storeVars, role, ticket, end, late, mailbox, produced, execs>>

(* SET NX PX from the loop. *)
Takeover(w) ==
  /\ pc[w] = "takeover"
  /\ \/ Goto(w, "recheck") /\ TakeLock(w, "takeover") /\ NoFault /\ UNCHANGED gen
     \/ Goto(w, "wait") /\ lock # NoWorker /\ NoFault /\ UNCHANGED <<redisVars, role, ticket>>
     \/ Goto(w, "wait") /\ Fault /\ TakeLock(w, "takeover") /\ UNCHANGED gen
     \/ Goto(w, "wait") /\ Fault /\ UNCHANGED <<redisVars, role, ticket>>
  /\ UNCHANGED <<storeVars, end, answer, late, mailbox, produced, execs>>

(* The loop goes on after a message or after poll_interval_ms; the mutant  *)
(* has no poll interval.                                                   *)
WaitMutant(w) ==
  /\ pc[w] = "wait"
  /\ w \in mailbox
  /\ Goto(w, "poll")
  /\ mailbox' = mailbox \ {w}
  /\ UNCHANGED <<redisVars, storeVars, flowVars, late, produced, execs, faults>>

Wait(w) ==
  /\ pc[w] = "wait"
  /\ Goto(w, "poll")
  /\ mailbox' = mailbox \ {w}
  /\ UNCHANGED <<redisVars, storeVars, flowVars, late, produced, execs, faults>>

---------------------------------------------------------------------------
(* The environment *)

(* PX: Redis drops the lock.  It lapses when its owner still relies on it. *)
(* The mutant is a lock that was set without a time to live.               *)
ExpireMutant == FALSE
Expire ==
  /\ lock # NoWorker
  /\ IF pc[lock] \in Holding
       THEN Fault /\ lapsed' = lapsed \cup {lock}
       ELSE NoFault /\ UNCHANGED lapsed
  /\ lock' = NoWorker
  /\ UNCHANGED <<gen, tenures, storeVars, pc, flowVars, late, mailbox, produced, execs>>

(* wait_timeout_ms elapses for a follower. *)
DeadlinePasses(w) ==
  /\ w \notin late
  /\ InLoop(w)
  /\ late' = late \cup {w}
  /\ UNCHANGED <<redisVars, storeVars, pc, flowVars, mailbox, produced, execs, faults>>

(* The task is cancelled at an await.  The try/finally blocks start at the *)
(* operation: before it the lock stays set, from it on it is released.     *)
Cancel(w) ==
  /\ pc[w] \notin Ended \cup {"write", "insert"}
  /\ Fault
  /\ IF pc[w] \in {"operate", "check", "publish"}
       THEN Goto(w, "release") /\ end' = [end EXCEPT ![w] = "raise"]
       ELSE Goto(w, "raised") /\ UNCHANGED end
  /\ gen' \in IF pc[w] = "incr" THEN {gen, gen + 1} ELSE {gen}
  /\ UNCHANGED <<lock, tenures, lapsed, storeVars, role, ticket, answer, late, mailbox,
                 produced, execs>>

(* The process of w dies; Redis and the store survive. *)
Crash(w) ==
  /\ pc[w] \notin Ended
  /\ Fault
  /\ Goto(w, "crashed")
  /\ UNCHANGED <<redisVars, storeVars, flowVars, late, mailbox, produced, execs>>

(* A row passes its expires_at, or leaves the store by eviction. *)
ForgetRow ==
  /\ Fault
  /\ \E r \in rows :
       \/ rows' = (rows \ {r}) \cup {[r EXCEPT !.state = "expired"]}
       \/ rows' = rows \ {r}
  /\ UNCHANGED <<redisVars, clock, shared, pc, flowVars, late, mailbox, produced, execs>>

---------------------------------------------------------------------------
Leader(w) ==
  \/ FastPath(w) \/ Acquire(w) \/ AcquireError(w) \/ Recheck(w) \/ Incr(w) \/ IncrError(w)
  \/ Operate(w) \/ Check(w) \/ Write(w) \/ Insert(w) \/ WriteError(w) \/ Publish(w) \/ Release(w)

Follower(w) ==
  Poll(w) \/ Direct(w) \/ Look(w) \/ Relook(w) \/ Takeover(w) \/ Wait(w)

Step(w) == Leader(w) \/ Follower(w)

Next ==
  \/ \E w \in Workers : Step(w) \/ DeadlinePasses(w) \/ Cancel(w) \/ Crash(w)
  \/ Expire
  \/ ForgetRow

Spec == Init /\ [][Next]_vars

(* The event loop resumes every task whose await is over, time passes, and *)
(* Redis drops an expired key.  No fault is ever owed.                     *)
Fairness ==
  /\ \A w \in Workers : WF_vars(Step(w)) /\ WF_vars(DeadlinePasses(w))
  /\ WF_vars(Expire)

FairSpec == Spec /\ Fairness

---------------------------------------------------------------------------
(* Properties *)

(* Every variable keeps its type. *)
TypeOK ==
  /\ lock \in Workers \cup {NoWorker}
  /\ gen \in Nat /\ tenures \in Nat /\ clock \in Nat /\ execs \in Nat /\ faults \in Nat
  /\ lapsed \subseteq Workers /\ late \subseteq Workers /\ mailbox \subseteq Workers
  /\ produced \subseteq Workers /\ shared \subseteq Workers
  /\ rows \subseteq Row
  /\ pc \in [Workers -> Points]
  /\ role \in [Workers -> {"leader", "takeover"}]
  /\ ticket \in [Workers -> Ticket]
  /\ end \in [Workers -> {"return", "raise", "retry"}]
  /\ answer \in [Workers -> Workers \cup {NoWorker}]

(* Mutual exclusion as far as a lease can give it: a worker between SET NX *)
(* and its release still has its own token in Redis, unless the lock's TTL *)
(* ran out under it.  In particular no release frees another's lock.       *)
HeldUntilLapse ==
  \A w \in Workers : pc[w] \in Holding /\ w \notin lapsed => lock = w

(* The row readers get, the newest, has the highest generation, except     *)
(* where store.add cannot help: a stale generation lands on top of a newer *)
(* one only when the two writes overlapped, the second begun before the    *)
(* first was stored, and one of the two workers had lost its lock by then. *)
RowsOrdered ==
  \A r, s \in rows :
    r.at < s.at /\ s.gen < r.gen => s.at <= r.done /\ "lapsed" \in {r.stored, s.stored}

(* A token issued while its holder still has the lock does its job on the  *)
(* rows it can see: among the rows of such workers, a write begun once a   *)
(* later tenure's row was stored never adds one of an earlier tenure,      *)
(* however long its worker was delayed.                                    *)
TimelyFencing ==
  \A r, s \in rows :
    r.issued = "held" /\ s.issued = "held" /\ r.done < s.at => r.tenure <= s.tenure

(* Coalescing, with its price: beyond the first LLM call, each further one *)
(* is accounted for by a fault, a follower that waited too long or a       *)
(* leader whose user may not write the cache.  A fault can cost two calls: *)
(* when the lock lapses between SET NX and INCR, the stale leader's INCR   *)
(* also makes the next leader's write be rejected, and a third one runs.   *)
ExecutionsAccounted ==
  execs <= 1 + 2 * faults + Cardinality(late) + Cardinality(Workers \ CanWrite)

(* Whatever happens to the leader, every call ends: by its own result, a   *)
(* cached one or an exception, unless its process dies.                    *)
EveryCallEnds == \A w \in Workers : <>(pc[w] \in Ended)

(* A lock is not held for ever, not even by a worker that crashed or that  *)
(* left without releasing it.                                              *)
LockFreed == \A w \in Workers : lock = w ~> lock # w

(* redis_flight.py:113, "Fencing tokens (monotonic generation counter)     *)
(* prevent stale leaders from mutating cache": the row of an earlier       *)
(* tenure is never stored after that of a later one.                       *)
StaleLeadersFenced == \A r, s \in rows : r.at < s.at => r.tenure <= s.tenure

(* The calls of execute implement SingleFlight: only writers share.        *)
Abstract ==
  INSTANCE SingleFlight WITH
    Callers <- Workers, Sharers <- CanWrite, NoCaller <- NoWorker,
    answer <- [w \in Workers |-> IF pc[w] = "returned" THEN answer[w] ELSE NoWorker]

ImplementsSingleFlight == Abstract!Spec
============================================================================
