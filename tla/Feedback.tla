------------------------------ MODULE Feedback ------------------------------
(***************************************************************************)
(* What users say about cached answers: lookups, explicit reports, hits    *)
(* flagged because a prompt is asked again, the counters of an entry, and  *)
(* the pairs kept for training.  Several processes share one store.  Every *)
(* statement is a transaction of its own, and other processes run between  *)
(* the statements of an operation.                                         *)
(*                                                                         *)
(* On SQLite a write waits for the lock five seconds.  A statement that    *)
(* fails leaves its connection inside the transaction that Python opened   *)
(* for it; nothing rolls it back.  After a violated foreign key the        *)
(* connection keeps the write lock until its next write commits.  After    *)
(* "database is locked" the next read fixes what the connection sees, and  *)
(* once somebody else commits it can neither see that nor write again.     *)
(*                                                                         *)
(* All prompts are one prompt of one tenant: the worst case for flags.     *)
(***************************************************************************)
EXTENDS Integers, Sequences, FiniteSets

CONSTANTS
    Processes,      \* processes that share the store
    Entries,        \* entries stored at first
    Queries,        \* query identifiers
    Backends,       \* "sqlite", "postgres"
    MaxReports,     \* bound: explicit reports that are made
    MaxFaults,      \* bound: processes that stop and start again, writes that
                    \* wait for other writers too long
    None

ASSUME NoneAssumption == None \notin Processes \cup Entries \cup Queries
ASSUME BackendAssumption == Backends \subseteq {"sqlite", "postgres"}

VARIABLES
    backend,        \* the store in use
    stored,         \* entries in the store
    of,             \* of[q]: the entry the lookup of query q recorded
    log,            \* queries in the order their lookups were recorded
    old,            \* how many of them are older than the window
    events,         \* events[q][k]: feedback events of kind k on query q
    negative,       \* feedback_negative_count of an entry
    positive,       \* feedback_positive_count of an entry
    pairs,          \* pairs[q]: active learning pairs from feedback on q
    issued,         \* query identifiers in use
    pc, op,         \* where a process is and what it works on
    result,         \* how its last operation ended
    conn,           \* the transaction a connection is left in
    writer,         \* the process whose connection keeps the write lock
    reports, faults,
    \* history
    short,          \* entries of which an operation stopped before it counted
    contested,      \* queries that two processes were flagging at once
    raced,          \* entries whose eviction made a foreign key fail
    overdue         \* processes that once waited too long for other writers

rows    == << stored, of, log, old, events, negative, positive, pairs >>
locks   == << conn, writer >>
bounds  == << reports, faults, issued, backend >>
history == << short, contested, raced, overdue >>
vars    == << rows, pc, op, result, locks, bounds, history >>

Kinds == {"implicit", "bad", "good"}
Steps == {"idle", "find", "recheck", "insert", "count", "pair",
          "search", "update", "record", "delete"}

TypeOK ==
    /\ backend \in Backends
    /\ stored \subseteq Entries
    /\ of \in [Queries -> Entries \cup {None}]
    /\ log \in Seq(Queries) /\ old \in 0..Len(log)
    /\ events \in [Queries -> [Kinds -> Nat]]
    /\ negative \in [Entries -> Nat] /\ positive \in [Entries -> Nat]
    /\ pairs \in [Queries -> Nat]
    /\ issued \subseteq Queries
    /\ pc \in [Processes -> Steps]
    /\ op \in [Processes -> [kind   : Kinds \cup {"none"},
                             query  : Queries \cup {None},
                             lookup : Queries \cup {None},
                             entry  : Entries \cup {None}]]
    /\ result \in [Processes -> {"none", "true", "false", "constraint", "locked"}]
    /\ conn \in [Processes -> {"clear", "begun", "reading", "behind"}]
    /\ writer \in Processes \cup {None}
    /\ reports \in Nat /\ faults \in Nat
    /\ short \subseteq Entries /\ contested \subseteq Queries
    /\ raced \subseteq Entries /\ overdue \subseteq Processes

Nothing == [kind |-> "none", query |-> None, lookup |-> None, entry |-> None]

Init ==
    /\ backend \in Backends
    /\ stored = Entries
    /\ of = [q \in Queries |-> None] /\ log = << >> /\ old = 0
    /\ events = [q \in Queries |-> [k \in Kinds |-> 0]]
    /\ negative = [e \in Entries |-> 0] /\ positive = [e \in Entries |-> 0]
    /\ pairs = [q \in Queries |-> 0] /\ issued = {}
    /\ pc = [p \in Processes |-> "idle"]
    /\ op = [p \in Processes |-> Nothing]
    /\ result = [p \in Processes |-> "none"]
    /\ conn = [p \in Processes |-> "clear"] /\ writer = None
    /\ reports = 0 /\ faults = 0
    /\ short = {} /\ contested = {} /\ raced = {} /\ overdue = {}

-----------------------------------------------------------------------------
(* The store.  A lookup and the events on it go with their entry: both     *)
(* tables reference the entries ON DELETE CASCADE.  Pairs stay.            *)

Live(q) == of[q] # None /\ of[q] \in stored

\* A read inside a transaction that was left open fixes what it sees.
Reads(p) ==
    /\ conn' = IF conn[p] = "begun" THEN [conn EXCEPT ![p] = "reading"] ELSE conn
    /\ UNCHANGED writer

\* A write waits for the lock, in vain if it is kept, and a connection that
\* sees the past is refused at once.
Locked(p) ==
    backend = "sqlite" /\ (writer \notin {None, p} \/ conn[p] = "behind")

\* Other processes write so much that p, which does not have the lock, does
\* not get it in five seconds.
Crowded(p) ==
    backend = "sqlite" /\ writer = None /\ conn[p] # "behind"

\* Mutant: the commit is forgotten.
CommitsMutant(p) ==
    /\ ~Locked(p)
    /\ writer' = IF backend = "sqlite" THEN p ELSE None
    /\ UNCHANGED conn

\* A write succeeds and commits, which also ends what was left open.
Commits(p) ==
    /\ ~Locked(p)
    /\ conn' = [q \in Processes |-> IF q = p THEN "clear"
                                    ELSE IF conn[q] = "reading" THEN "behind" ELSE conn[q]]
    /\ writer' = IF writer = p THEN None ELSE writer

\* An operation ends; what it worked on matters no more, but for a report.
Ends(p, how) ==
    /\ pc' = [pc EXCEPT ![p] = "idle"]
    /\ result' = [result EXCEPT ![p] = how]
    /\ op' = IF op[p].kind \in {"bad", "good"} THEN op ELSE [op EXCEPT ![p] = Nothing]

\* Stopped between the event and the counter.
CutShort(p) == short' = IF pc[p] = "count" THEN short \cup {of[op[p].lookup]} ELSE short

\* "database is locked": the transaction was begun and stays.
Refused(p) ==
    /\ \/ Locked(p) /\ UNCHANGED << faults, overdue >>
       \/ /\ Crowded(p)
          /\ faults < MaxFaults /\ faults' = faults + 1
          /\ overdue' = overdue \cup {p}
    /\ conn' = IF conn[p] = "clear" THEN [conn EXCEPT ![p] = "begun"] ELSE conn
    /\ Ends(p, "locked")
    /\ CutShort(p)
    /\ UNCHANGED << rows, writer, reports, issued, backend, contested, raced >>

\* "FOREIGN KEY constraint failed" for entry e: the lock was taken and stays.
Violated(p, e) ==
    /\ ~Locked(p)
    /\ conn' = [conn EXCEPT ![p] = "clear"]
    /\ writer' = IF backend = "sqlite" THEN p ELSE None
    /\ Ends(p, "constraint")
    /\ raced' = raced \cup {e}
    /\ UNCHANGED << rows, bounds, short, contested, overdue >>

Goto(p, step) == pc' = [pc EXCEPT ![p] = step] /\ UNCHANGED << op, result >>

-----------------------------------------------------------------------------
(* Feedback on a lookup: explicit, or implicit at the start of a query.    *)

Starts(p) == result' = [result EXCEPT ![p] = "none"]

\* report_bad_hit, report_good_hit: a first get_lookup.
Report(p, kind, q) ==
    /\ pc[p] = "idle" /\ reports < MaxReports /\ q \in issued
    /\ reports' = reports + 1
    /\ Reads(p)
    /\ op' = [op EXCEPT ![p] = [Nothing EXCEPT !.kind = kind, !.lookup = q]]
    /\ \/ /\ Live(q) \/ (conn[p] = "behind" /\ of[q] # None)
          /\ pc' = [pc EXCEPT ![p] = "recheck"]
          /\ Starts(p)
       \/ /\ ~Live(q)
          /\ result' = [result EXCEPT ![p] = "false"]
          /\ UNCHANGED pc
    /\ UNCHANGED << rows, faults, issued, backend, history >>

\* get_or_call for a new query.
Ask(p, q) ==
    /\ pc[p] = "idle" /\ q \notin issued
    /\ issued' = issued \cup {q}
    /\ pc' = [pc EXCEPT ![p] = "find"]
    /\ op' = [op EXCEPT ![p] = [Nothing EXCEPT !.kind = "implicit", !.query = q]]
    /\ Starts(p)
    /\ UNCHANGED << rows, locks, reports, faults, backend, history >>

\* Mutant: lookups that have feedback are found again.
UnflaggedMutant == { i \in (old + 1)..Len(log) : Live(log[i]) }

\* The latest lookup of the prompt within the window without any feedback.  A
\* connection that sees the past may find any.
Unflagged == { i \in (old + 1)..Len(log) :
                 Live(log[i]) /\ \A k \in Kinds : events[log[i]][k] = 0 }

Newest(S) == { i \in S : \A j \in S : j <= i }

\* Mutant: the lookup's entry instead of the lookup.
LatestMutant(p) ==
    IF Unflagged = {} THEN {None} ELSE { of[log[i]] : i \in Newest(Unflagged) }

Latest(p) ==
    IF conn[p] = "behind" THEN {None} \cup { log[i] : i \in DOMAIN log }
    ELSE IF Unflagged = {} THEN {None}
    ELSE { log[i] : i \in Newest(Unflagged) }

\* Somebody else is about to flag q.
Flagging(p, q) ==
    \E o \in Processes \ {p} : /\ pc[o] \in {"recheck", "insert"}
                               /\ op[o].kind = "implicit" /\ op[o].lookup = q

Find(p) ==
    /\ pc[p] = "find"
    /\ Reads(p)
    /\ \E q \in Latest(p) :
         /\ op' = [op EXCEPT ![p].lookup = q]
         /\ pc' = [pc EXCEPT ![p] = IF q = None THEN "search" ELSE "recheck"]
         /\ contested' = IF q # None /\ Flagging(p, q) THEN contested \cup {q} ELSE contested
    /\ UNCHANGED << rows, result, bounds, short, raced, overdue >>

\* An implicit flag is followed by the rest of its query.
AfterFeedback(p, how) ==
    IF op[p].kind = "implicit" THEN Goto(p, "search") ELSE Ends(p, how)

\* record_feedback reads the lookup again ...
Recheck(p) ==
    /\ pc[p] = "recheck"
    /\ Reads(p)
    /\ \/ (Live(op[p].lookup) \/ conn[p] = "behind") /\ Goto(p, "insert")
       \/ ~Live(op[p].lookup) /\ AfterFeedback(p, "false")
    /\ UNCHANGED << rows, bounds, history >>

\* ... and inserts an event that refers to it.
Insert(p) ==
    /\ pc[p] = "insert"
    /\ LET q == op[p].lookup
       IN  \/ Refused(p)
           \/ ~Live(q) /\ Violated(p, of[q])
           \/ /\ Live(q) /\ Commits(p)
              /\ events' = [events EXCEPT ![q][op[p].kind] = @ + 1]
              /\ Goto(p, "count")
              /\ UNCHANGED << stored, of, log, old, negative, positive, pairs, bounds, history >>

\* Mutant: the counter is set instead of incremented.
CountMutant(p) ==
    /\ pc[p] = "count"
    /\ LET e == of[op[p].lookup]
       IN  /\ Commits(p)
           /\ IF op[p].kind = "good"
              THEN /\ positive' = [positive EXCEPT ![e] = IF e \in stored THEN 1 ELSE @]
                   /\ Ends(p, "true")
                   /\ UNCHANGED negative
              ELSE /\ negative' = [negative EXCEPT ![e] = IF e \in stored THEN 1 ELSE @]
                   /\ Goto(p, "pair")
                   /\ UNCHANGED positive
           /\ UNCHANGED << stored, of, log, old, events, pairs, bounds, history >>

\* The entry's counter; an entry that is gone is not counted.
Count(p) ==
    /\ pc[p] = "count"
    /\ \/ Refused(p)
       \/ LET e == of[op[p].lookup]
          IN  /\ Commits(p)
              /\ IF op[p].kind = "good"
                 THEN /\ positive' = [positive EXCEPT ![e] = IF e \in stored THEN @ + 1 ELSE @]
                      /\ Ends(p, "true")
                      /\ UNCHANGED negative
                 ELSE /\ negative' = [negative EXCEPT ![e] = IF e \in stored THEN @ + 1 ELSE @]
                      /\ Goto(p, "pair")
                      /\ UNCHANGED positive
              /\ UNCHANGED << stored, of, log, old, events, pairs, bounds, history >>

\* Mutant: a pair that cannot be written is passed over.
PairMutant(p) ==
    /\ pc[p] = "pair"
    /\ LET q == op[p].lookup
       IN  \/ Locked(p) /\ Reads(p) /\ AfterFeedback(p, "true") /\ UNCHANGED rows
           \/ /\ Live(q) /\ Commits(p)
              /\ pairs' = [pairs EXCEPT ![q] = @ + 1]
              /\ AfterFeedback(p, "true")
              /\ UNCHANGED << stored, of, log, old, events, negative, positive >>
           \/ ~Live(q) /\ Reads(p) /\ AfterFeedback(p, "true") /\ UNCHANGED rows
    /\ UNCHANGED << bounds, history >>

\* A pair for training, when the entry can still be read.
Pair(p) ==
    /\ pc[p] = "pair"
    /\ LET q == op[p].lookup
       IN  \/ Live(q) /\ Refused(p)
           \/ /\ Live(q) /\ Commits(p)
              /\ pairs' = [pairs EXCEPT ![q] = @ + 1]
              /\ AfterFeedback(p, "true")
              /\ UNCHANGED << stored, of, log, old, events, negative, positive, bounds, history >>
           \/ /\ ~Live(q) /\ Reads(p)
              /\ AfterFeedback(p, "true")
              /\ UNCHANGED << rows, bounds, history >>

-----------------------------------------------------------------------------
(* A hit.                                                                  *)

\* The search finds an entry that the store has, or nothing: the miss is no
\* part of this module.
Search(p) ==
    /\ pc[p] = "search"
    /\ Reads(p)
    /\ \/ Ends(p, "false")
       \/ \E e \in (IF conn[p] = "behind" THEN Entries ELSE stored) :
            /\ op' = [op EXCEPT ![p].entry = e]
            /\ pc' = [pc EXCEPT ![p] = "update"]
            /\ UNCHANGED result
    /\ UNCHANGED << rows, bounds, history >>

\* update_hit: its counter is left out.
Update(p) ==
    /\ pc[p] = "update"
    /\ \/ Refused(p)
       \/ Commits(p) /\ Goto(p, "record") /\ UNCHANGED << rows, bounds, history >>

\* record_lookup refers to the entry.
Record(p) ==
    /\ pc[p] = "record"
    /\ LET e == op[p].entry
           q == op[p].query
       IN  \/ Refused(p)
           \/ e \notin stored /\ Violated(p, e)
           \/ /\ e \in stored /\ Commits(p)
              /\ of' = [of EXCEPT ![q] = e]
              /\ log' = Append(log, q)
              /\ Ends(p, "true")
              /\ UNCHANGED << stored, old, events, negative, positive, pairs, bounds, history >>

-----------------------------------------------------------------------------
(* Around it.                                                              *)

\* evict on SQLite: an entry is chosen, for its age or for its complaints ...
Choose(p) ==
    /\ backend = "sqlite" /\ pc[p] = "idle"
    /\ Reads(p)
    /\ \E e \in stored : op' = [op EXCEPT ![p] = [Nothing EXCEPT !.entry = e]]
    /\ pc' = [pc EXCEPT ![p] = "delete"]
    /\ Starts(p)
    /\ UNCHANGED << rows, bounds, history >>

\* ... and deleted by its identifier.
Delete(p) ==
    /\ pc[p] = "delete"
    /\ \/ Refused(p)
       \/ /\ Commits(p)
          /\ stored' = stored \ {op[p].entry}
          /\ Ends(p, "true")
          /\ UNCHANGED << of, log, old, events, negative, positive, pairs, bounds, history >>

\* Postgres evicts by age alone, in one statement.
Evict(p) ==
    /\ backend = "postgres" /\ pc[p] = "idle"
    /\ Commits(p)
    /\ \E e \in stored : stored' = stored \ {e}
    /\ UNCHANGED << of, log, old, events, negative, positive, pairs, pc, op, result,
                    bounds, history >>

\* Time passes: the oldest lookup of the window leaves it.
Age ==
    /\ old < Len(log)
    /\ old' = old + 1
    /\ UNCHANGED << stored, of, log, events, negative, positive, pairs, pc, op, result,
                    locks, bounds, history >>

\* A process stops at any point and starts again with a new connection.
Crash(p) ==
    /\ faults < MaxFaults
    /\ faults' = faults + 1
    /\ pc' = [pc EXCEPT ![p] = "idle"]
    /\ op' = [op EXCEPT ![p] = Nothing]
    /\ result' = [result EXCEPT ![p] = "none"]
    /\ conn' = [conn EXCEPT ![p] = "clear"]
    /\ writer' = IF writer = p THEN None ELSE writer
    /\ CutShort(p)
    /\ UNCHANGED << rows, reports, issued, backend, contested, raced, overdue >>

Next ==
    \/ \E p \in Processes :
         \/ \E q \in Queries : Ask(p, q)
         \/ \E q \in Queries, kind \in {"bad", "good"} : Report(p, kind, q)
         \/ Find(p) \/ Recheck(p) \/ Insert(p) \/ Count(p) \/ Pair(p)
         \/ Search(p) \/ Update(p) \/ Record(p)
         \/ Choose(p) \/ Delete(p) \/ Evict(p)
         \/ Crash(p)
    \/ Age

Spec == Init /\ [][Next]_vars

-----------------------------------------------------------------------------
(* Properties.                                                             *)

\* Events on lookups of entry e that ask for its counter: the rows of the
\* events table, told apart by query, kind and number.
EventsOn(e, kinds) ==
    UNION { {s} \X (1 .. events[s[1]][s[2]]) : s \in { q \in Queries : of[q] = e } \X kinds }

\* Processes whose next statement is the counter of such an event.
Counting(e, kinds) ==
    { p \in Processes : /\ pc[p] = "count" /\ op[p].kind \in kinds
                        /\ of[op[p].lookup] = e }

Recorded(e, kinds) == Cardinality(EventsOn(e, kinds))
Pending(e, kinds) == Cardinality(Counting(e, kinds))

\* An entry's counters are what the events on its lookups amount to: an event
\* is missing in them only while its process is between the two statements,
\* or because it stopped there.
CountsAccounted ==
    \A e \in stored \ short :
      /\ negative[e] = Recorded(e, {"implicit", "bad"}) - Pending(e, {"implicit", "bad"})
      /\ positive[e] = Recorded(e, {"good"}) - Pending(e, {"good"})

\* One hit is flagged by itself at most once, except when two processes were
\* asked the prompt again at the same time.
FlaggedOnce ==
    \A q \in Queries : events[q]["implicit"] > 1 => q \in contested

\* A report that answered "recorded" is in the store as long as its entry is,
\* and its pair for training with it.
ReportsKept ==
    \A p \in Processes :
      LET q == op[p].lookup
      IN  pc[p] = "idle" /\ result[p] = "true" /\ op[p].kind \in {"bad", "good"} /\ Live(q)
            => events[q][op[p].kind] > 0 /\ (op[p].kind = "bad" => pairs[q] > 0)

\* The write lock is kept only where an entry was evicted under a process that
\* was about to refer to it: on SQLite one such race can cost every process
\* its writes.  Waiting too long for other writers costs only the process that
\* waited: without such a race nobody else is left in a transaction, sees the
\* past or is refused.
StuckForCause ==
    /\ writer # None => backend = "sqlite" /\ raced # {}
    /\ \A p \in Processes :
         conn[p] # "clear" \/ result[p] = "locked"
           => backend = "sqlite" /\ (raced # {} \/ p \in overdue)

=============================================================================
