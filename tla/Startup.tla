-------------------------------- MODULE Startup --------------------------------
(***************************************************************************)
(* The life of the server's processes around one database file: each opens *)
(* it, migrates, listens, serves and shuts down.  Two may run at once (a   *)
(* new one starts while the old one drains, a supervisor starts one too    *)
(* many) and any may die at any step, so the migrations race: the check    *)
(* whether one is applied is made outside the transaction that applies it. *)
(*                                                                         *)
(* SQLite admits one writer at a time and takes back the transaction of a  *)
(* process that dies; who finds the file locked waits up to five seconds.  *)
(***************************************************************************)
EXTENDS Naturals

CONSTANTS
  Processes,
  Nobody,       \* holds the write lock when no process does
  Last,         \* the number of migrations, in the order of their names
  MaxRequests,  \* bound on the requests in flight in a process
  MaxFaults     \* bound on crashes, failing listeners and signals

ASSUME StartupAssumption ==
  /\ Nobody \notin Processes
  /\ Last \in Nat /\ MaxRequests \in Nat /\ MaxFaults \in Nat

VARIABLES
  at,       \* where each process is
  next,     \* the migration its loop is at
  flying,   \* its requests in flight
  history,  \* schema_migrations
  schema,   \* the migrations whose tables and rows are there
  writer,   \* who holds the write lock
  faults    \* how many faults there were

vars == <<at, next, flying, history, schema, writer, faults>>

Places == {"down", "open", "check", "apply", "record", "serving", "draining"}

TypeOK ==
  /\ at \in [Processes -> Places]
  /\ next \in [Processes -> 1 .. Last + 1]
  /\ flying \in [Processes -> 0 .. MaxRequests]
  /\ history \subseteq 1 .. Last
  /\ schema \subseteq 1 .. Last
  /\ writer \in Processes \union {Nobody}
  /\ faults \in 0 .. MaxFaults

Init ==
  /\ at = [p \in Processes |-> "down"]
  /\ next = [p \in Processes |-> 1]
  /\ flying = [p \in Processes |-> 0]
  /\ history = {}
  /\ schema = {}
  /\ writer = Nobody
  /\ faults = 0

Move(p, from, to) == at[p] = from /\ at' = [at EXCEPT ![p] = to]

\* The process ends; its requests end with it, and a transaction is rolled back.
Exit(p) ==
  /\ at' = [at EXCEPT ![p] = "down"]
  /\ flying' = [flying EXCEPT ![p] = 0]
  /\ writer' = IF writer = p THEN Nobody ELSE writer
  /\ UNCHANGED <<next, history, schema>>

-----------------------------------------------------------------------------
(* Open and Migrate. *)

Start(p) ==
  /\ Move(p, "down", "open")
  /\ UNCHANGED <<next, flying, history, schema, writer, faults>>

\* The pragmas, and CREATE TABLE IF NOT EXISTS schema_migrations.
Open(p) ==
  /\ Move(p, "open", "check")
  /\ writer = Nobody
  /\ next' = [next EXCEPT ![p] = 1]
  /\ UNCHANGED <<flying, history, schema, writer, faults>>

\* Mutant of Applied: the names are listed with another prefix than recorded.
NeverApplied(n) == FALSE

Applied(n) == n \in history

SkipApplied(p) ==
  /\ Move(p, "check", "check")
  /\ next[p] <= Last /\ Applied(next[p])
  /\ next' = [next EXCEPT ![p] = @ + 1]
  /\ UNCHANGED <<flying, history, schema, writer, faults>>

FindMissing(p) ==
  /\ Move(p, "check", "apply")
  /\ next[p] <= Last /\ ~Applied(next[p])
  /\ UNCHANGED <<next, flying, history, schema, writer, faults>>

\* The statements of the file: the first one takes the write lock, and finds
\* what another process has made since the check.
Execute(p) ==
  /\ Move(p, "apply", "record")
  /\ writer = Nobody /\ next[p] \notin schema
  /\ writer' = p
  /\ UNCHANGED <<next, flying, history, schema, faults>>

ExecuteFails(p) ==
  /\ at[p] = "apply"
  /\ writer = Nobody /\ next[p] \in schema
  /\ Exit(p)
  /\ UNCHANGED faults

\* busy_timeout: who waits for the lock gives up after five seconds.
BusyTimeout(p) ==
  /\ at[p] \in {"open", "apply"}
  /\ writer # Nobody
  /\ Exit(p)
  /\ UNCHANGED faults

\* Mutant of Commit: the history is not part of the transaction.
CommitUnrecorded(p) ==
  /\ Move(p, "record", "check")
  /\ schema' = schema \union {next[p]}
  /\ writer' = Nobody
  /\ next' = [next EXCEPT ![p] = @ + 1]
  /\ UNCHANGED <<flying, history, faults>>

\* The row of the history, in the same transaction, and its commit.
Commit(p) ==
  /\ Move(p, "record", "check")
  /\ schema' = schema \union {next[p]}
  /\ history' = history \union {next[p]}
  /\ writer' = Nobody
  /\ next' = [next EXCEPT ![p] = @ + 1]
  /\ UNCHANGED <<flying, faults>>

-----------------------------------------------------------------------------
(* Run and serve. *)

PortTaken == \E p \in Processes : at[p] = "serving"

Listen(p) ==
  /\ Move(p, "check", "serving")
  /\ next[p] > Last
  /\ ~PortTaken
  /\ UNCHANGED <<next, flying, history, schema, writer, faults>>

ListenFails(p) ==
  /\ at[p] = "check" /\ next[p] > Last
  /\ PortTaken
  /\ Exit(p)
  /\ UNCHANGED faults

RequestComes(p) ==
  /\ at[p] = "serving"
  /\ flying[p] < MaxRequests
  /\ flying' = [flying EXCEPT ![p] = @ + 1]
  /\ UNCHANGED <<at, next, history, schema, writer, faults>>

RequestEnds(p) ==
  /\ flying[p] > 0
  /\ flying' = [flying EXCEPT ![p] = @ - 1]
  /\ UNCHANGED <<at, next, history, schema, writer, faults>>

Fault == faults < MaxFaults /\ faults' = faults + 1

\* SIGTERM: Shutdown closes the listener first.
Signal(p) ==
  /\ Fault
  /\ Move(p, "serving", "draining")
  /\ UNCHANGED <<next, flying, history, schema, writer>>

Drained(p) ==
  /\ at[p] = "draining" /\ flying[p] = 0
  /\ Exit(p)
  /\ UNCHANGED faults

\* shutdownCtx: the database is closed and the process ends under the requests
\* that still run.
ShutdownTimeout(p) ==
  /\ at[p] = "draining" /\ flying[p] > 0
  /\ Exit(p)
  /\ UNCHANGED faults

\* Serve returns an error, or the process dies: here or anywhere.
Crash(p) ==
  /\ Fault
  /\ at[p] # "down"
  /\ Exit(p)

Advance(p) ==
  \/ Open(p) \/ SkipApplied(p) \/ FindMissing(p) \/ Execute(p) \/ ExecuteFails(p) \/ Commit(p)
  \/ Listen(p) \/ ListenFails(p) \/ Drained(p) \/ ShutdownTimeout(p)

Next ==
  \E p \in Processes :
    \/ Start(p) \/ Advance(p) \/ BusyTimeout(p)
    \/ RequestComes(p) \/ RequestEnds(p) \/ Signal(p) \/ Crash(p)

Spec == Init /\ [][Next]_vars

(***************************************************************************)
(* Fairness.  A process runs, and is started again whenever it has ended   *)
(* (by a supervisor).  Waiting for the lock is bounded by busy_timeout and *)
(* a drain by its own timeout, so both end; that a lock is obtained, and   *)
(* that requests end, is not assumed.                                      *)
(***************************************************************************)
FairSpec == Spec /\ \A p \in Processes : WF_vars(Start(p)) /\ WF_vars(Advance(p) \/ BusyTimeout(p))

-----------------------------------------------------------------------------
(* What must hold. *)

\* Whoever races and wherever they die, the history tells the truth: the schema
\* is what it lists, without gaps, and who serves has all of it.
SchemaFollowsHistory ==
  /\ schema = history
  /\ \A m, n \in 1 .. Last : m < n /\ n \in history => m \in history
  /\ \A p \in Processes : at[p] \in {"serving", "draining"} => schema = 1 .. Last

\* A lost race for a migration, for the lock or for the port costs one start:
\* once the faults are over somebody serves, for good.
EventuallyServes == <>[](\E p \in Processes : at[p] = "serving")

-----------------------------------------------------------------------------
(* The inductive invariant: the lock protects what Commit relies on. *)

LoopState ==
  \A p \in Processes :
    /\ at[p] = "record" <=> writer = p
    /\ at[p] \in {"check", "apply", "record"} => 1 .. next[p] - 1 \subseteq history
    /\ at[p] \in {"apply", "record"} => next[p] <= Last
    /\ at[p] \in {"serving", "draining"} => history = 1 .. Last

IInv == TypeOK /\ LoopState /\ SchemaFollowsHistory

================================================================================
