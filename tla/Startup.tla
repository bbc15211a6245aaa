------------------------------ MODULE Startup -------------------------------
(***************************************************************************)
(* How instances of platform-core come up (cmd/server): configuration,      *)
(* migrations, connections, listening; and how the OAuth clients are        *)
(* registered with Hydra (cmd/bootstrap-client).                            *)
(*                                                                          *)
(* Each program is a straight line that ends at its first error.  Nothing   *)
(* in the repository starts it again; whoever operates the service may, and *)
(* the properties say what comes of it if he does.  Several instances may   *)
(* start at once, and any of them may die anywhere: what they share is the  *)
(* database, whose schema golang-migrate changes migration by migration     *)
(* under a lock.                                                            *)
(***************************************************************************)
EXTENDS Naturals

CONSTANTS
  Instance,     \* server processes
  Operator,     \* runs of bootstrap-client at one time
  Latest,       \* the number of the last migration
  MaxFaults,    \* bound: failing calls, deaths and wrong configurations
  None          \* nobody holds the lock; no call to make

ASSUME LatestAssumption == Latest \in Nat

ASSUME MaxFaultsAssumption == MaxFaults \in Nat

ASSUME NoneAssumption == None \notin Instance \cup {"papyrus", "hub"}

VARIABLES
  schema,       \* the last migration whose statements took effect
  version,      \* schema_migrations.version ...
  dirty,        \* ... and whether that migration was begun and not ended
  lock,         \* who holds the migration lock
  pc,           \* where each instance is
  clients,      \* the OAuth clients Hydra has
  call,         \* the client each bootstrap-client is about to create, or None
  faults

vars == <<schema, version, dirty, lock, pc, clients, call, faults>>
database == <<schema, version, dirty, lock>>
hydra == <<clients, call>>

\* The OAuth clients bootstrap-client registers
Client == {"papyrus", "hub"}

Pc == {"down", "load", "lock", "version", "mark", "run", "clear", "postgres",
       "redis", "listen", "serving"}

Init ==
  /\ schema = 0 /\ version = 0 /\ dirty = FALSE /\ lock = None
  /\ pc = [i \in Instance |-> "down"]
  /\ clients = {}
  /\ call = [o \in Operator |-> None]
  /\ faults = 0

-----------------------------------------------------------------------------
(* cmd/server.  A definition named Faulty... is a variant with a plausible  *)
(* bug; nothing uses it but the mutation runs.                              *)

Goto(i, next) == pc' = [pc EXCEPT ![i] = next]

Start(i) ==
  /\ pc[i] = "down" /\ Goto(i, "load")
  /\ UNCHANGED <<database, hydra, faults>>

\* config.Load: everything required is set.
Load(i) ==
  /\ pc[i] = "load" /\ Goto(i, "lock")
  /\ UNCHANGED <<database, hydra, faults>>

\* RunMigrations: the outcomes of Up that are no error.
FaultyIsFine(outcome) == TRUE
StrictIsFine(outcome) == outcome = "applied"
IsFine(outcome) == outcome \in {"applied", "no change"}

\* Up ends, and with it the lock.
EndUp(i, outcome) ==
  /\ lock' = IF lock = i THEN None ELSE lock
  /\ Goto(i, IF IsFine(outcome) THEN "postgres" ELSE "down")

\* golang-migrate's Up: lock, look at the version, and for each migration mark
\* it, run its statements at once, clear the mark.
FaultyFree == TRUE
Free == lock = None
Lock(i) ==
  /\ pc[i] = "lock" /\ Free
  /\ lock' = i
  /\ Goto(i, "version")
  /\ UNCHANGED <<schema, version, dirty, hydra, faults>>

FaultyPending == version <= Latest
Pending == version < Latest

ReadVersion(i) ==
  /\ pc[i] = "version"
  /\ \/ dirty /\ EndUp(i, "dirty")
     \/ ~ dirty /\ ~ Pending /\ EndUp(i, "no change")
     \/ ~ dirty /\ Pending /\ Goto(i, "mark") /\ UNCHANGED lock
  /\ UNCHANGED <<schema, version, dirty, hydra, faults>>

Mark(i) ==
  /\ pc[i] = "mark"
  /\ version' = version + 1 /\ dirty' = TRUE
  /\ Goto(i, "run")
  /\ UNCHANGED <<schema, lock, hydra, faults>>

Run(i) ==
  /\ pc[i] = "run"
  /\ schema' = version
  /\ Goto(i, "clear")
  /\ UNCHANGED <<version, dirty, lock, hydra, faults>>

Clear(i) ==
  /\ pc[i] = "clear"
  /\ dirty' = FALSE
  /\ IF Pending THEN Goto(i, "mark") /\ UNCHANGED lock ELSE EndUp(i, "applied")
  /\ UNCHANGED <<schema, version, hydra, faults>>

\* InitializeApp: ping Postgres, ping Redis, wire; then ListenAndServe.
InitializeApp(i) ==
  /\ \/ pc[i] = "postgres" /\ Goto(i, "redis")
     \/ pc[i] = "redis" /\ Goto(i, "listen")
  /\ UNCHANGED <<database, hydra, faults>>

Listen(i) ==
  /\ pc[i] = "listen" /\ Goto(i, "serving")
  /\ UNCHANGED <<database, hydra, faults>>

Step(i) ==
  \/ Load(i) \/ Lock(i) \/ ReadVersion(i) \/ Mark(i) \/ Run(i) \/ Clear(i)
  \/ InitializeApp(i) \/ Listen(i)

Fault == faults < MaxFaults /\ faults' = faults + 1

\* A required variable is not set, a call fails, the wait for the lock times out.
Fail(i) ==
  /\ pc[i] \notin {"down", "serving"}
  /\ Fault
  /\ IF pc[i] \in {"lock", "version", "mark", "run", "clear"}
     THEN EndUp(i, "error")
     ELSE Goto(i, "down") /\ UNCHANGED lock
  /\ UNCHANGED <<schema, version, dirty, hydra>>

\* The process dies, and its connections with it.
Die(i) ==
  /\ pc[i] # "down"
  /\ Fault
  /\ Goto(i, "down")
  /\ lock' = IF lock = i THEN None ELSE lock
  /\ UNCHANGED <<schema, version, dirty, hydra>>

-----------------------------------------------------------------------------
(* cmd/bootstrap-client.                                                    *)

\* What CreateOAuth2Client answers, and the answers that do not end the program.
Status(c) == IF c \in clients THEN "conflict" ELSE "created"
FaultySettled(status) == status = "created"
Settled(status) == status \in {"created", "conflict"}

\* papyrus first, then hub
After(c) == IF c = "papyrus" THEN "hub" ELSE None

Bootstrap(o) ==
  /\ call[o] = None /\ call' = [call EXCEPT ![o] = "papyrus"]
  /\ UNCHANGED <<database, pc, clients, faults>>

Create(o) ==
  /\ call[o] # None
  /\ clients' = clients \cup {call[o]}
  /\ call' = [call EXCEPT ![o] = IF Settled(Status(@)) THEN After(@) ELSE None]
  /\ UNCHANGED <<database, pc, faults>>

\* The call fails, or its answer is lost, or the program dies.
FailCreate(o) ==
  /\ call[o] # None
  /\ Fault
  /\ clients' \in {clients, clients \cup {call[o]}}
  /\ call' = [call EXCEPT ![o] = None]
  /\ UNCHANGED <<database, pc>>

Next ==
  \/ \E i \in Instance : Start(i) \/ Step(i) \/ Fail(i) \/ Die(i)
  \/ \E o \in Operator : Bootstrap(o) \/ Create(o) \/ FailCreate(o)

Spec == Init /\ [][Next]_vars

\* A program that runs goes on.  That one is started is nowhere assumed.
Fairness ==
  /\ \A i \in Instance : WF_vars(Step(i))
  /\ \A o \in Operator : WF_vars(Create(o))

FairSpec == Spec /\ Fairness

-----------------------------------------------------------------------------
(* Properties.                                                              *)

TypeOK ==
  /\ schema \in 0 .. Latest /\ version \in 0 .. Latest
  /\ dirty \in BOOLEAN
  /\ lock \in Instance \cup {None}
  /\ pc \in [Instance -> Pc]
  /\ clients \subseteq Client
  /\ call \in [Operator -> Client \cup {None}]
  /\ faults \in 0 .. MaxFaults

\* Whoever serves requests does so on the complete schema, whichever instance
\* brought it there and whatever died on the way: in particular nobody serves
\* after a migration that was begun and not ended.
ServesOnCompleteSchema ==
  \A i \in Instance : pc[i] \in {"postgres", "redis", "listen", "serving"} =>
    schema = Latest /\ ~ dirty

\* A migration was begun, and nobody is at it any more.
NeedsRepair == dirty /\ \A i \in Instance : pc[i] \notin {"run", "clear"}

\* Every migration takes effect once and after the one before it, however many
\* instances start at once; and what was cut short is final: no start, retry or
\* other instance repeats the migration or passes over it.
MigrationsRunOnce ==
  [][/\ \A i \in Instance : pc[i] = "run" /\ pc'[i] = "clear" => schema' = schema + 1
     /\ NeedsRepair => NeedsRepair' /\ UNCHANGED schema]_vars

\* A migration was cut short: only a repair by hand helps.
CutShort == dirty /\ lock = None

\* Unless that happens, an instance that is not left down for good, but started
\* again whenever it has ended, comes up and stays up in the end: also one that
\* finds the schema migrated already, and whatever becomes of the others.
ComesUp ==
  ([]~ CutShort) =>
    \A i \in Instance : []<>(pc[i] # "down") => <>[](pc[i] = "serving")

\* Running bootstrap-client again completes a registration that stopped between
\* the two clients, although the first of them exists already by then.
BootstrapConverges ==
  (\E o \in Operator : []<>(call[o] # None)) => <>[](clients = Client)

=============================================================================
