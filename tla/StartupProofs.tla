--------------------------- MODULE StartupProofs ----------------------------
(***************************************************************************)
(* Proofs about Startup, for any number of instances, migrations and        *)
(* faults.                                                                  *)
(***************************************************************************)
EXTENDS Startup, TLAPS

InUp == {"version", "mark", "run", "clear"}
Through == {"postgres", "redis", "listen", "serving"}

\* What an instance knows of the database where it is.
InstanceInv(i) ==
  /\ pc[i] \in InUp <=> lock = i
  /\ pc[i] = "mark" => ~ dirty /\ version < Latest
  /\ pc[i] = "run" => dirty /\ version = schema + 1
  /\ pc[i] = "clear" => dirty /\ version = schema
  /\ pc[i] \in Through => schema = Latest /\ ~ dirty

IInv ==
  /\ TypeOK
  /\ ~ dirty => version = schema
  /\ \A i \in Instance : InstanceInv(i)

-----------------------------------------------------------------------------
\* Instances other than the one that moves: they do not hold the lock, so all
\* they know is what is true for good once they are through.
LEMMA OthersInv ==
  ASSUME IInv, NEW i \in Instance, NEW next \in Pc, Goto(i, next),
         NEW j \in Instance, j # i,
         \/ lock' = lock
         \/ lock = None /\ lock' = i
         \/ lock = i /\ lock' = None,
         \/ UNCHANGED <<schema, version, dirty>>
         \/ lock = i /\ ~ (schema = Latest /\ ~ dirty)
  PROVE  InstanceInv(j)'
<1>1. pc'[j] = pc[j] /\ InstanceInv(j) /\ InstanceInv(i)
  BY DEF IInv, TypeOK, Goto
<1>2. lock' = j <=> lock = j
  BY NoneAssumption
<1>3. CASE UNCHANGED <<schema, version, dirty>>
  BY <1>1, <1>2, <1>3 DEF InstanceInv
<1>4. CASE lock = i /\ ~ (schema = Latest /\ ~ dirty)
  <2>1. pc[j] \notin InUp /\ pc[j] \notin Through
    BY <1>1, <1>4 DEF InstanceInv
  <2> QED
    BY <1>1, <1>2, <2>1 DEF InstanceInv, InUp
<1> QED
  BY <1>3, <1>4

\* Up ends, with an outcome that is fine only on a complete schema.
LEMMA EndUpInv ==
  ASSUME IInv, NEW i \in Instance, NEW outcome, EndUp(i, outcome),
         pc[i] \in InUp \cup {"lock"},
         UNCHANGED <<schema, version>>,
         \/ UNCHANGED dirty
         \/ pc[i] = "clear" /\ dirty' = FALSE,
         IsFine(outcome) => version = Latest /\ schema = Latest /\ dirty' = FALSE,
         TypeOK'
  PROVE  IInv'
<1> DEFINE next == IF IsFine(outcome) THEN "postgres" ELSE "down"
<1>1. next \in Pc /\ next \notin InUp /\ Goto(i, next)
  BY DEF EndUp, Pc, InUp
<1>2. pc'[i] = next /\ InstanceInv(i)
  BY <1>1 DEF Goto, IInv, TypeOK
<1>3. lock' # i /\ (lock' = lock \/ (lock = i /\ lock' = None))
  BY NoneAssumption DEF EndUp
<1>4. InstanceInv(i)'
  BY <1>1, <1>2, <1>3 DEF InstanceInv, InUp, Through
<1>5. ASSUME NEW j \in Instance, j # i PROVE InstanceInv(j)'
  <2>1. \/ UNCHANGED <<schema, version, dirty>>
        \/ lock = i /\ ~ (schema = Latest /\ ~ dirty)
    BY <1>2 DEF InstanceInv, InUp
  <2> HIDE DEF next
  <2> QED
    BY <1>1, <1>3, <1>5, <2>1, OthersInv
<1>6. ~ dirty' => version' = schema'
  BY <1>2 DEF IInv, InstanceInv
<1> QED
  BY <1>4, <1>5, <1>6 DEF IInv

LEMMA TypeStep == IInv /\ [Next]_vars => TypeOK'
<1> SUFFICES ASSUME IInv, Next PROVE TypeOK'
  BY DEF IInv, TypeOK, vars
<1> USE LatestAssumption, MaxFaultsAssumption DEF IInv, TypeOK, Pc
<1>1. ASSUME NEW i \in Instance, Start(i) \/ Load(i) \/ Lock(i) \/ InitializeApp(i)
                                 \/ Listen(i)
      PROVE  TypeOK'
  BY <1>1 DEF Start, Load, Lock, InitializeApp, Listen, Goto, database, hydra
<1>2. ASSUME NEW i \in Instance, ReadVersion(i) PROVE TypeOK'
  BY <1>2 DEF ReadVersion, EndUp, Goto, database, hydra
<1>3. ASSUME NEW i \in Instance, Mark(i) PROVE TypeOK'
  BY <1>3 DEF Mark, Goto, hydra, InstanceInv
<1>4. ASSUME NEW i \in Instance, Run(i) PROVE TypeOK'
  BY <1>4 DEF Run, Goto, hydra
<1>5. ASSUME NEW i \in Instance, Clear(i) PROVE TypeOK'
  BY <1>5 DEF Clear, EndUp, Goto, hydra
<1>6. ASSUME NEW i \in Instance, Fail(i) PROVE TypeOK'
  BY <1>6 DEF Fail, Fault, EndUp, Goto, hydra
<1>7. ASSUME NEW i \in Instance, Die(i) PROVE TypeOK'
  BY <1>7 DEF Die, Fault, Goto, hydra
<1>8. ASSUME NEW o \in Operator, Bootstrap(o) \/ Create(o) \/ FailCreate(o)
      PROVE  TypeOK'
  <2>1. call[o] \in Client \cup {None} /\ UNCHANGED <<database, pc>>
    BY <1>8 DEF Bootstrap, Create, FailCreate
  <2>2. CASE Bootstrap(o)
    BY <2>1, <2>2 DEF Bootstrap, Client, database
  <2>3. CASE Create(o)
    <3>1. After(call[o]) \in Client \cup {None}
      BY DEF After, Client
    <3>2. clients' \subseteq Client
      BY <2>1, <2>3 DEF Create
    <3>3. call' \in [Operator -> Client \cup {None}]
      BY <2>3, <3>1 DEF Create
    <3> QED
      BY <2>1, <2>3, <3>2, <3>3 DEF Create, database
  <2>4. CASE FailCreate(o)
    <3>1. clients' \subseteq Client
      BY <2>1, <2>4 DEF FailCreate
    <3>2. faults' \in 0 .. MaxFaults /\ call' \in [Operator -> Client \cup {None}]
      BY <2>4 DEF FailCreate, Fault
    <3> QED
      BY <2>1, <3>1, <3>2 DEF database
  <2> QED
    BY <1>8, <2>2, <2>3, <2>4
<1> QED
  BY <1>1, <1>2, <1>3, <1>4, <1>5, <1>6, <1>7, <1>8 DEF Next, Step

-----------------------------------------------------------------------------
LEMMA InitInv == Init => IInv
<1> SUFFICES ASSUME Init PROVE IInv
  OBVIOUS
<1>1. 0 \in 0 .. Latest /\ 0 \in 0 .. MaxFaults
  BY LatestAssumption, MaxFaultsAssumption
<1>2. TypeOK
  BY <1>1 DEF Init, TypeOK, Pc
<1>3. ASSUME NEW i \in Instance PROVE InstanceInv(i)
  BY NoneAssumption DEF Init, InstanceInv, InUp, Through
<1> QED
  BY <1>2, <1>3 DEF Init, IInv

\* One instance moves on while Up is under way, or outside of it.
LEMMA StepInv ==
  ASSUME IInv, TypeOK', NEW i \in Instance, Step(i)
  PROVE  IInv'
<1> USE LatestAssumption DEF IInv, TypeOK
<1>0. InstanceInv(i) /\ version \in Nat /\ schema \in Nat
  OBVIOUS
<1>1. ASSUME NEW next \in Pc, Goto(i, next), InstanceInv(i)',
             ~ dirty' => version' = schema',
             \/ lock' = lock
             \/ lock = None /\ lock' = i,
             \/ UNCHANGED <<schema, version, dirty>>
             \/ lock = i /\ ~ (schema = Latest /\ ~ dirty)
      PROVE  IInv'
  <2>1. ASSUME NEW j \in Instance, j # i PROVE InstanceInv(j)'
    BY <1>1, <2>1, OthersInv
  <2> QED
    BY <1>1, <2>1
<1>2. CASE Load(i)
  BY <1>0, <1>1, <1>2 DEF Load, Goto, InstanceInv, Pc, InUp, Through, database
<1>3. CASE Lock(i)
  BY <1>0, <1>1, <1>3, NoneAssumption DEF Lock, Free, Goto, InstanceInv, Pc, InUp, Through
<1>4. CASE ReadVersion(i)
  <2>1. CASE ~ dirty /\ Pending
    BY <1>0, <1>1, <1>4, <2>1 DEF ReadVersion, Pending, Goto, InstanceInv, Pc, InUp, Through
  <2>2. CASE dirty
    BY <1>4, <2>2, EndUpInv DEF ReadVersion, IsFine, InUp
  <2>3. CASE ~ dirty /\ ~ Pending
    <3>1. version = Latest /\ schema = Latest
      BY <2>3 DEF Pending
    <3> QED
      BY <1>4, <2>3, <3>1, EndUpInv DEF ReadVersion, InUp
  <2> QED
    BY <2>1, <2>2, <2>3
<1>5. CASE Mark(i)
  <2>1. lock = i /\ ~ dirty /\ version < Latest /\ version = schema
    BY <1>0, <1>5 DEF Mark, InstanceInv, InUp
  <2> QED
    BY <1>0, <1>1, <1>5, <2>1 DEF Mark, Goto, InstanceInv, Pc, InUp, Through
<1>6. CASE Run(i)
  <2>1. lock = i /\ dirty
    BY <1>0, <1>6 DEF Run, InstanceInv, InUp
  <2> QED
    BY <1>0, <1>1, <1>6, <2>1 DEF Run, Goto, InstanceInv, Pc, InUp, Through
<1>7. CASE Clear(i)
  <2>1. lock = i /\ dirty /\ version = schema
    BY <1>0, <1>7 DEF Clear, InstanceInv, InUp
  <2>2. CASE Pending
    BY <1>0, <1>1, <1>7, <2>1, <2>2
       DEF Clear, Pending, Goto, InstanceInv, Pc, InUp, Through
  <2>3. CASE ~ Pending
    <3>1. version = Latest
      BY <2>3 DEF Pending
    <3> QED
      BY <1>7, <2>1, <2>3, <3>1, EndUpInv DEF Clear, InUp
  <2> QED
    BY <2>2, <2>3
<1>8. CASE InitializeApp(i)
  BY <1>0, <1>1, <1>8 DEF InitializeApp, Goto, InstanceInv, Pc, InUp, Through, database
<1>9. CASE Listen(i)
  BY <1>0, <1>1, <1>9 DEF Listen, Goto, InstanceInv, Pc, InUp, Through, database
<1> QED
  BY <1>2, <1>3, <1>4, <1>5, <1>6, <1>7, <1>8, <1>9 DEF Step

\* An instance stops, wherever it is, and lets go of the lock.
LEMMA StopInv ==
  ASSUME IInv, TypeOK', NEW i \in Instance, Goto(i, "down"),
         lock' = (IF lock = i THEN None ELSE lock),
         UNCHANGED <<schema, version, dirty>>
  PROVE  IInv'
<1>1. InstanceInv(i)'
  BY NoneAssumption DEF IInv, TypeOK, Goto, InstanceInv, InUp, Through
<1>2. ASSUME NEW j \in Instance, j # i PROVE InstanceInv(j)'
  BY <1>2, OthersInv DEF Pc
<1> QED
  BY <1>1, <1>2 DEF IInv

LEMMA NextInv == IInv /\ [Next]_vars => IInv'
<1> SUFFICES ASSUME IInv, [Next]_vars PROVE IInv'
  OBVIOUS
<1>0. TypeOK'
  BY TypeStep
<1>1. ASSUME NEW i \in Instance, Start(i) PROVE IInv'
  <2>1. InstanceInv(i)'
    BY <1>1 DEF Start, IInv, TypeOK, Goto, InstanceInv, InUp, Through, database
  <2>2. ASSUME NEW j \in Instance, j # i PROVE InstanceInv(j)'
    BY <1>1, <2>2, OthersInv DEF Start, database, Pc
  <2> QED
    BY <1>0, <1>1, <2>1, <2>2 DEF Start, database, IInv
<1>2. ASSUME NEW i \in Instance, Fail(i) PROVE IInv'
  <2>1. CASE pc[i] \in InUp \cup {"lock"}
    BY <1>0, <1>2, <2>1, EndUpInv DEF Fail, IsFine, InUp
  <2>2. CASE pc[i] \notin InUp \cup {"lock"}
    <3>1. lock # i
      BY <2>2 DEF IInv, InstanceInv
    <3> QED
      BY <1>0, <1>2, <2>2, <3>1, StopInv DEF Fail, InUp
  <2> QED
    BY <2>1, <2>2
<1>3. ASSUME NEW i \in Instance, Die(i) PROVE IInv'
  BY <1>0, <1>3, StopInv DEF Die
<1>4. CASE UNCHANGED <<schema, version, dirty, lock, pc>>
  BY <1>0, <1>4 DEF IInv, InstanceInv
<1> QED
  BY <1>0, <1>1, <1>2, <1>3, <1>4, StepInv
     DEF Next, vars, Bootstrap, Create, FailCreate, database

LEMMA SpecInv == Spec => []IInv
  BY InitInv, NextInv, PTL DEF Spec

\* The version table, the lock and the instances are always of the right type: in
\* particular no migration past the last one is ever marked.
THEOREM TypeCorrect == Spec => []TypeOK
  BY SpecInv, PTL DEF IInv

\* main.go listens only after RunMigrations and InitializeApp: however many
\* instances start, fail or die at once, none of them serves on a schema that is
\* not the latest or whose last migration was cut short.
THEOREM ServingIsSafe == Spec => []ServesOnCompleteSchema
<1>1. IInv => ServesOnCompleteSchema
  BY DEF IInv, InstanceInv, Through, ServesOnCompleteSchema
<1> QED
  BY <1>1, SpecInv, PTL

\* RunMigrations on several instances at once (migrate.go): whoever runs a
\* migration has the lock and marked the one after the last, and only a clean
\* version is ever marked.
THEOREM EachMigrationOnce == Spec => MigrationsRunOnce
<1>1. ASSUME IInv, Next, NEW i \in Instance, pc[i] = "run", pc'[i] = "clear"
      PROVE  schema' = schema + 1
  <2>1. PICK j \in Instance : Start(j) \/ Step(j) \/ Fail(j) \/ Die(j)
    BY <1>1 DEF Next, Bootstrap, Create, FailCreate
  <2>2. \E next : Goto(j, next)
    BY <2>1
       DEF Start, Step, Load, Lock, ReadVersion, Mark, Run, Clear, InitializeApp, Listen,
           Fail, Die, EndUp
  <2>3. j = i
    BY <1>1, <2>2 DEF Goto, IInv, TypeOK
  <2>4. ASSUME NEW outcome, EndUp(i, outcome) PROVE FALSE
    BY <1>1, <2>4 DEF EndUp, Goto, IInv, TypeOK
  <2>5. Run(i)
    BY <1>1, <2>1, <2>3, <2>4
       DEF Start, Step, Load, Lock, ReadVersion, Mark, Clear, InitializeApp, Listen, Fail,
           Die, Goto, IInv, TypeOK
  <2> QED
    BY <1>1, <2>5 DEF Run, IInv, InstanceInv
<1>2. ASSUME IInv, Next, NeedsRepair PROVE NeedsRepair' /\ UNCHANGED schema
  <2>1. CASE UNCHANGED <<schema, dirty, pc>>
    BY <1>2, <2>1 DEF NeedsRepair
  <2>2. ASSUME NEW i \in Instance, NEW next \in Pc \ {"run", "clear"}, Goto(i, next),
               UNCHANGED <<schema, dirty>>
        PROVE  NeedsRepair' /\ UNCHANGED schema
    BY <1>2, <2>2 DEF NeedsRepair, Goto, IInv, TypeOK
  <2>3. ASSUME NEW i \in Instance, Mark(i) \/ Run(i) \/ Clear(i) PROVE FALSE
    BY <1>2, <2>3 DEF Mark, Run, Clear, NeedsRepair, IInv, InstanceInv
  <2>4. ASSUME NEW i \in Instance, NEW outcome, EndUp(i, outcome), UNCHANGED <<schema, dirty>>
        PROVE  NeedsRepair' /\ UNCHANGED schema
    BY <2>2, <2>4 DEF EndUp, Pc
  <2>5. ASSUME NEW i \in Instance, Start(i) \/ Step(i) \/ Fail(i) \/ Die(i)
        PROVE  NeedsRepair' /\ UNCHANGED schema
    BY <2>2, <2>3, <2>4, <2>5
       DEF Start, Step, Load, Lock, ReadVersion, InitializeApp, Listen, Fail, Die, Pc, database
  <2> QED
    BY <1>2, <2>1, <2>5 DEF Next, Bootstrap, Create, FailCreate, database
<1>3. IInv /\ [Next]_vars =>
        [/\ \A i \in Instance : pc[i] = "run" /\ pc'[i] = "clear" => schema' = schema + 1
         /\ NeedsRepair => NeedsRepair' /\ UNCHANGED schema]_vars
  BY <1>1, <1>2
<1> QED
  BY <1>3, SpecInv, PTL DEF Spec, MigrationsRunOnce
=============================================================================
