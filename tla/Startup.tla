------------------------------ MODULE Startup ------------------------------
(***************************************************************************)
(* The start-up of the durable store (store.py PostgresIndexStore): what   *)
(* an instance does between connecting to the database and serving from    *)
(* it, while other instances that share the database do the same.          *)
(*                                                                         *)
(* Each step looks at the database in one statement and changes it in a    *)
(* later one.  A CREATE or an INSERT of what another transaction is        *)
(* creating waits for it and then fails, so one that was looked for, not   *)
(* found, and is there by now raises, and the start-up ends.               *)
(***************************************************************************)
EXTENDS Integers, FiniteSets

CONSTANTS
    Instances,  \* processes sharing the database
    Models,     \* embedding models an instance may be configured for
    Width,      \* how many numbers a vector of each model has
    MaxFaults   \* start-ups and instances that die in a behaviour (a bound)

ASSUME StartupAssumption ==
    /\ Width \in [Models -> Nat \ {0}]
    /\ MaxFaults \in Nat

VARIABLES
    server,   \* whether it offers the vector extension and lets it be created
    database, \* what is established in it
    model,    \* instance -> the model it is configured for
    pc,       \* instance -> the step its start-up is at
    early,    \* the start-ups under way that began when no model was recorded
    faults    \* how many have died

vars == <<server, database, model, pc, early, faults>>

-----------------------------------------------------------------------------
(* The database: the extension, this service's own tables, the width of    *)
(* the vector column and the rows of the model table.                      *)

NoTable == 0
Foreign == -1  \* a table of that name without a vector column of a width
Widths == {Width[m] : m \in Models}

Databases == [extension : BOOLEAN, catalog : BOOLEAN,
              column : Widths \cup {NoTable, Foreign}, recorded : SUBSET Models]

Fresh == [extension |-> FALSE, catalog |-> FALSE, column |-> NoTable, recorded |-> {}]

\* The steps in their order; "down" before the first and after a refusal.
PCs == {"down", "reach", "extension", "enable", "catalog", "create", "vectors",
        "establish", "width", "model", "record", "running"}

Ended == {"down", "running"}

TypeOK ==
    /\ server \in [offers : BOOLEAN, permits : BOOLEAN]
    /\ database \in Databases
    /\ model \in [Instances -> Models]
    /\ pc \in [Instances -> PCs]
    /\ early \subseteq {i \in Instances : pc[i] \notin Ended}
    /\ faults \in 0..MaxFaults

Init ==
    /\ server \in [offers : BOOLEAN, permits : BOOLEAN]
    /\ \E column \in {NoTable, Foreign} : database = [Fresh EXCEPT !.column = column]
    /\ model \in [Instances -> Models]
    /\ pc = [i \in Instances |-> "down"]
    /\ early = {}
    /\ faults = 0

-----------------------------------------------------------------------------
(* One step of a start-up: go on, or raise, which ends the process.        *)

Goes(i, from, to) ==
    /\ pc[i] = from
    /\ pc' = [pc EXCEPT ![i] = to]
    /\ early' = IF to \in Ended THEN early \ {i} ELSE early

Raises(i, from) == Goes(i, from, "down")

\* A look that finds what is needed skips the step that would make it.
Looks(i, from, found, make, next) ==
    /\ Goes(i, from, IF found THEN next ELSE make)
    /\ UNCHANGED <<server, database, model, faults>>

Unmoved == UNCHANGED <<server, database, model, faults>>

Start(i) ==
    /\ pc[i] = "down"
    /\ pc' = [pc EXCEPT ![i] = "reach"]
    /\ early' = IF database.recorded = {} THEN early \cup {i} ELSE early
    /\ UNCHANGED <<server, database, model, faults>>

\* _require_reachable.
Reach(i) == Goes(i, "reach", "extension") /\ Unmoved

\* _require_vector_extension: installed, or offered by the server, or refused.
LookForExtension(i) ==
    /\ database.extension \/ server.offers
    /\ Looks(i, "extension", database.extension, "enable", "catalog")

RefuseExtension(i) ==
    /\ ~database.extension /\ ~server.offers
    /\ Raises(i, "extension")
    /\ Unmoved

\* CREATE EXTENSION IF NOT EXISTS: a role that may not create it is refused.
Enable(i) ==
    /\ database.extension \/ server.permits
    /\ Goes(i, "enable", "catalog")
    /\ database' = [database EXCEPT !.extension = TRUE]
    /\ UNCHANGED <<server, model, faults>>

\* Another instance creating it at the same time may make the statement raise.
EnableRaises(i) ==
    /\ database.extension \/ ~server.permits
    /\ Raises(i, "enable")
    /\ Unmoved

\* _define_catalog_tables: create_all looks for the tables, then creates the
\* missing ones, in one transaction.
LookForCatalog(i) == Looks(i, "catalog", database.catalog, "create", "vectors")

CreateCatalog(i) ==
    /\ ~database.catalog
    /\ Goes(i, "create", "vectors")
    /\ database' = [database EXCEPT !.catalog = TRUE]
    /\ UNCHANGED <<server, model, faults>>

CreateCatalogRaises(i) == database.catalog /\ Raises(i, "create") /\ Unmoved

\* _establish_vector_table: the library creates its table at this model's width.
\* Mutant: the table is left to the first write.
LeaveVectors(i) == Looks(i, "vectors", TRUE, "establish", "width")
LookForVectors(i) ==
    Looks(i, "vectors", database.column # NoTable, "establish", "width")

\* Mutant: embed_dim is not passed, so the library's default width is taken.
EstablishDefaultWidth(i) ==
    /\ database.column = NoTable
    /\ Goes(i, "establish", "width")
    /\ database' = [database EXCEPT !.column = 1536]
    /\ UNCHANGED <<server, model, faults>>
EstablishVectors(i) ==
    /\ database.column = NoTable
    /\ Goes(i, "establish", "width")
    /\ database' = [database EXCEPT !.column = Width[model[i]]]
    /\ UNCHANGED <<server, model, faults>>

EstablishRaises(i) ==
    database.column # NoTable /\ Raises(i, "establish") /\ Unmoved

\* _validate_collection, first half: the column as the database declares it.
\* Mutant: the width is taken for the model's own.
TakeWidthOnTrust(i) ==
    /\ database.column # Foreign
    /\ Goes(i, "width", "model")
    /\ Unmoved
CheckWidth(i) ==
    /\ database.column = Width[model[i]]
    /\ Goes(i, "width", "model")
    /\ Unmoved

RefuseWidth(i) ==
    /\ database.column # Width[model[i]]
    /\ Raises(i, "width")
    /\ Unmoved

\* Second half: the recorded model.  The rows are read without an order, so when
\* there are several any of them may come first.
\* Mutant: the recorded model is not asked for.
SkipModel(i) == Looks(i, "model", FALSE, "record", "running")
ReadModel(i) ==
    /\ database.recorded = {} \/ model[i] \in database.recorded
    /\ Looks(i, "model", database.recorded # {}, "record", "running")

RefuseModel(i) ==
    /\ database.recorded \ {model[i]} # {}
    /\ Raises(i, "model")
    /\ Unmoved

\* The model's name is the row's key.
RecordModel(i) ==
    /\ model[i] \notin database.recorded
    /\ Goes(i, "record", "running")
    /\ database' = [database EXCEPT !.recorded = @ \cup {model[i]}]
    /\ UNCHANGED <<server, model, faults>>

RecordRaises(i) ==
    model[i] \in database.recorded /\ Raises(i, "record") /\ Unmoved

\* A process dies or loses the database, at any step or while it serves.
Dies(i) ==
    /\ faults < MaxFaults
    /\ pc[i] # "down"
    /\ Raises(i, pc[i])
    /\ faults' = faults + 1
    /\ UNCHANGED <<server, database, model>>

Step(i) ==
    \/ Reach(i)
    \/ LookForExtension(i) \/ RefuseExtension(i) \/ Enable(i) \/ EnableRaises(i)
    \/ LookForCatalog(i) \/ CreateCatalog(i) \/ CreateCatalogRaises(i)
    \/ LookForVectors(i) \/ EstablishVectors(i) \/ EstablishRaises(i)
    \/ CheckWidth(i) \/ RefuseWidth(i)
    \/ ReadModel(i) \/ RefuseModel(i) \/ RecordModel(i) \/ RecordRaises(i)

Next == \E i \in Instances : Start(i) \/ Step(i) \/ Dies(i)

Spec == Init /\ [][Next]_vars

\* A process that runs gets on, and one that ended is started again, as the
\* refusals ask an operator to.
FairSpec == Spec /\ \A i \in Instances : WF_vars(Start(i)) /\ WF_vars(Step(i))

-----------------------------------------------------------------------------
(* Properties.                                                             *)

\* An instance serves only from a collection that is all there, at its model's
\* width and with its model among the recorded ones, whoever established which
\* part and whoever died between two of them (README.md: "it stops rather than
\* serve from a store it cannot trust").
RunningFits ==
    \A i \in Instances : pc[i] = "running" =>
        /\ database.extension /\ database.catalog
        /\ database.column = Width[model[i]]
        /\ model[i] \in database.recorded

\* A second model joins a collection only in a race for an empty one: once no
\* start-up is under way that began before the first model was recorded, the
\* record is final (store.py _validate_collection: "refuse to write into a
\* collection this embedding model does not belong to").
Settled == database.recorded # {} /\ early = {}

RecordIsFinal == [][Settled => database.recorded' = database.recorded]_vars

\* Instances that start together over an able server do not all fail on what the
\* others are creating: one gets through, whichever step each one loses.
Able == server.offers /\ server.permits /\ database.column # Foreign

SomeoneRuns == Able => <>(\E i \in Instances : pc[i] = "running")

\* Losing a race is made good by starting again: in the end every instance that
\* is configured for the one recorded model runs.
ItsInstancesRun ==
    <>[](\A i \in Instances : database.recorded = {model[i]} => pc[i] = "running")
=============================================================================
