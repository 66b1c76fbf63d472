--------------------------- MODULE StartupProofs ---------------------------
(***************************************************************************)
(* What Startup keeps for any instances, models, widths and number of      *)
(* deaths.                                                                 *)
(***************************************************************************)
EXTENDS Startup, TLAPS

\* A column of some model's width is neither a missing nor a foreign table.
LEMMA WidthIsATable ==
    ASSUME NEW m \in Models
    PROVE  Width[m] \in Widths /\ Width[m] # NoTable /\ Width[m] # Foreign
BY StartupAssumption DEF Widths, NoTable, Foreign

-----------------------------------------------------------------------------
(* What a step leaves of the two halves of the state: the database, which  *)
(* only grows, and the places the instances are at.                        *)

Grows ==
    /\ database.extension => database'.extension
    /\ database.catalog => database'.catalog
    /\ database.column # NoTable => database'.column = database.column
    /\ database.recorded \subseteq database'.recorded

\* Only i moves, and it stays among the early only if it was and has not ended.
Moves(i, from, to) ==
    /\ pc[i] = from
    /\ \A j \in Instances : pc'[j] = IF j = i THEN to ELSE pc[j]
    /\ early' \subseteq early
    /\ early \ {i} \subseteq early'
    /\ to \notin Ended => early' = early

LEMMA GoingMoves ==
    ASSUME TypeOK, NEW i \in Instances, NEW from, NEW to \in PCs, Goes(i, from, to)
    PROVE  /\ Moves(i, from, to)
           /\ pc' \in [Instances -> PCs]
           /\ early' \subseteq {j \in Instances : pc'[j] \notin Ended}
BY DEF TypeOK, Goes, Moves, Ended

LEMMA UnchangedGrows ==
    ASSUME UNCHANGED database
    PROVE  Grows
BY DEF Grows

\* The four changes of the database, one by one.
LEMMA EnableGrows ==
    ASSUME TypeOK, NEW i \in Instances, Enable(i)
    PROVE  Grows /\ database' \in Databases /\ database'.extension
BY DEF TypeOK, Enable, Grows, Databases

LEMMA CreateGrows ==
    ASSUME TypeOK, NEW i \in Instances, CreateCatalog(i)
    PROVE  Grows /\ database' \in Databases /\ database'.catalog
BY DEF TypeOK, CreateCatalog, Grows, Databases

LEMMA EstablishGrows ==
    ASSUME TypeOK, NEW i \in Instances, EstablishVectors(i)
    PROVE  Grows /\ database' \in Databases
<1>1. model[i] \in Models
  BY DEF TypeOK
<1>2. Width[model[i]] \in Widths \cup {NoTable, Foreign}
  BY <1>1, WidthIsATable
<1> QED BY <1>2 DEF TypeOK, EstablishVectors, Grows, Databases

LEMMA RecordGrows ==
    ASSUME TypeOK, NEW i \in Instances, RecordModel(i)
    PROVE  /\ Grows /\ database' \in Databases
           /\ model[i] \in database'.recorded
           /\ database'.column = database.column
<1>1. model[i] \in Models
  BY DEF TypeOK
<1> QED BY <1>1 DEF TypeOK, RecordModel, Grows, Databases

-----------------------------------------------------------------------------
(* The invariant: at each place in the code, what has been established by  *)
(* then; and whoever may yet record a first model is among the early.      *)

PastCatalog == {"vectors", "establish", "width", "model", "record", "running"}
PastExtension == PastCatalog \cup {"catalog", "create"}
PastWidth == {"model", "record", "running"}

Fits(i) ==
    /\ pc[i] \in PastExtension => database.extension
    /\ pc[i] \in PastCatalog => database.catalog
    /\ pc[i] \in PastWidth => database.column = Width[model[i]]
    /\ pc[i] = "running" => model[i] \in database.recorded

IsEarly(i) ==
    /\ pc[i] = "record" => i \in early
    /\ database.recorded = {} /\ pc[i] \notin Ended => i \in early

Inv ==
    /\ TypeOK
    /\ \A i \in Instances : Fits(i)
    /\ \A i \in Instances : IsEarly(i)

\* Who does not move keeps both, whatever is added to the database.
LEMMA OthersKeep ==
    ASSUME Inv, NEW i \in Instances, NEW j \in Instances \ {i}, NEW from, NEW to,
           Moves(i, from, to), Grows, UNCHANGED model
    PROVE  Fits(j)' /\ IsEarly(j)'
<1>1. pc'[j] = pc[j] /\ (j \in early <=> j \in early') /\ Fits(j) /\ IsEarly(j)
  BY DEF Moves, Inv
<1>2. model[j] \in Models
  BY DEF Inv, TypeOK
<1>3. Width[model[j]] # NoTable
  BY <1>2, WidthIsATable
<1>4. Fits(j)'
  BY <1>1, <1>3 DEF Fits, Grows
<1>5. IsEarly(j)'
  BY <1>1 DEF IsEarly, Grows
<1> QED BY <1>4, <1>5

\* So a step that goes on keeps the invariant if it does for who goes.
LEMMA GoingKeeps ==
    ASSUME Inv, NEW i \in Instances, NEW from, NEW to \in PCs, Goes(i, from, to),
           Grows, database' \in Databases, UNCHANGED <<server, model>>,
           faults' \in 0..MaxFaults,
           Moves(i, from, to) => Fits(i)' /\ IsEarly(i)'
    PROVE  Inv'
<1>1. /\ Moves(i, from, to)
      /\ pc' \in [Instances -> PCs]
      /\ early' \subseteq {j \in Instances : pc'[j] \notin Ended}
  BY GoingMoves DEF Inv
<1>2. TypeOK'
  BY <1>1 DEF Inv, TypeOK
<1>3. \A j \in Instances : Fits(j)' /\ IsEarly(j)'
  BY <1>1, OthersKeep
<1> QED BY <1>2, <1>3 DEF Inv

\* A refusal leaves nothing to establish.
LEMMA RaisingKeeps ==
    ASSUME Inv, NEW i \in Instances, NEW from, Raises(i, from),
           UNCHANGED <<server, database, model>>, faults' \in 0..MaxFaults
    PROVE  Inv'
<1>1. Goes(i, from, "down") /\ "down" \in PCs
  BY DEF Raises, PCs
<1>2. Grows /\ database' \in Databases
  BY UnchangedGrows DEF Inv, TypeOK
<1>3. Moves(i, from, "down") => Fits(i)' /\ IsEarly(i)'
  BY DEF Moves, Fits, IsEarly, PastCatalog, PastExtension, PastWidth, Ended
<1> QED BY <1>1, <1>2, <1>3, GoingKeeps

-----------------------------------------------------------------------------
(* Each step keeps it.                                                     *)

LEMMA StartKeeps ==
    ASSUME Inv, NEW i \in Instances, Start(i)
    PROVE  Inv'
<1>1. /\ pc' \in [Instances -> PCs]
      /\ \A j \in Instances : pc'[j] = IF j = i THEN "reach" ELSE pc[j]
      /\ early \subseteq early'
      /\ database.recorded = {} => i \in early'
      /\ UNCHANGED <<server, database, model, faults>>
  BY DEF Inv, TypeOK, Start, PCs
<1>2. early' \subseteq {j \in Instances : pc'[j] \notin Ended}
  BY <1>1 DEF Inv, TypeOK, Start, Ended
<1>3. TypeOK'
  BY <1>1, <1>2 DEF Inv, TypeOK
<1>4. ASSUME NEW j \in Instances PROVE Fits(j)' /\ IsEarly(j)'
  <2>1. CASE j = i
    BY <1>1, <2>1 DEF Fits, IsEarly, PastCatalog, PastExtension, PastWidth
  <2>2. CASE j # i
    BY <1>1, <2>2 DEF Inv, Fits, IsEarly
  <2> QED BY <2>1, <2>2
<1> QED BY <1>3, <1>4 DEF Inv

\* The steps that change nothing of the database and go on.
LEMMA LooksKeep ==
    ASSUME Inv, NEW i \in Instances,
           \/ Reach(i) \/ LookForExtension(i) \/ LookForCatalog(i) \/ LookForVectors(i)
           \/ CheckWidth(i) \/ ReadModel(i)
    PROVE  Inv'
<1> USE DEF PCs
<1>1. UNCHANGED <<server, database, model, faults>>
  BY DEF Reach, LookForExtension, LookForCatalog, LookForVectors, CheckWidth, ReadModel,
         Looks, Unmoved
<1>2. Grows /\ database' \in Databases /\ faults' \in 0..MaxFaults
  BY <1>1, UnchangedGrows DEF Inv, TypeOK
<1>3. Fits(i) /\ IsEarly(i)
  BY DEF Inv
<1>4. ASSUME NEW from, NEW to \in PCs, Goes(i, from, to),
             Moves(i, from, to) => Fits(i)' /\ IsEarly(i)'
      PROVE  Inv'
  BY <1>1, <1>2, <1>4, GoingKeeps
<1>5. CASE Reach(i)
  <2>1. Goes(i, "reach", "extension")
    BY <1>5 DEF Reach
  <2>2. Moves(i, "reach", "extension") => Fits(i)' /\ IsEarly(i)'
    BY <1>1, <1>3 DEF Moves, Fits, IsEarly, PastCatalog, PastExtension, PastWidth, Ended
  <2> QED BY <2>1, <2>2, <1>4
<1>6. CASE LookForExtension(i)
  <2> DEFINE to == IF database.extension THEN "catalog" ELSE "enable"
  <2>1. Goes(i, "extension", to) /\ to \in PCs
    BY <1>6 DEF LookForExtension, Looks
  <2>2. Moves(i, "extension", to) => Fits(i)' /\ IsEarly(i)'
    BY <1>1, <1>3 DEF Moves, Fits, IsEarly, PastCatalog, PastExtension, PastWidth, Ended
  <2> HIDE DEF to
  <2> QED BY <2>1, <2>2, <1>4
<1>7. CASE LookForCatalog(i)
  <2> DEFINE to == IF database.catalog THEN "vectors" ELSE "create"
  <2>1. Goes(i, "catalog", to) /\ to \in PCs
    BY <1>7 DEF LookForCatalog, Looks
  <2>2. Moves(i, "catalog", to) => Fits(i)' /\ IsEarly(i)'
    BY <1>1, <1>3 DEF Moves, Fits, IsEarly, PastCatalog, PastExtension, PastWidth, Ended
  <2> HIDE DEF to
  <2> QED BY <2>1, <2>2, <1>4
<1>8. CASE LookForVectors(i)
  <2> DEFINE to == IF database.column # NoTable THEN "width" ELSE "establish"
  <2>1. Goes(i, "vectors", to) /\ to \in PCs
    BY <1>8 DEF LookForVectors, Looks
  <2>2. Moves(i, "vectors", to) => Fits(i)' /\ IsEarly(i)'
    BY <1>1, <1>3 DEF Moves, Fits, IsEarly, PastCatalog, PastExtension, PastWidth, Ended
  <2> HIDE DEF to
  <2> QED BY <2>1, <2>2, <1>4
<1>9. CASE CheckWidth(i)
  <2>1. Goes(i, "width", "model") /\ database.column = Width[model[i]]
    BY <1>9 DEF CheckWidth
  <2>2. Moves(i, "width", "model") => Fits(i)' /\ IsEarly(i)'
    BY <1>1, <1>3, <2>1
       DEF Moves, Fits, IsEarly, PastCatalog, PastExtension, PastWidth, Ended
  <2> QED BY <2>1, <2>2, <1>4
<1>10. CASE ReadModel(i)
  <2> DEFINE to == IF database.recorded # {} THEN "running" ELSE "record"
  <2>1. Goes(i, "model", to) /\ to \in PCs
    BY <1>10 DEF ReadModel, Looks
  <2>2. database.recorded = {} \/ model[i] \in database.recorded
    BY <1>10 DEF ReadModel
  <2>3. Moves(i, "model", to) => Fits(i)' /\ IsEarly(i)'
    BY <1>1, <1>3, <2>2
       DEF Moves, Fits, IsEarly, PastCatalog, PastExtension, PastWidth, Ended
  <2> HIDE DEF to
  <2> QED BY <2>1, <2>3, <1>4
<1> QED BY <1>5, <1>6, <1>7, <1>8, <1>9, <1>10

\* The steps that add to the database.
LEMMA ChangesKeep ==
    ASSUME Inv, NEW i \in Instances,
           Enable(i) \/ CreateCatalog(i) \/ EstablishVectors(i) \/ RecordModel(i)
    PROVE  Inv'
<1> USE DEF PCs
<1>1. UNCHANGED <<server, model, faults>>
  BY DEF Enable, CreateCatalog, EstablishVectors, RecordModel
<1>2. faults' \in 0..MaxFaults /\ TypeOK /\ Fits(i) /\ IsEarly(i)
  BY <1>1 DEF Inv, TypeOK
<1>3. ASSUME NEW from, NEW to \in PCs, Goes(i, from, to), Grows, database' \in Databases,
             Moves(i, from, to) => Fits(i)' /\ IsEarly(i)'
      PROVE  Inv'
  BY <1>1, <1>2, <1>3, GoingKeeps
<1>4. CASE Enable(i)
  <2>1. Goes(i, "enable", "catalog") /\ Grows /\ database' \in Databases
    BY <1>2, <1>4, EnableGrows DEF Enable
  <2>2. database'.extension
    BY <1>2, <1>4, EnableGrows
  <2>3. Moves(i, "enable", "catalog") => Fits(i)' /\ IsEarly(i)'
    BY <1>2, <2>1, <2>2
       DEF Grows, Moves, Fits, IsEarly, PastCatalog, PastExtension, PastWidth, Ended
  <2> QED BY <2>1, <2>3, <1>3
<1>5. CASE CreateCatalog(i)
  <2>1. Goes(i, "create", "vectors") /\ Grows /\ database' \in Databases
    BY <1>2, <1>5, CreateGrows DEF CreateCatalog
  <2>2. database'.catalog
    BY <1>2, <1>5, CreateGrows
  <2>3. Moves(i, "create", "vectors") => Fits(i)' /\ IsEarly(i)'
    BY <1>2, <2>1, <2>2
       DEF Grows, Moves, Fits, IsEarly, PastCatalog, PastExtension, PastWidth, Ended
  <2> QED BY <2>1, <2>3, <1>3
<1>6. CASE EstablishVectors(i)
  <2>1. Goes(i, "establish", "width") /\ Grows /\ database' \in Databases
    BY <1>2, <1>6, EstablishGrows DEF EstablishVectors
  <2>2. Moves(i, "establish", "width") => Fits(i)' /\ IsEarly(i)'
    BY <1>2, <2>1
       DEF Grows, Moves, Fits, IsEarly, PastCatalog, PastExtension, PastWidth, Ended
  <2> QED BY <2>1, <2>2, <1>3
<1>7. CASE RecordModel(i)
  <2>1. Goes(i, "record", "running") /\ Grows /\ database' \in Databases
    BY <1>2, <1>7, RecordGrows DEF RecordModel
  <2>2. model[i] \in database'.recorded /\ database'.column = database.column
    BY <1>2, <1>7, RecordGrows
  <2>3. Moves(i, "record", "running") => Fits(i)' /\ IsEarly(i)'
    BY <1>1, <1>2, <2>1, <2>2
       DEF Grows, Moves, Fits, IsEarly, PastCatalog, PastExtension, PastWidth, Ended
  <2> QED BY <2>1, <2>3, <1>3
<1> QED BY <1>4, <1>5, <1>6, <1>7

LEMMA RefusalsKeep ==
    ASSUME Inv, NEW i \in Instances,
           \/ RefuseExtension(i) \/ EnableRaises(i) \/ CreateCatalogRaises(i)
           \/ EstablishRaises(i) \/ RefuseWidth(i) \/ RefuseModel(i) \/ RecordRaises(i)
    PROVE  Inv'
<1>1. \E from \in PCs : Raises(i, from)
  BY DEF RefuseExtension, EnableRaises, CreateCatalogRaises, EstablishRaises, RefuseWidth,
         RefuseModel, RecordRaises, PCs
<1>2. UNCHANGED <<server, database, model, faults>>
  BY DEF RefuseExtension, EnableRaises, CreateCatalogRaises, EstablishRaises, RefuseWidth,
         RefuseModel, RecordRaises, Unmoved
<1>3. faults' \in 0..MaxFaults
  BY <1>2 DEF Inv, TypeOK
<1> QED BY <1>1, <1>2, <1>3, RaisingKeeps

LEMMA DyingKeeps ==
    ASSUME Inv, NEW i \in Instances, Dies(i)
    PROVE  Inv'
<1>1. faults' \in 0..MaxFaults
  BY StartupAssumption DEF Inv, TypeOK, Dies
<1> QED BY <1>1, RaisingKeeps DEF Dies

LEMMA InitHasInv ==
    ASSUME Init
    PROVE  Inv
<1>1. TypeOK
  <2>1. PICK column \in {NoTable, Foreign} : database = [Fresh EXCEPT !.column = column]
    BY DEF Init
  <2>2. database \in Databases
    BY <2>1 DEF Databases, Fresh
  <2>3. /\ pc \in [Instances -> PCs]
        /\ faults \in 0..MaxFaults
    BY StartupAssumption DEF Init, PCs
  <2> QED BY <2>2, <2>3 DEF Init, TypeOK
<1>2. \A i \in Instances : pc[i] = "down"
  BY DEF Init
<1> QED BY <1>1, <1>2 DEF Inv, Fits, IsEarly, PastCatalog, PastExtension, PastWidth, Ended

LEMMA NextKeepsInv ==
    ASSUME Inv, [Next]_vars
    PROVE  Inv'
<1>1. CASE UNCHANGED vars
  BY <1>1 DEF vars, Inv, TypeOK, Fits, IsEarly
<1>2. ASSUME NEW i \in Instances, Step(i) PROVE Inv'
  BY <1>2, LooksKeep, ChangesKeep, RefusalsKeep DEF Step
<1> QED BY <1>1, <1>2, StartKeeps, DyingKeeps DEF Next

LEMMA InvHolds == Spec => []Inv
BY InitHasInv, NextKeepsInv, PTL DEF Spec

-----------------------------------------------------------------------------
(* The theorems.                                                           *)

\* The database, the places and the early stay in their types.
THEOREM TypeCorrect == Spec => []TypeOK
<1>1. Inv => TypeOK
  BY DEF Inv
<1> QED BY <1>1, InvHolds, PTL

\* However many instances of however many models start, die and start again, one
\* serves only from a collection that is all there and of its model (store.py
\* _validate_collection).
THEOREM ServingFits == Spec => []RunningFits
<1>1. Inv => RunningFits
  BY DEF Inv, Fits, RunningFits, PastCatalog, PastExtension, PastWidth
<1> QED BY <1>1, InvHolds, PTL

\* Once a model is recorded and no start-up is under way that began before, no
\* model is ever added: the last check a start-up makes is enough for that
\* (store.py _validate_collection).
THEOREM RecordsAreFinal == Spec => RecordIsFinal
<1>1. ASSUME Inv, [Next]_vars
      PROVE  [Settled => database.recorded' = database.recorded]_vars
  <2>1. ASSUME NEW i \in Instances, Start(i) \/ Dies(i)
        PROVE  UNCHANGED database
    BY <2>1 DEF Start, Dies
  <2>2. ASSUME NEW i \in Instances, Step(i), Settled
        PROVE  database.recorded' = database.recorded
    <3>1. ~RecordModel(i)
      BY <1>1, <2>2 DEF RecordModel, Goes, Inv, IsEarly, Settled
    <3>2. CASE Enable(i) \/ CreateCatalog(i) \/ EstablishVectors(i)
      BY <1>1, <3>2 DEF Enable, CreateCatalog, EstablishVectors, Inv, TypeOK, Databases
    <3>3. CASE ~(Enable(i) \/ CreateCatalog(i) \/ EstablishVectors(i))
      BY <2>2, <3>1, <3>3
         DEF Step, Reach, LookForExtension, RefuseExtension, EnableRaises, LookForCatalog,
             CreateCatalogRaises, LookForVectors, EstablishRaises, CheckWidth, RefuseWidth,
             ReadModel, RefuseModel, RecordRaises, Looks, Unmoved
    <3> QED BY <3>2, <3>3
  <2> QED BY <1>1, <2>1, <2>2 DEF Next
<1> QED BY <1>1, InvHolds, PTL DEF Spec, RecordIsFinal
=============================================================================
