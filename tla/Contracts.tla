------------------------------ MODULE Contracts -------------------------------
(* The schema registry of ContractValidationEngine, src/src/contracts.py: the  *)
(* schemas by id, and the index of their ids by name and version.  Several     *)
(* schemas may carry one name and version; the index knows the one registered  *)
(* last.  What validate checks is in ContractRules; here it only looks schemas *)
(* up, and its counters are left out.                                          *)
EXTENDS Naturals, FiniteSets, Sequences

CONSTANTS
  Ids,          \* the ids that uuid4 will yield
  Names,
  Versions,
  NoSchema, NoId,
  MaxSchemas    \* max_schemas

Schema == [name : Names, version : Versions]

\* What the constants are, assumed by the modules that use this one.
RegistryAssumption ==
  /\ IsFiniteSet(Ids)
  /\ NoSchema \notin Schema
  /\ NoId \notin Ids
  /\ MaxSchemas \in Nat

VARIABLES
  schemas,      \* _schemas
  index,        \* _name_index
  registered    \* every id that was registered, in that order

vars == <<schemas, index, registered>>

Stored(s) == schemas[s] # NoSchema

EmptyIndex == [n \in Names |-> [v \in Versions |-> NoId]]

Init ==
  /\ schemas = [s \in Ids |-> NoSchema]
  /\ index = EmptyIndex
  /\ registered = <<>>

-------------------------------------------------------------------------------
(* register_schema                                                             *)

\* Mutant: a version that is indexed already keeps its schema.
IndexIfNew(n, v, s) == IF index[n][v] = NoId THEN [index EXCEPT ![n][v] = s] ELSE index

IndexWith(n, v, s) == [index EXCEPT ![n][v] = s]

SchemaFor(n, v) == [name |-> n, version |-> v]

IsNew(s) == \A i \in 1..Len(registered) : registered[i] # s

Register(s, n, v) ==
  /\ IsNew(s)
  /\ Cardinality({t \in Ids : Stored(t)}) < MaxSchemas
  /\ schemas' = [schemas EXCEPT ![s] = SchemaFor(n, v)]
  /\ index' = IndexWith(n, v, s)
  /\ registered' = Append(registered, s)

-------------------------------------------------------------------------------
(* delete_schema, clear                                                        *)

\* Mutant: the index is left alone.
IndexKept(n, v) == index

\* Whatever id is indexed there.
IndexWithout(n, v) == [index EXCEPT ![n][v] = NoId]

Delete(s) ==
  /\ Stored(s)
  /\ schemas' = [schemas EXCEPT ![s] = NoSchema]
  /\ index' = IndexWithout(schemas[s].name, schemas[s].version)
  /\ UNCHANGED registered

Clear ==
  /\ schemas' = [s \in Ids |-> NoSchema]
  /\ index' = EmptyIndex
  /\ UNCHANGED registered

-------------------------------------------------------------------------------
Next ==
  \/ \E s \in Ids, n \in Names, v \in Versions : Register(s, n, v)
  \/ \E s \in Ids : Delete(s)
  \/ Clear

Spec == Init /\ [][Next]_vars

-------------------------------------------------------------------------------
TypeOK ==
  /\ schemas \in [Ids -> Schema \cup {NoSchema}]
  /\ index \in [Names -> [Versions -> Ids \cup {NoId}]]
  /\ registered \in Seq(Ids)

\* A look-up by name never runs into an id that is gone, and finds a schema of that
\* very name and version, although schemas of one name and version are registered
\* and deleted in any order.
IndexIsLive ==
  \A n \in Names, v \in Versions :
    index[n][v] # NoId => schemas[index[n][v]] = SchemaFor(n, v)

Turn(s) == CHOOSE i \in 1..Len(registered) : registered[i] = s

\* The schema found by name and version is the one of them registered last.
IndexIsNewest ==
  \A n \in Names, v \in Versions, s \in Ids :
    (index[n][v] # NoId /\ schemas[s] = [name |-> n, version |-> v])
      => Turn(s) <= Turn(index[n][v])

\* "Retrieve schema by unique ID or by name and optional version"
\* (contracts.py:180): a schema that is stored is found by its name and version, or
\* another of the same name and version is.
FoundByName ==
  \A s \in Ids : Stored(s) => index[schemas[s].name][schemas[s].version] # NoId
===============================================================================
