--------------------------- MODULE SchemaRegistry ---------------------------
(***************************************************************************)
(* The broker's schema registry for one subject, as its clients see it     *)
(* (danube/proto/SchemaRegistry.proto and the integration tests), and the  *)
(* calls of danube/schema_registry_client.py that read or change it. A     *)
(* subject keeps its schema_id for good (test_schema_subject.py:86), so a  *)
(* schema is told by its version; versions are numbered from 1 and a       *)
(* deleted number is not given out again.                                  *)
(***************************************************************************)
EXTENDS Integers

CONSTANT MaxVersion   \* bound on the versions ever registered

ASSUME SchemaRegistryAssumption == MaxVersion \in Nat \ {0}

VARIABLES versions,   \* the versions that exist
          top         \* the last version number given out

registryVars == <<versions, top>>

NoVersion == 0

RegistryTypeOK ==
    /\ top \in 1 .. MaxVersion
    /\ versions \subseteq 1 .. top

\* The subject has its first version.
RegistryInit == top = 1 /\ versions = {1}

\* get_latest_schema: the newest version, or none (answered NOT_FOUND).
get_latest_schema ==
    IF versions = {} THEN NoVersion
    ELSE CHOOSE v \in versions : \A w \in versions : w <= v

\* get_schema_version: that version, or none.
get_schema_version(version) ==
    IF version \in versions THEN version ELSE NoVersion

(***************************************************************************)
(* SchemaRegistrationBuilder.execute, by any application. Without a type   *)
(* or without data it raises ValueError and sends nothing, and a           *)
(* definition that the subject has already makes no new version: no steps. *)
(***************************************************************************)
RegisterSchema ==
    /\ top < MaxVersion
    /\ top' = top + 1
    /\ versions' = versions \cup {top + 1}

\* delete_schema_version.
DeleteSchemaVersion(v) ==
    /\ v \in versions
    /\ versions' = versions \ {v}
    /\ UNCHANGED top

RegistryStep == RegisterSchema \/ \E v \in 1 .. MaxVersion : DeleteSchemaVersion(v)
=============================================================================
