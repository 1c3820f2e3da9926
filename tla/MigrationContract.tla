------------------------- MODULE MigrationContract -------------------------
(***************************************************************************)
(* What the custom resource Custom::DBMigrator promises to the stack that  *)
(* declares it, without Lambda, files, retries or answers: CloudFormation  *)
(* creates, updates, rolls back and deletes one resource whose property is *)
(* an asset of scripts, and the schema behind it holds the scripts of the  *)
(* asset whenever such an operation succeeds.                              *)
(*                                                                         *)
(* Migrate is not part of an operation: an invocation that was given up    *)
(* may still run scripts later, but only those of an asset asked for.      *)
(***************************************************************************)
EXTENDS Integers

CONSTANTS
    None,       \* stands for no asset
    Assets,     \* what the property of the resource may be
    Scripts     \* [Assets -> sets of versions]

VARIABLES
    resource,   \* its status, the asset it has, the asset asked for
    schema,     \* the versions recorded in the database
    requested   \* every asset that was ever asked for

vars == <<resource, schema, requested>>

Open == {"creating", "updating", "rollingBack", "deleting"}

Init ==
    /\ resource = [status |-> "none", asset |-> None, target |-> None]
    /\ schema = {}
    /\ requested = {}

Request(status, a) ==
    /\ resource' = [status |-> status, asset |-> resource.asset, target |-> a]
    /\ requested' = requested \cup {a}
    /\ UNCHANGED schema

Deploy(a) ==
    \/ resource.status = "none" /\ Request("creating", a)
    \/ resource.status = "live" /\ Request("updating", a)

RollBack ==
    /\ resource.status \in {"updateFailed", "rollbackFailed"}
    /\ Request("rollingBack", resource.asset)

Destroy ==
    /\ resource.status \in {"live", "createFailed", "rollbackFailed", "deleteFailed"}
    /\ Request("deleting", resource.target)

\* An operation succeeds only over the scripts of its asset; a delete needs
\* nothing of the database, and changes nothing there.
Succeed ==
    /\ resource.status \in Open
    /\ resource.status # "deleting" => Scripts[resource.target] \subseteq schema
    /\ resource' = [status |-> IF resource.status = "deleting" THEN "none" ELSE "live",
                    asset  |-> IF resource.status = "deleting" THEN None ELSE resource.target,
                    target |-> resource.target]
    /\ UNCHANGED <<schema, requested>>

Failed ==
    [creating |-> "createFailed", updating |-> "updateFailed",
     rollingBack |-> "rollbackFailed", deleting |-> "deleteFailed"]

Fail ==
    /\ resource.status \in Open
    /\ resource' = [resource EXCEPT !.status = Failed[resource.status]]
    /\ UNCHANGED <<schema, requested>>

\* The next script of some asset asked for: no older one is passed over.
Migrate(v) ==
    /\ v \notin schema
    /\ \E a \in requested :
         /\ v \in Scripts[a]
         /\ \A w \in Scripts[a] : w < v => w \in schema
    /\ schema' = schema \cup {v}
    /\ UNCHANGED <<resource, requested>>

Next ==
    \/ \E a \in Assets : Deploy(a)
    \/ RollBack
    \/ Destroy
    \/ Succeed
    \/ Fail
    \/ \E a \in Assets : \E v \in Scripts[a] : Migrate(v)

Spec == Init /\ [][Next]_vars
=============================================================================
