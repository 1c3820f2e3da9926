------------------------------- MODULE Flyway -------------------------------
(***************************************************************************)
(* The schema history rules of Flyway Community, as far as this repository *)
(* relies on them.  Flyway itself is a library: what is stated here is     *)
(* what the migration function and the flyway container expect of          *)
(* info/validate/migrate, under the options that they set.                 *)
(*                                                                         *)
(* A script set ("content") is a function from the versions found in a     *)
(* directory of V<n>__*.sql files to their checksums.  The history is a    *)
(* sequence of rows: an applied script, or the marker a baseline leaves.   *)
(***************************************************************************)
EXTENDS Integers, Sequences

CONSTANTS
    MaxVersion,     \* the highest script version that exists
    Checksums       \* the checksums scripts may have

ASSUME FlywayAssumption ==
    /\ MaxVersion \in Nat \ {0}
    /\ Checksums # {}

Versions == 1..MaxVersion

ScriptSets == UNION {[S -> Checksums] : S \in SUBSET Versions}

\* The marker has no checksum of its own; it borrows one nobody compares.
NoChecksum == CHOOSE c \in Checksums : TRUE

Rows == [version : Versions, checksum : Checksums, kind : {"SQL", "BASELINE"}]

SqlRow(v, c) == [version |-> v, checksum |-> c, kind |-> "SQL"]

\* baselineVersion is left at its default, version 1.
BaselineRow == [version |-> 1, checksum |-> NoChecksum, kind |-> "BASELINE"]

-----------------------------------------------------------------------------
(***************************************************************************)
(* The state Flyway gives each script and each row.                        *)
(***************************************************************************)

Recorded(rows) == {rows[i].version : i \in 1..Len(rows)}

Scripted(rows) == {i \in 1..Len(rows) : rows[i].kind = "SQL"}

\* A resolved script newer than everything recorded.
Pending(rows, content) ==
    {v \in DOMAIN content : \A i \in 1..Len(rows) : rows[i].version < v}

\* A resolved script that is not recorded and is older than some row: with
\* out-of-order migrations off it will never run, unless the baseline
\* stands for it.
Ignored(rows, content) ==
    {v \in DOMAIN content :
        /\ v \notin Recorded(rows) \cup Pending(rows, content)
        /\ \A i \in 1..Len(rows) : rows[i].kind = "BASELINE" => rows[i].version < v}

\* An applied script newer than everything resolved.
Future(rows, content) ==
    {i \in Scripted(rows) : \A w \in DOMAIN content : w < rows[i].version}

\* An applied script that is not resolved, although a newer one is.
Missing(rows, content) ==
    {i \in Scripted(rows) \ Future(rows, content) : rows[i].version \notin DOMAIN content}

\* An applied script whose file has been edited since.
Changed(rows, content) ==
    {i \in Scripted(rows) :
        /\ rows[i].version \in DOMAIN content
        /\ content[rows[i].version] # rows[i].checksum}

(***************************************************************************)
(* validate, given the states that ignoreMigrationPatterns excuses.        *)
(***************************************************************************)
Valid(rows, content, ignore) ==
    /\ Changed(rows, content) = {}
    /\ "pending" \in ignore \/ Pending(rows, content) = {}
    /\ "ignored" \in ignore \/ Ignored(rows, content) = {}
    /\ "future"  \in ignore \/ Future(rows, content)  = {}
    /\ "missing" \in ignore \/ Missing(rows, content) = {}

\* The script one locked pass of migrate runs: the oldest pending one.
NextScript(rows, content, v) ==
    /\ v \in Pending(rows, content)
    /\ \A w \in Pending(rows, content) : v <= w

=============================================================================
