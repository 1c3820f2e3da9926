---------------------------- MODULE FlywayProofs ----------------------------
(***************************************************************************)
(* Proofs about Flyway's rules: what validate says of a history while      *)
(* migrate works on it, for every script set and every history.            *)
(***************************************************************************)
EXTENDS Flyway, TLAPS

\* Only versions of the scripts found can be pending.
LEMMA PendingFacts ==
    ASSUME NEW rows, NEW content \in ScriptSets
    PROVE  Pending(rows, content) \subseteq Versions /\ Versions \subseteq Nat
BY DEF Pending, ScriptSets, Versions

-----------------------------------------------------------------------------
\* What running one of the scripts makes of a history.
LEMMA AppendScript ==
    ASSUME NEW rows \in Seq(Rows), NEW content \in ScriptSets, NEW v \in DOMAIN content
    PROVE  LET more == Append(rows, SqlRow(v, content[v])) IN
           /\ Len(rows) \in Nat /\ Len(more) = Len(rows) + 1
           /\ \A i \in 1..Len(rows) : i \in 1..Len(more) /\ more[i] = rows[i]
           /\ \A i \in 1..Len(more) : i \in 1..Len(rows) \/ i = Len(more)
           /\ more[Len(more)].version = v
           /\ more[Len(more)].checksum = content[v]
<1>. DEFINE row  == SqlRow(v, content[v])
            more == Append(rows, row)
<1>1. row \in Rows /\ row.version = v /\ row.checksum = content[v]
  BY DEF SqlRow, Rows, ScriptSets
<1>. HIDE DEF row
<1>2. /\ Len(rows) \in Nat /\ Len(more) = Len(rows) + 1
      /\ more[Len(more)] = row
      /\ \A i \in 1..Len(rows) : more[i] = rows[i]
  BY <1>1
<1>. HIDE DEF more
<1>3. /\ \A i \in 1..Len(rows) : i \in 1..Len(more)
      /\ \A i \in 1..Len(more) : i \in 1..Len(rows) \/ i = Len(more)
  BY <1>2
<1>. QED  BY <1>1, <1>2, <1>3 DEF row, more

\* A pending script that ran is recorded with the checksum of its file.
LEMMA ChangedKept ==
    ASSUME NEW rows \in Seq(Rows), NEW content \in ScriptSets,
           NEW v \in Pending(rows, content),
           Changed(rows, content) = {}
    PROVE  Changed(Append(rows, SqlRow(v, content[v])), content) = {}
<1>. DEFINE more == Append(rows, SqlRow(v, content[v]))
<1>1. v \in DOMAIN content /\ v \in Versions /\ content[v] \in Checksums
  BY PendingFacts DEF Pending, ScriptSets
<1>. SUFFICES ASSUME NEW i \in Changed(more, content)  PROVE FALSE
  OBVIOUS
<1>2. /\ i \in 1..Len(more) /\ more[i].kind = "SQL"
      /\ more[i].version \in DOMAIN content
      /\ content[more[i].version] # more[i].checksum
  BY DEF Changed, Scripted
<1>3. /\ \A j \in 1..Len(rows) : more[j] = rows[j]
      /\ \A j \in 1..Len(more) : j \in 1..Len(rows) \/ j = Len(more)
      /\ more[Len(more)].version = v /\ more[Len(more)].checksum = content[v]
  BY <1>1, AppendScript
<1>. HIDE DEF more
<1>4. CASE i \in 1..Len(rows)
  BY <1>2, <1>3, <1>4 DEF Changed, Scripted
<1>5. CASE i = Len(more)
  BY <1>2, <1>3, <1>5
<1>. QED  BY <1>2, <1>3, <1>4, <1>5

\* Running the oldest pending script leaves no script behind.
LEMMA IgnoredKept ==
    ASSUME NEW rows \in Seq(Rows), NEW content \in ScriptSets,
           NEW v, NextScript(rows, content, v),
           Ignored(rows, content) = {}
    PROVE  Ignored(Append(rows, SqlRow(v, content[v])), content) = {}
<1>. DEFINE more == Append(rows, SqlRow(v, content[v]))
<1>1. /\ v \in DOMAIN content /\ v \in Versions /\ content[v] \in Checksums
      /\ v \in Nat /\ v \in Pending(rows, content)
  BY PendingFacts DEF NextScript, Pending, ScriptSets
<1>. SUFFICES ASSUME NEW w \in Ignored(more, content)  PROVE FALSE
  OBVIOUS
<1>2. /\ w \in DOMAIN content
      /\ w \notin Recorded(more) /\ w \notin Pending(more, content)
      /\ \A i \in 1..Len(more) : more[i].kind = "BASELINE" => more[i].version < w
  BY DEF Ignored
<1>3. w \in Nat
  BY <1>2 DEF ScriptSets, Versions
<1>4. /\ \A i \in 1..Len(rows) : i \in 1..Len(more) /\ more[i] = rows[i]
      /\ \A i \in 1..Len(more) : i \in 1..Len(rows) \/ i = Len(more)
      /\ more[Len(more)].version = v
      /\ Len(rows) \in Nat /\ Len(more) = Len(rows) + 1
  BY <1>1, AppendScript
<1>. HIDE DEF more
<1>9. Len(more) \in 1..Len(more)
  BY <1>4
<1>5. w \notin Recorded(rows)
  BY <1>2, <1>4 DEF Recorded
<1>6. w # v
  BY <1>2, <1>4, <1>9 DEF Recorded
<1>7. CASE w \in Pending(rows, content)
  <2>1. v < w
    BY <1>1, <1>3, <1>6, <1>7 DEF NextScript
  <2>2. w \in Pending(more, content)
    BY <1>2, <1>4, <1>7, <2>1 DEF Pending
  <2>. QED  BY <1>2, <2>2
<1>8. CASE w \notin Pending(rows, content)
  <2>1. \A i \in 1..Len(rows) : rows[i].kind = "BASELINE" => rows[i].version < w
    BY <1>2, <1>4
  <2>. QED  BY <1>2, <1>5, <1>8, <2>1 DEF Ignored
<1>. QED  BY <1>7, <1>8

\* A pending script that ran is neither unknown nor gone.
LEMMA FutureAndMissingKept ==
    ASSUME NEW rows \in Seq(Rows), NEW content \in ScriptSets,
           NEW v \in Pending(rows, content),
           Future(rows, content) = {}, Missing(rows, content) = {}
    PROVE  /\ Future(Append(rows, SqlRow(v, content[v])), content) = {}
           /\ Missing(Append(rows, SqlRow(v, content[v])), content) = {}
<1>. DEFINE more == Append(rows, SqlRow(v, content[v]))
<1>1. v \in DOMAIN content /\ v \in Versions /\ content[v] \in Checksums /\ v \in Nat
  BY PendingFacts DEF Pending, ScriptSets
<1>2. /\ \A i \in 1..Len(rows) : more[i] = rows[i]
      /\ \A i \in 1..Len(more) : i \in 1..Len(rows) \/ i = Len(more)
      /\ more[Len(more)].version = v
  BY <1>1, AppendScript
<1>. HIDE DEF more
<1>4. \A i \in Scripted(more) : i \in Scripted(rows) \/ more[i].version = v
  BY <1>2 DEF Scripted
<1>5. \A i \in Scripted(rows) : more[i] = rows[i]
  BY <1>2 DEF Scripted
<1>6. Future(more, content) = {}
  BY <1>1, <1>4, <1>5 DEF Future
<1>7. Missing(more, content) = {}
  BY <1>1, <1>4, <1>5, <1>6 DEF Missing, Future
<1>. QED  BY <1>6, <1>7 DEF more

-----------------------------------------------------------------------------
\* A history that validates, except for what is still to run, does so after
\* every pass of migrate: no pass makes a script changed, skipped, unknown or
\* missing (flyway.migrate, DBMigratorHandler.java:134).
THEOREM MigrateKeepsValid ==
    ASSUME NEW rows \in Seq(Rows), NEW content \in ScriptSets,
           NEW v, NextScript(rows, content, v),
           Valid(rows, content, {"pending"})
    PROVE  Valid(Append(rows, SqlRow(v, content[v])), content, {"pending"})
<1>1. v \in Pending(rows, content)
  BY DEF NextScript
<1>2. /\ Changed(rows, content) = {} /\ Ignored(rows, content) = {}
      /\ Future(rows, content) = {} /\ Missing(rows, content) = {}
  BY DEF Valid
<1>. QED  BY <1>1, <1>2, ChangedKept, IgnoredKept, FutureAndMissingKept DEF Valid

\* When nothing is left to run, nothing had to be excused.
LEMMA ValidWhenDone ==
    ASSUME NEW rows, NEW content,
           Pending(rows, content) = {}, Valid(rows, content, {"pending"})
    PROVE  Valid(rows, content, {})
BY DEF Valid

\* A baseline stands for version 1 and skips nothing.
LEMMA BaselineIsValid ==
    ASSUME NEW content \in ScriptSets
    PROVE  Valid(<<BaselineRow>>, content, {"pending"})
<1>. DEFINE rows == <<BaselineRow>>
<1>1. /\ Len(rows) = 1 /\ rows[1].version = 1 /\ rows[1].kind = "BASELINE"
  BY DEF BaselineRow
<1>2. DOMAIN content \subseteq Nat \ {0}
  BY DEF ScriptSets, Versions
<1>. HIDE DEF rows
<1>3. Scripted(rows) = {}
  BY <1>1 DEF Scripted
<1>4. Ignored(rows, content) = {}
  BY <1>1, <1>2 DEF Ignored, Recorded, Pending
<1>. QED  BY <1>3, <1>4 DEF Valid, Changed, Future, Missing, rows

\* A row whose script is still among those found: the directory has lost
\* nothing of what was applied, and nothing in it was edited since.
LEMMA ValidKnowsTheRows ==
    ASSUME NEW rows, NEW content, NEW ignore,
           Valid(rows, content, ignore), ignore \subseteq {"pending"},
           NEW i \in Scripted(rows)
    PROVE  rows[i].version \in DOMAIN content /\ content[rows[i].version] = rows[i].checksum
BY DEF Valid, Changed, Missing

\* What validates has every script recorded, or standing behind a baseline.
LEMMA ValidHasTheScripts ==
    ASSUME NEW rows, NEW content, Valid(rows, content, {}), NEW v \in DOMAIN content
    PROVE  \/ v \in Recorded(rows)
           \/ \E i \in 1..Len(rows) : rows[i].kind = "BASELINE" /\ ~ (rows[i].version < v)
BY DEF Valid, Ignored
=============================================================================
