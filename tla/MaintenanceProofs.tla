-------------------------- MODULE MaintenanceProofs --------------------------
(***************************************************************************)
(* Theorems about Maintenance and the part of Catalogue it runs, for every *)
(* set of migration files, requests and backups, any bounds and any number *)
(* of crashes.                                                             *)
(***************************************************************************)
EXTENDS Maintenance, Integers, FiniteSetTheorems, SequenceTheorems, WellFoundedInduction, TLAPS

\* Statements of the version that is being applied.
Begun(s) == phase = "migrating" /\ pending # {} /\ s[1] = Version /\ s[2] < next

\* A start that goes by schema_migrations applies exactly what is missing, one
\* version after the other; and as long as no start was cut off there is
\* nothing in the schema that is not recorded but what this one has put there.
MigrationOrder ==
  /\ applied \subseteq Statements /\ recorded \subseteq DOMAIN Scripts
  /\ phase = "migrating" => pending = DOMAIN Scripts \ recorded
  /\ phase = "migrating" /\ pending # {} =>
       /\ next \in 1 .. Len(Scripts[Version]) + 1
       /\ \A k \in 1 .. next - 1 : <<Version, k>> \in applied
  /\ ~cut => \A s \in applied : s[1] \in recorded \/ Begun(s)

SchemaInv == MigrationOrder /\ SchemaIsComplete

\* What rows of the two tables hold.
Names == {r.name : r \in {q \in Requests : q.kind = "create"}}

\* No row of a table has an id that was not given out.
IdsGiven ==
  /\ DOMAIN saved = Tables /\ lastId \in [Tables -> Nat]
  /\ \A t \in Tables : \A i \in DOMAIN saved[t] :
       i \in Nat /\ i <= lastId[t] /\ saved[t][i] \in Names

\* What a request about a saved thing knows: one that creates it, what it is;
\* one that a client made of a row it saw, an id that was given out and what
\* the row held, which it holds still if it is there.
Knows(r) ==
  /\ "pc" \in DOMAIN r
  /\ r.pc = "create" => r.req \in Requests /\ r.req.kind = "create"
  /\ r.pc \in {"delete", "run"} =>
       /\ r.req.table \in Tables /\ r.id \in Nat /\ r.id <= lastId[r.req.table]
       /\ r.id \in DOMAIN saved[r.req.table] => saved[r.req.table][r.id] = r.text

PickInv ==
  /\ IdsGiven
  /\ DOMAIN call = Callers /\ \A c \in Callers : Knows(call[c])
  /\ runs \in Seq({<<x, x>> : x \in Names})

-----------------------------------------------------------------------------

\* A non-empty set of natural numbers has a least element.
LEMMA MinExists ==
  ASSUME NEW S \in SUBSET Nat, S # {}
  PROVE  Min(S) \in S /\ \A y \in S : Min(S) <= y
<1> DEFINE R == OpToRel(<, Nat)
<1>1. IsWellFoundedOn(R, Nat)
  BY NatLessThanWellFounded
<1>2. ASSUME NEW x \in Nat, NEW y \in Nat, ~(<<y, x>> \in R)
      PROVE  x =< y
  BY <1>2 DEF OpToRel
<1> HIDE DEF R
<1>3. PICK x \in S : \A y \in S : ~(<<y, x>> \in R)
  BY <1>1, WFMin
<1>4. ASSUME NEW y \in S
      PROVE  x =< y
  <2>1. x \in Nat /\ y \in Nat /\ ~(<<y, x>> \in R)
    BY <1>3
  <2> QED
    BY <1>2, <2>1
<1> QED
  BY <1>4 DEF Min

\* What the statements of the migration files are.
LEMMA StatementsAre ==
  /\ \A v, k : <<v, k>> \in Statements <=> v \in DOMAIN Scripts /\ k \in DOMAIN Scripts[v]
  /\ \A s \in Statements : s = <<s[1], s[2]>>
  /\ DOMAIN Scripts \subseteq Nat
  /\ \A v \in DOMAIN Scripts : Len(Scripts[v]) \in Nat /\ DOMAIN Scripts[v] = 1 .. Len(Scripts[v])
<1>1. Scripts \in Seq(Seq([repeatable : BOOLEAN]))
  BY MaintenanceAssumption
<1> QED
  BY <1>1 DEF Statements

\* The version that is next is one that is not recorded.
LEMMA VersionPending ==
  ASSUME MigrationOrder, phase = "migrating", pending # {}
  PROVE  Version \in pending /\ Version \in DOMAIN Scripts /\ Version \notin recorded
<1>1. pending = DOMAIN Scripts \ recorded
  BY DEF MigrationOrder
<1>2. pending \in SUBSET Nat
  BY <1>1, StatementsAre
<1>3. Version \in pending
  BY <1>2, MinExists DEF Version
<1> QED
  BY <1>1, <1>3

-----------------------------------------------------------------------------

\* run_migrations() takes what is not recorded, from its first statement.
LEMMA StartKeeps ==
  ASSUME SchemaInv, Start
  PROVE  SchemaInv'
<1>1. /\ phase = "down" /\ phase' = "migrating" /\ pending' = DOMAIN Scripts \ recorded
      /\ next' = 1 /\ UNCHANGED <<applied, recorded, cut, refused>>
  BY DEF Start, Pending
<1>2. MigrationOrder /\ SchemaIsComplete
  BY DEF SchemaInv
<1>3. pending' # {} => Version' \in DOMAIN Scripts
  <2> HAVE pending' # {}
  <2>1. pending' \in SUBSET Nat
    BY <1>1, StatementsAre
  <2> QED
    BY <1>1, <2>1, MinExists DEF Version
<1>4. pending' # {} => next' \in 1 .. Len(Scripts[Version']) + 1
  BY <1>1, <1>3, StatementsAre
<1>5. MigrationOrder'
  BY <1>1, <1>2, <1>4 DEF MigrationOrder, Begun
<1>6. SchemaIsComplete'
  BY <1>1, <1>2 DEF SchemaIsComplete
<1> QED
  BY <1>5, <1>6 DEF SchemaInv

\* A statement that was not applied before is the next one of its version;
\* one that was, of a version that is not recorded, is what a start that was
\* cut off left.
LEMMA RunStatementKeeps ==
  ASSUME SchemaInv, RunStatement
  PROVE  SchemaInv'
<1> DEFINE s == <<Version, next>>
<1>1. /\ phase = "migrating" /\ pending # {} /\ s \in Statements
      /\ MigrationOrder /\ SchemaIsComplete
  BY DEF RunStatement, SchemaInv
<1>2. Version \in DOMAIN Scripts /\ Version \notin recorded
  BY <1>1, VersionPending
<1>3. /\ next \in Nat \ {0} /\ next \in 1 .. Len(Scripts[Version])
      /\ Len(Scripts[Version]) \in Nat
  BY <1>1, <1>2, StatementsAre
<1>4. CASE s \in applied /\ ~Scripts[s[1]][s[2]].repeatable
  <2>1. /\ phase' = "down" /\ refused' = TRUE /\ UNCHANGED <<applied, recorded, cut>>
    BY <1>4 DEF RunStatement, Abandon
  <2>2. cut
    <3>1. ~Begun(s) /\ s[1] \notin recorded
      BY <1>2, <1>3 DEF Begun
    <3> QED
      BY <1>1, <1>4, <3>1 DEF MigrationOrder
  <2>3. MigrationOrder'
    BY <1>1, <2>1, <2>2 DEF MigrationOrder
  <2>4. SchemaIsComplete'
    BY <1>1, <2>1, <2>2 DEF SchemaIsComplete
  <2> QED
    BY <2>3, <2>4 DEF SchemaInv
<1>5. CASE ~(s \in applied /\ ~Scripts[s[1]][s[2]].repeatable)
  <2>1. /\ applied' = applied \cup {s} /\ next' = next + 1
        /\ UNCHANGED <<phase, recorded, pending, cut, refused>>
    BY <1>5 DEF RunStatement
  <2>2. Version' = Version
    BY <2>1 DEF Version
  <2>3. next' \in 1 .. Len(Scripts[Version]) + 1 /\ next < next'
    BY <1>3, <2>1
  <2>4. \A k \in 1 .. next' - 1 : <<Version, k>> \in applied'
    <3> TAKE k \in 1 .. next' - 1
    <3>1. k \in 1 .. next - 1 \/ k = next
      BY <1>3, <2>1
    <3> QED
      BY <1>1, <2>1, <3>1 DEF MigrationOrder
  <2>5. ASSUME ~cut, NEW x \in applied'
        PROVE  x[1] \in recorded \/ Begun(x)'
    <3>1. CASE x = s
      BY <1>1, <2>1, <2>2, <2>3, <3>1 DEF Begun
    <3>2. CASE x \in applied
      <4>1. x[1] \in recorded \/ Begun(x)
        BY <1>1, <2>5, <3>2 DEF MigrationOrder
      <4>2. x \in Statements
        BY <1>1, <3>2 DEF MigrationOrder
      <4>3. Begun(x) => x[2] < next' /\ x[1] = Version /\ x[2] \in Nat
        BY <1>2, <1>3, <2>1, <4>2, StatementsAre DEF Begun
      <4> QED
        BY <1>1, <2>1, <2>2, <4>1, <4>3 DEF Begun
    <3> QED
      BY <2>1, <3>1, <3>2
  <2>6. MigrationOrder'
    BY <1>1, <2>1, <2>2, <2>3, <2>4, <2>5 DEF MigrationOrder
  <2>7. SchemaIsComplete'
    BY <1>1, <2>1 DEF SchemaIsComplete
  <2> QED
    BY <2>6, <2>7 DEF SchemaInv
<1> QED
  BY <1>4, <1>5

\* A version is recorded after the last of its statements.
LEMMA RecordVersionKeeps ==
  ASSUME SchemaInv, RecordVersion
  PROVE  SchemaInv'
<1>1. /\ phase = "migrating" /\ pending # {} /\ <<Version, next>> \notin Statements
      /\ recorded' = recorded \cup {Version} /\ pending' = pending \ {Version} /\ next' = 1
      /\ UNCHANGED <<phase, applied, cut, refused>>
      /\ MigrationOrder /\ SchemaIsComplete
  BY DEF RecordVersion, ScriptDone, SchemaInv
<1>2. Version \in DOMAIN Scripts /\ Version \notin recorded
  BY <1>1, VersionPending
<1>3. /\ Len(Scripts[Version]) \in Nat /\ DOMAIN Scripts[Version] = 1 .. Len(Scripts[Version])
      /\ next \in 1 .. Len(Scripts[Version]) + 1 /\ next \notin DOMAIN Scripts[Version]
  BY <1>1, <1>2, StatementsAre DEF MigrationOrder
<1>4. \A k \in DOMAIN Scripts[Version] : <<Version, k>> \in applied
  <2>1. next = Len(Scripts[Version]) + 1
    BY <1>3
  <2>2. \A k \in 1 .. next - 1 : <<Version, k>> \in applied
    BY <1>1 DEF MigrationOrder
  <2> QED
    BY <1>3, <2>1, <2>2
<1>5. \A s \in Statements : s[1] \in recorded' => s \in applied'
  <2> TAKE s \in Statements
  <2>1. s = <<s[1], s[2]>> /\ s[2] \in DOMAIN Scripts[s[1]]
    BY StatementsAre
  <2>2. s[1] = Version => s \in applied
    BY <1>4, <2>1
  <2> QED
    BY <1>1, <2>2 DEF SchemaIsComplete
<1>6. SchemaIsComplete'
  BY <1>1, <1>5 DEF SchemaIsComplete
<1>7. pending' # {} => Version' \in DOMAIN Scripts
  <2> HAVE pending' # {}
  <2>1. pending' \in SUBSET Nat /\ pending' \subseteq DOMAIN Scripts
    BY <1>1, StatementsAre DEF MigrationOrder
  <2> QED
    BY <2>1, MinExists DEF Version
<1>8. pending' # {} => next' \in 1 .. Len(Scripts[Version']) + 1
  BY <1>1, <1>7, StatementsAre
<1>9. pending' = DOMAIN Scripts \ recorded' /\ recorded' \subseteq DOMAIN Scripts
  BY <1>1, <1>2 DEF MigrationOrder
<1>10. ASSUME ~cut, NEW x \in applied
       PROVE  x[1] \in recorded'
  BY <1>1, <1>10 DEF MigrationOrder, Begun
<1>11. MigrationOrder'
  BY <1>1, <1>8, <1>9, <1>10 DEF MigrationOrder
<1> QED
  BY <1>6, <1>11 DEF SchemaInv

\* Whatever ends the process or the start: what is missing is missing still.
LEMMA EndKeeps ==
  ASSUME SchemaInv, phase' = "down", UNCHANGED <<applied, recorded, refused>>,
         cut \/ phase = "migrating" => cut'
  PROVE  SchemaInv'
<1>1. MigrationOrder /\ SchemaIsComplete
  BY DEF SchemaInv
<1>2. MigrationOrder'
  BY <1>1 DEF MigrationOrder, Begun
<1>3. refused => cut'
  BY <1>1 DEF MigrationOrder, SchemaIsComplete
<1>4. SchemaIsComplete'
  BY <1>1, <1>3 DEF SchemaIsComplete
<1> QED
  BY <1>2, <1>4 DEF SchemaInv

\* Steps that are not about migrations.
LEMMA OtherKeeps ==
  ASSUME SchemaInv, UNCHANGED <<phase, migration>>
  PROVE  SchemaInv'
BY DEF SchemaInv, MigrationOrder, SchemaIsComplete, Begun, Version, migration

\* Every step keeps the migrations in order.
LEMMA SchemaInvStep == SchemaInv /\ [Next]_vars => SchemaInv'
<1> SUFFICES ASSUME SchemaInv, [Next]_vars PROVE SchemaInv'
  OBVIOUS
<1>1. CASE Start
  BY <1>1, StartKeeps
<1>2. CASE Migrate
  <2>1. CASE RunStatement
    BY <2>1, RunStatementKeeps
  <2>2. CASE RecordVersion
    BY <2>2, RecordVersionKeeps
  <2>3. CASE Up
    <3>1. phase = "migrating" /\ pending = {} /\ phase' = "up" /\ UNCHANGED migration
      BY <2>3 DEF Up
    <3>2. MigrationOrder /\ SchemaIsComplete
      BY DEF SchemaInv
    <3>3. recorded = DOMAIN Scripts
      BY <3>1, <3>2 DEF MigrationOrder
    <3> QED
      BY <3>1, <3>2, <3>3 DEF SchemaInv, MigrationOrder, SchemaIsComplete, Begun, migration
  <2> QED
    BY <1>2, <2>1, <2>2, <2>3 DEF Migrate
<1>3. CASE StatementFails
  <2>1. phase' = "down" /\ cut' /\ UNCHANGED <<applied, recorded, refused>>
    BY <1>3 DEF StatementFails, Abandon
  <2> QED
    BY <2>1, EndKeeps
<1>4. ASSUME NEW left, Down(left)
      PROVE  SchemaInv'
  <2>1. phase' = "down" /\ UNCHANGED <<applied, recorded, refused>>
    BY <1>4 DEF Down, Abandon
  <2>2. cut \/ phase = "migrating" => cut'
    BY <1>4 DEF Down
  <2> QED
    BY <2>1, <2>2, EndKeeps
<1>5. CASE Crash \/ Stop
  BY <1>4, <1>5 DEF Crash, Stop
<1>6. ASSUME NEW b \in Backups, NEW keep \in Retentions, SubmitBackup(b, keep)
      PROVE  SchemaInv'
  BY <1>6, OtherKeeps DEF SubmitBackup
<1>7. ASSUME NEW b \in Backups, BackupStep(b) \/ BackupFails(b) \/ CancelBackup(b)
      PROVE  SchemaInv'
  <2>1. UNCHANGED <<phase, migration>>
    BY <1>7 DEF BackupStep, StartBackup, Snapshot, OpenZip, CloseZip, CleanUp, BackupFails, CancelBackup
  <2> QED
    BY <2>1, OtherKeeps
<1>8. CASE Serve
  BY <1>8, OtherKeeps DEF Serve, upVars, migration
<1>9. CASE UNCHANGED vars
  BY <1>9, OtherKeeps DEF vars, upVars, migration
<1> QED
  BY <1>1, <1>2, <1>3, <1>5, <1>6, <1>7, <1>8, <1>9 DEF Next

\* An empty database is one to which everything is still to be done.
LEMMA SchemaInvInit == Init => SchemaInv
BY DEF Init, SchemaInv, MigrationOrder, SchemaIsComplete

\* While the server is up its schema is complete; a version recorded in
\* schema_migrations has all of its statements done; and a start is refused
\* only after a script was cut off (core/db/migrator.py, run_migrations).
THEOREM SchemaIsCompleteCorrect == Spec => []SchemaIsComplete
<1>1. SchemaInv => SchemaIsComplete
  BY DEF SchemaInv
<1> QED
  BY <1>1, SchemaInvInit, SchemaInvStep, PTL DEF Spec

-----------------------------------------------------------------------------

\* A call that goes on to something that is not about a table.
LEMMA MovesKeeps ==
  ASSUME PickInv, NEW c \in Callers, UNCHANGED tables,
         DOMAIN call' = Callers, \A d \in Callers \ {c} : call'[d] = call[d],
         "pc" \in DOMAIN call'[c], call'[c].pc \notin {"create", "delete", "run"}
  PROVE  PickInv'
<1>1. UNCHANGED <<saved, lastId, runs>>
  BY DEF tables
<1>2. ASSUME NEW d \in Callers
      PROVE  Knows(call[d])'
  <2>1. CASE d = c
    BY <2>1 DEF Knows
  <2>2. CASE d # c
    <3>1. call'[d] = call[d] /\ Knows(call[d])
      BY <2>2 DEF PickInv
    <3> QED
      BY <1>1, <3>1 DEF Knows
  <2> QED
    BY <2>1, <2>2
<1> QED
  BY <1>1, <1>2 DEF PickInv, IdsGiven

\* Steps that are about neither calls nor tables.
LEMMA AsideKeeps ==
  ASSUME PickInv, UNCHANGED <<tables, call>>
  PROVE  PickInv'
BY DEF PickInv, IdsGiven, Knows, tables

\* The calls that read videos.
LEMMA ReadersKeep ==
  ASSUME PickInv, NEW c \in Callers,
         \/ CountRows(c) \/ FetchRows(c) \/ Lookup(c) \/ Compute(c)
         \/ JobCount(c) \/ NextPage(c) \/ RequestRows(c) \/ ReadVideo(c) \/ WriteNfo(c)
         \/ WriteFails(c) \/ PageDone(c) \/ WriteArtists(c) \/ ExportPlaylist(c) \/ ReadBack(c)
         \/ CancelJob(c) \/ Return(c)
  PROVE  PickInv'
<1>1. DOMAIN call = Callers /\ "pc" \in DOMAIN call[c]
  BY DEF PickInv, Knows
<1>2. /\ UNCHANGED tables /\ DOMAIN call' = Callers
      /\ \A d \in Callers \ {c} : call'[d] = call[d]
  <2>1. CASE CountRows(c) \/ FetchRows(c) \/ JobCount(c) \/ RequestRows(c)
    BY <1>1, <2>1, ZenonT(40) DEF CountRows, FetchRows, JobCount, RequestRows
  <2>2. CASE Lookup(c) \/ Compute(c)
    BY <1>1, <2>2 DEF Lookup, Compute
  <2>3. CASE NextPage(c) \/ ReadVideo(c) \/ WriteNfo(c) \/ WriteFails(c)
    BY <1>1, <2>3 DEF NextPage, ReadVideo, WriteNfo, WriteFails, Goto
  <2>4. CASE PageDone(c) \/ WriteArtists(c) \/ ExportPlaylist(c)
    BY <1>1, <2>4 DEF PageDone, WriteArtists, ExportPlaylist, Goto
  <2>5. CASE ReadBack(c) \/ CancelJob(c) \/ Return(c)
    BY <1>1, <2>5 DEF ReadBack, CancelJob, Return, Finish
  <2> QED
    BY <2>1, <2>2, <2>3, <2>4, <2>5
<1>3. "pc" \in DOMAIN call'[c] /\ call'[c].pc \notin {"create", "delete", "run"}
  <2>1. CASE CountRows(c)
    BY <1>1, <2>1 DEF CountRows
  <2>2. CASE FetchRows(c)
    BY <1>1, <2>2 DEF FetchRows
  <2>3. CASE Lookup(c)
    <3> DEFINE r == call[c].req
               e == cache[r.cache][r.key]
    <3>1. CASE Hit(r.cache, r.key)
      <4>1. call' = [call EXCEPT ![c].pc = "done", ![c].first = e.first, ![c].asked = e.asked,
                                 ![c].set = e.set, ![c].total = clock]
        BY <2>3, <3>1 DEF Lookup
      <4> HIDE DEF r, e
      <4> QED
        BY <1>1, <4>1, SMTT(30)
    <3>2. CASE ~Hit(r.cache, r.key)
      <4>1. call' = [call EXCEPT ![c].pc = "compute", ![c].first = Edits, ![c].asked = clock]
        BY <2>3, <3>2 DEF Lookup
      <4> QED
        BY <1>1, <4>1
    <3> QED
      BY <3>1, <3>2
  <2>4. CASE Compute(c)
    BY <1>1, <2>4 DEF Compute
  <2>5. CASE JobCount(c)
    BY <1>1, <2>5 DEF JobCount
  <2>6. CASE NextPage(c)
    <3>1. \/ \E l : call' = [call EXCEPT ![c].pc = "export", ![c].left = l, ![c].offset = @ + Batch]
          \/ call' = [call EXCEPT ![c].pc = "artists"]
      BY <2>6, Zenon DEF NextPage, Goto
    <3>2. CASE call' = [call EXCEPT ![c].pc = "artists"]
      BY <1>1, <3>2
    <3>3. ASSUME NEW l, call' = [call EXCEPT ![c].pc = "export", ![c].left = l, ![c].offset = @ + Batch]
          PROVE  "pc" \in DOMAIN call'[c] /\ call'[c].pc = "export"
      <4> DEFINE o == call[c].offset + Batch
      <4>1. call' = [call EXCEPT ![c].pc = "export", ![c].left = l, ![c].offset = o]
        BY <3>3
      <4> HIDE DEF o
      <4> QED
        BY <1>1, <4>1
    <3> QED
      BY <3>1, <3>2, <3>3
  <2>7. CASE RequestRows(c)
    BY <1>1, <2>7 DEF RequestRows
  <2>8. CASE ReadVideo(c)
    BY <1>1, <2>8 DEF ReadVideo, At
  <2>9. CASE WriteNfo(c) \/ WriteFails(c)
    BY <1>1, <2>9 DEF WriteNfo, WriteFails
  <2>10. CASE PageDone(c)
    BY <1>1, <2>10 DEF PageDone, Goto
  <2>11. CASE WriteArtists(c)
    BY <1>1, <2>11 DEF WriteArtists, Goto
  <2>12. CASE ExportPlaylist(c)
    BY <1>1, <2>12 DEF ExportPlaylist
  <2>13. CASE ReadBack(c)
    BY <1>1, <2>13 DEF ReadBack, Finish, Idle
  <2>14. CASE CancelJob(c)
    BY <1>1, <2>14 DEF CancelJob, Finish, Idle
  <2>15. CASE Return(c)
    BY <1>1, <2>15 DEF Return, Finish, Idle
  <2> QED
    BY <2>1, <2>2, <2>3, <2>4, <2>5, <2>6, <2>7, <2>8, <2>9, <2>10, <2>11, <2>12, <2>13, <2>14, <2>15
<1> QED
  BY <1>2, <1>3, MovesKeeps

\* A request for a new row: the id is one that was never given out, so that
\* no request that is waiting means it.
LEMMA CreateKeeps ==
  ASSUME PickInv, NEW c \in Callers, CreateSaved(c)
  PROVE  PickInv'
<1> DEFINE r == call[c].req
           t == r.table
           n == lastId[t] + 1
<1>1. /\ DOMAIN call = Callers /\ "pc" \in DOMAIN call[c] /\ call[c].pc = "create"
      /\ r \in Requests /\ r.kind = "create"
  BY DEF CreateSaved, At, PickInv, Knows
<1>2. t \in Tables /\ r.name \in Names
  BY <1>1, CatalogueAssumption DEF Names
<1>3. CASE NameTaken(t, r.name)
  <2>1. UNCHANGED tables /\ call' = [call EXCEPT ![c] = Idle]
    BY <1>3 DEF CreateSaved, Finish
  <2>2. /\ DOMAIN call' = Callers /\ \A d \in Callers \ {c} : call'[d] = call[d]
        /\ "pc" \in DOMAIN call'[c] /\ call'[c].pc \notin {"create", "delete", "run"}
    BY <1>1, <2>1 DEF Idle
  <2> QED
    BY <2>1, <2>2, MovesKeeps
<1>4. CASE ~NameTaken(t, r.name)
  <2>1. /\ saved' = With(t, n, r.name)
        /\ lastId' = [lastId EXCEPT ![t] = IF n > @ THEN n ELSE @]
        /\ call' = [call EXCEPT ![c].pc = "read back", ![c].id = n]
        /\ UNCHANGED runs
    BY <1>4 DEF CreateSaved, NextId
  <2>2. /\ DOMAIN saved = Tables /\ lastId \in [Tables -> Nat]
        /\ \A u \in Tables : \A i \in DOMAIN saved[u] :
             i \in Nat /\ i <= lastId[u] /\ saved[u][i] \in Names
    BY DEF PickInv, IdsGiven
  <2>3. n \in Nat /\ n > lastId[t] /\ lastId[t] \in Nat /\ n \notin DOMAIN saved[t]
    BY <1>2, <2>2
  <2> DEFINE name == r.name
  <2>4. name \in Names /\ saved' = With(t, n, name)
    BY <1>2, <2>1
  <2> HIDE DEF r, t, n, name
  <2>5. /\ DOMAIN saved' = Tables /\ DOMAIN saved'[t] = DOMAIN saved[t] \cup {n}
        /\ saved'[t][n] = name
        /\ \A i \in DOMAIN saved[t] : saved'[t][i] = saved[t][i]
        /\ \A u \in Tables \ {t} : saved'[u] = saved[u]
    BY <1>2, <2>2, <2>3, <2>4 DEF With
  <2>6. /\ lastId' \in [Tables -> Nat] /\ lastId'[t] = n
        /\ \A u \in Tables \ {t} : lastId'[u] = lastId[u]
    BY <1>2, <2>1, <2>2, <2>3
  <2>7. IdsGiven'
    <3>1. ASSUME NEW u \in Tables, NEW i \in DOMAIN saved'[u]
          PROVE  i \in Nat /\ i <= lastId'[u] /\ saved'[u][i] \in Names
      <4>1. CASE u = t /\ i = n
        BY <2>3, <2>4, <2>5, <2>6, <4>1
      <4>2. CASE u = t /\ i # n
        <5>1. i \in DOMAIN saved[t] /\ saved'[t][i] = saved[t][i]
          BY <2>5, <3>1, <4>2
        <5>2. i \in Nat /\ i <= lastId[t] /\ saved[t][i] \in Names
          BY <1>2, <2>2, <5>1
        <5> QED
          BY <2>3, <2>6, <4>2, <5>1, <5>2
      <4>3. CASE u # t
        BY <2>2, <2>5, <2>6, <3>1, <4>3
      <4> QED
        BY <4>1, <4>2, <4>3
    <3> QED
      BY <2>5, <2>6, <3>1 DEF IdsGiven
  <2>8. ASSUME NEW d \in Callers
        PROVE  Knows(call[d])'
    <3>1. CASE d = c
      BY <1>1, <2>1, <3>1 DEF Knows
    <3>2. CASE d # c
      <4>1. call'[d] = call[d] /\ Knows(call[d])
        BY <1>1, <2>1, <3>2 DEF PickInv
      <4>2. ASSUME call[d].pc \in {"delete", "run"}
            PROVE  /\ call[d].req.table \in Tables /\ call[d].id \in Nat
                   /\ call[d].id <= lastId'[call[d].req.table]
                   /\ call[d].id \in DOMAIN saved'[call[d].req.table]
                        => saved'[call[d].req.table][call[d].id] = call[d].text
        <5> DEFINE u == call[d].req.table
                   i == call[d].id
        <5>1. /\ u \in Tables /\ i \in Nat /\ i <= lastId[u]
              /\ i \in DOMAIN saved[u] => saved[u][i] = call[d].text
          BY <4>1, <4>2 DEF Knows
        <5> HIDE DEF u, i
        <5>2. u = t => i # n
          BY <2>3, <5>1
        <5>3. /\ i <= lastId'[u]
              /\ i \in DOMAIN saved'[u] => saved'[u][i] = call[d].text
          BY <2>2, <2>3, <2>5, <2>6, <5>1, <5>2
        <5> QED
          BY <5>1, <5>3 DEF u, i
      <4> QED
        BY <4>1, <4>2 DEF Knows
    <3> QED
      BY <3>1, <3>2
  <2> QED
    BY <1>1, <2>1, <2>7, <2>8 DEF PickInv
<1> QED
  BY <1>3, <1>4

\* A client picks a row that is there.
LEMMA PickKeeps ==
  ASSUME PickInv, NEW c \in Callers, NEW r \in Requests, Pick(c, r)
  PROVE  PickInv'
<1>1. PICK i \in DOMAIN saved[r.table] :
        call' = [call EXCEPT ![c] = [Started(r) EXCEPT !.id = i, !.text = saved[r.table][i]]]
  BY DEF Pick, Fetched
<1>2. r.table \in Tables /\ r.kind \in {"delete", "run"} /\ UNCHANGED <<saved, lastId, runs>>
  BY CatalogueAssumption DEF Pick, tables
<1>3. /\ DOMAIN call' = Callers /\ \A d \in Callers \ {c} : call'[d] = call[d]
      /\ "pc" \in DOMAIN call'[c] /\ call'[c].pc = r.kind /\ call'[c].req = r
      /\ call'[c].id = i /\ call'[c].text = saved[r.table][i]
  BY <1>1 DEF Started, PickInv
<1>4. i \in Nat /\ i <= lastId[r.table]
  BY <1>2 DEF PickInv, IdsGiven
<1>5. ASSUME NEW d \in Callers
      PROVE  Knows(call[d])'
  <2>1. CASE d = c
    BY <1>2, <1>3, <1>4, <2>1 DEF Knows
  <2>2. CASE d # c
    <3>1. call'[d] = call[d] /\ Knows(call[d])
      BY <1>3, <2>2 DEF PickInv
    <3> QED
      BY <1>2, <3>1 DEF Knows
  <2> QED
    BY <2>1, <2>2
<1> QED
  BY <1>2, <1>3, <1>5 DEF PickInv, IdsGiven

\* A request arrives that is not about a row a client picked.
LEMMA BeginKeeps ==
  ASSUME PickInv, NEW c \in Callers, NEW r \in Requests, Begin(c, r)
  PROVE  PickInv'
<1>1. /\ call' = [call EXCEPT ![c] = Started(r)] /\ UNCHANGED <<saved, lastId, runs>>
      /\ r.kind \notin {"delete", "run"}
  BY DEF Begin, tables
<1>2. /\ DOMAIN call' = Callers /\ \A d \in Callers \ {c} : call'[d] = call[d]
      /\ "pc" \in DOMAIN call'[c] /\ call'[c].pc = r.kind /\ call'[c].req = r
  BY <1>1 DEF Started, PickInv
<1>3. ASSUME NEW d \in Callers
      PROVE  Knows(call[d])'
  <2>1. CASE d = c
    BY <1>1, <1>2, <2>1 DEF Knows
  <2>2. CASE d # c
    <3>1. call'[d] = call[d] /\ Knows(call[d])
      BY <1>2, <2>2 DEF PickInv
    <3> QED
      BY <1>1, <3>1 DEF Knows
  <2> QED
    BY <2>1, <2>2
<1> QED
  BY <1>1, <1>2, <1>3 DEF PickInv, IdsGiven

\* A row is deleted; requests that mean it find nothing from then on.
LEMMA DeleteKeeps ==
  ASSUME PickInv, NEW c \in Callers, DeleteSaved(c)
  PROVE  PickInv'
<1> DEFINE t == call[c].req.table
           n == call[c].id
<1>1. /\ DOMAIN call = Callers /\ Knows(call[c]) /\ call[c].pc = "delete"
      /\ DOMAIN saved = Tables
  BY DEF DeleteSaved, At, PickInv, IdsGiven
<1>2. t \in Tables
  BY <1>1 DEF Knows
<1>3. /\ saved' = Without(t, n) /\ call' = [call EXCEPT ![c] = Idle]
      /\ UNCHANGED <<lastId, runs>>
  BY DEF DeleteSaved, Finish
<1> HIDE DEF t, n
<1>4. /\ DOMAIN saved' = Tables /\ DOMAIN saved'[t] = DOMAIN saved[t] \ {n}
      /\ \A i \in DOMAIN saved'[t] : saved'[t][i] = saved[t][i]
      /\ \A u \in Tables \ {t} : saved'[u] = saved[u]
  BY <1>1, <1>2, <1>3 DEF Without
<1>5. ASSUME NEW u \in Tables, NEW i \in DOMAIN saved'[u]
      PROVE  i \in DOMAIN saved[u] /\ saved'[u][i] = saved[u][i]
  BY <1>4, <1>5
<1>6. IdsGiven'
  <2>1. ASSUME NEW u \in Tables, NEW i \in DOMAIN saved'[u]
        PROVE  i \in Nat /\ i <= lastId'[u] /\ saved'[u][i] \in Names
    BY <1>3, <1>5, <2>1 DEF PickInv, IdsGiven
  <2> QED
    BY <1>3, <1>4, <2>1 DEF PickInv, IdsGiven
<1>7. ASSUME NEW d \in Callers
      PROVE  Knows(call[d])'
  <2>1. CASE d = c
    BY <1>1, <1>3, <2>1 DEF Knows, Idle
  <2>2. CASE d # c
    <3>1. call'[d] = call[d] /\ Knows(call[d])
      BY <1>1, <1>3, <2>2 DEF PickInv
    <3>2. ASSUME call[d].pc \in {"delete", "run"},
                 call[d].id \in DOMAIN saved'[call[d].req.table]
          PROVE  saved'[call[d].req.table][call[d].id] = call[d].text
      <4>1. /\ call[d].req.table \in Tables
            /\ call[d].id \in DOMAIN saved[call[d].req.table]
                 => saved[call[d].req.table][call[d].id] = call[d].text
        BY <3>1, <3>2 DEF Knows
      <4> QED
        BY <1>5, <3>2, <4>1
    <3> QED
      BY <1>3, <3>1, <3>2 DEF Knows
  <2> QED
    BY <2>1, <2>2
<1> QED
  BY <1>1, <1>3, <1>6, <1>7 DEF PickInv

\* A task is run as the client saw it.
LEMMA RunKeeps ==
  ASSUME PickInv, NEW c \in Callers, RunTask(c)
  PROVE  PickInv'
<1> DEFINE t == call[c].req.table
           i == call[c].id
<1>1. /\ DOMAIN call = Callers /\ Knows(call[c]) /\ call[c].pc = "run"
  BY DEF RunTask, At, PickInv
<1>2. /\ runs' = IF i \in DOMAIN saved[t] THEN Append(runs, <<saved[t][i], call[c].text>>)
                 ELSE runs
      /\ call' = [call EXCEPT ![c] = Idle] /\ UNCHANGED <<saved, lastId>>
  BY DEF RunTask, Finish, Found, Fetched
<1>3. runs' \in Seq({<<x, x>> : x \in Names})
  <2>1. runs \in Seq({<<x, x>> : x \in Names})
    BY DEF PickInv
  <2>2. CASE i \in DOMAIN saved[t]
    <3>1. saved[t][i] = call[c].text /\ saved[t][i] \in Names
      BY <1>1, <2>2 DEF Knows, PickInv, IdsGiven
    <3>2. <<saved[t][i], call[c].text>> \in {<<x, x>> : x \in Names}
      BY <3>1
    <3> QED
      BY <1>2, <2>1, <2>2, <3>2
  <2> QED
    BY <1>2, <2>1, <2>2
<1>4. ASSUME NEW d \in Callers
      PROVE  Knows(call[d])'
  <2>1. CASE d = c
    BY <1>1, <1>2, <2>1 DEF Knows, Idle
  <2>2. CASE d # c
    <3>1. call'[d] = call[d] /\ Knows(call[d])
      BY <1>1, <1>2, <2>2 DEF PickInv
    <3> QED
      BY <1>2, <3>1 DEF Knows
  <2> QED
    BY <2>1, <2>2
<1> QED
  BY <1>1, <1>2, <1>3, <1>4 DEF PickInv, IdsGiven

\* Every step keeps what requests know of rows true.
LEMMA PickInvStep == PickInv /\ [Next]_vars => PickInv'
<1> SUFFICES ASSUME PickInv, [Next]_vars PROVE PickInv'
  OBVIOUS
<1>1. CASE UNCHANGED readVars
  BY <1>1, AsideKeeps DEF readVars, tables
<1>2. CASE ReadNext
  <2>1. ASSUME NEW c \in Callers, NEW r \in Requests, Begin(c, r) \/ Pick(c, r)
        PROVE  PickInv'
    BY <2>1, BeginKeeps, PickKeeps
  <2>2. ASSUME NEW c \in Callers, CallStep(c) \/ CancelJob(c) \/ Return(c)
        PROVE  PickInv'
    BY <2>2, ReadersKeep, CreateKeeps, DeleteKeeps, RunKeeps DEF CallStep
  <2>3. ASSUME NEW v \in Videos, Edit(v)
        PROVE  PickInv'
    BY <2>3, AsideKeeps DEF Edit
  <2>4. CASE Tick
    BY <2>4, AsideKeeps DEF Tick
  <2> QED
    BY <1>2, <2>1, <2>2, <2>3, <2>4 DEF ReadNext
<1>3. ASSUME NEW left, Down(left)
      PROVE  PickInv'
  <2>1. call' = [c \in Callers |-> Idle] /\ UNCHANGED <<saved, lastId, runs>>
    BY <1>3 DEF Down, tables
  <2>2. \A d \in Callers : Knows(call[d])'
    BY <2>1 DEF Knows, Idle
  <2> QED
    BY <2>1, <2>2 DEF PickInv, IdsGiven
<1>4. CASE Start \/ Migrate \/ StatementFails
  <2>1. UNCHANGED readVars
    BY <1>4 DEF Start, Migrate, RunStatement, RecordVersion, Up, StatementFails
  <2> QED
    BY <1>1, <2>1
<1>5. ASSUME NEW b \in Backups,
             \/ \E keep \in Retentions : SubmitBackup(b, keep)
             \/ BackupStep(b) \/ BackupFails(b) \/ CancelBackup(b)
      PROVE  PickInv'
  <2>1. UNCHANGED readVars
    BY <1>5 DEF SubmitBackup, BackupStep, StartBackup, Snapshot, OpenZip, CloseZip, CleanUp,
                BackupFails, CancelBackup
  <2> QED
    BY <1>1, <2>1
<1> QED
  BY <1>1, <1>2, <1>3, <1>4, <1>5 DEF Next, Crash, Stop, Serve, vars

\* At the start the tables are empty.
LEMMA PickInvInit == Init => PickInv
BY DEF Init, ReadInit, PickInv, IdsGiven, Knows, Idle, Tables

\* A request deletes or runs the row its client picked, or none: ids are given
\* once (AUTOINCREMENT), so that a row made meanwhile is never mistaken for it
\* (web/routes/search.py, delete_saved_search; web/routes/jobs.py,
\* run_scheduled_task_now).
THEOREM ActsOnWhatWasPickedCorrect == Spec => ActsOnWhatWasPicked
<1>1. ASSUME PickInv, NEW c \in Callers, DeleteSaved(c)
      PROVE  LET t == call[c].req.table
             IN  Found(t, call[c].id) => saved[t][call[c].id] = call[c].text
  <2>1. Knows(call[c]) /\ call[c].pc = "delete"
    BY <1>1 DEF PickInv, DeleteSaved, At
  <2> QED
    BY <2>1 DEF Knows, Found
<1>2. ASSUME PickInv', NEW i \in DOMAIN runs'
      PROVE  runs'[i][1] = runs'[i][2]
  <2>1. runs'[i] \in {<<x, x>> : x \in Names}
    BY <1>2 DEF PickInv
  <2> QED
    BY <2>1
<1>3. PickInv /\ PickInv' =>
        [/\ \A c \in Callers : DeleteSaved(c) =>
              LET t == call[c].req.table IN Found(t, call[c].id) => saved[t][call[c].id] = call[c].text
         /\ \A i \in DOMAIN runs' : runs'[i][1] = runs'[i][2]]_readVars
  BY <1>1, <1>2
<1> QED
  BY <1>3, PickInvInit, PickInvStep, PTL DEF Spec, ActsOnWhatWasPicked

-----------------------------------------------------------------------------
(* Backups *)

\* What is known of the types: an archive's name is a second that has been.
BackupTypes ==
  /\ clock \in Nat
  /\ DOMAIN job = Backups
  /\ \A b \in Backups :
       /\ {"pc", "stamp", "keep", "edits", "cancelled"} \subseteq DOMAIN job[b]
       /\ job[b].keep \in Nat /\ job[b].stamp \in 0 .. clock
  /\ shared \subseteq 0 .. clock /\ DOMAIN archive \subseteq 0 .. clock
  /\ \A n \in DOMAIN archive : {"state", "by", "edits"} \subseteq DOMAIN archive[n]

\* A second that two backups at work have in common is known to be shared.
Apart == \A b, o \in Busy : b # o /\ job[b].stamp = job[o].stamp => job[b].stamp \in shared

\* What the file is that bears the name of a backup at work, if the name is no
\* other's: not there before it is opened, the backup's own while it is
\* written, and a good archive from then until retention removes it.
Owns(b) ==
  LET n == job[b].stamp IN
  n \notin shared =>
    /\ job[b].pc \in {"snapshot", "zip"} => n \notin DOMAIN archive
    /\ job[b].pc = "zipping" /\ n \in DOMAIN archive =>
         archive[n].state = "open" /\ archive[n].by = b /\ archive[n].edits = job[b].edits
    /\ job[b].pc = "clean" /\ n \in DOMAIN archive => Good(n) /\ archive[n].edits = job[b].edits

Writing(n) == \E o \in Backups : job[o].pc = "zipping" /\ job[o].stamp = n

\* Files that are no good archive and that nobody is writing were left by a
\* crash or a stop: they are older than every backup at work, and when
\* retention removes the archive of one it has removed them before.
Behind(b) ==
  \A n \in DOMAIN archive \ shared : ~Good(n) /\ job[b].stamp \notin shared =>
    \/ Writing(n)
    \/ n < job[b].stamp /\ (job[b].pc = "clean" => job[b].stamp \in DOMAIN archive)

BackupInv ==
  /\ BackupTypes /\ Apart
  /\ \A b \in Busy : Owns(b) /\ Behind(b)

\* A step that is about one backup leaves the others as they are.
OthersStay(b) ==
  /\ DOMAIN job' = Backups
  /\ \A o \in Backups \ {b} : job'[o] = job[o]
  /\ \A o \in Backups : DOMAIN job'[o] = DOMAIN job[o]

\* Steps that are about no backup; the clock may go on.
LEMMA BackupAsideKeeps ==
  ASSUME BackupInv, UNCHANGED backups, clock' \in Nat, clock' >= clock
  PROVE  BackupInv'
<1>1. BackupTypes'
  <2>1. BackupTypes /\ UNCHANGED <<job, archive, shared>> /\ 0 .. clock \subseteq 0 .. clock'
    BY DEF BackupInv, BackupTypes, backups
  <2> QED
    BY <2>1 DEF BackupTypes
<1>2. Apart'
  BY DEF BackupInv, Apart, Busy, backups
<1>3. ASSUME NEW b \in Busy'
      PROVE  Owns(b)' /\ Behind(b)'
  <2>1. b \in Busy /\ UNCHANGED <<job, archive, shared>>
    BY DEF Busy, backups
  <2> QED
    BY <2>1 DEF BackupInv, Owns, Behind, Good, Writing
<1> QED
  BY <1>1, <1>2, <1>3 DEF BackupInv

\* A request, or the schedule, submits a backup; a client cancels one.
LEMMA MarkKeeps ==
  ASSUME BackupInv, NEW b \in Backups, UNCHANGED <<archive, shared, clock>>, OthersStay(b),
         job'[b].keep \in Nat, job'[b].stamp = job[b].stamp, job'[b].edits = job[b].edits,
         job'[b].pc = job[b].pc \/ ~(job'[b].pc \in Active \/ job[b].pc \in Active)
  PROVE  BackupInv'
<1>1. BackupTypes'
  BY DEF BackupInv, BackupTypes, OthersStay
<1>2. \A o \in Backups :
        /\ job'[o].stamp = job[o].stamp /\ job'[o].edits = job[o].edits
        /\ o \in Busy' <=> o \in Busy
        /\ o \in Busy => job'[o].pc = job[o].pc
        /\ job'[o].pc = "zipping" <=> job[o].pc = "zipping"
  BY DEF OthersStay, Busy, Active
<1>3. Busy' = Busy
  BY <1>2 DEF Busy
<1>4. Apart'
  <2> SUFFICES ASSUME NEW o \in Busy', NEW p \in Busy', o # p, job'[o].stamp = job'[p].stamp
               PROVE  job'[o].stamp \in shared'
    BY DEF Apart
  <2>1. o \in Backups /\ p \in Backups
    BY <1>3 DEF Busy
  <2> QED
    BY <1>2, <1>3, <2>1 DEF BackupInv, Apart
<1>5. ASSUME NEW o \in Busy'
      PROVE  Owns(o)' /\ Behind(o)'
  <2>1. o \in Busy /\ o \in Backups /\ Owns(o) /\ Behind(o)
    BY <1>3 DEF BackupInv, Busy
  <2>2. job'[o].stamp = job[o].stamp /\ job'[o].edits = job[o].edits /\ job'[o].pc = job[o].pc
    BY <1>2, <2>1
  <2>3. Owns(o)'
    BY <2>1, <2>2 DEF Owns, Good
  <2>4. \A n : Writing(n) => Writing(n)'
    BY <1>2 DEF Writing
  <2> QED
    BY <2>1, <2>2, <2>3, <2>4 DEF Behind, Good
<1> QED
  BY <1>1, <1>4, <1>5 DEF BackupInv

\* A backup begins in a second in which no archive has been made, or that is
\* shared from then on; everything that is there is older.
LEMMA StartBackupKeeps ==
  ASSUME BackupInv, NEW b \in Backups, StartBackup(b)
  PROVE  BackupInv'
<1>1. BackupTypes /\ Apart /\ UNCHANGED <<archive, clock>> /\ job[b].pc = "queued"
  BY DEF StartBackup, BackupInv, readVars
<1>2. CASE job[b].cancelled
  <2>1. job' = [job EXCEPT ![b].pc = "cancelled"] /\ UNCHANGED shared
    BY <1>2 DEF StartBackup, JobGoto
  <2>2. /\ OthersStay(b) /\ job'[b].keep \in Nat
        /\ job'[b].stamp = job[b].stamp /\ job'[b].edits = job[b].edits
        /\ job'[b].pc = "cancelled"
    BY <1>1, <2>1 DEF BackupTypes, OthersStay
  <2> QED
    BY <1>1, <2>1, <2>2, MarkKeeps DEF Active
<1>3. CASE ~job[b].cancelled
  <2>1. /\ job' = [job EXCEPT ![b].pc = "snapshot", ![b].stamp = clock]
        /\ shared' = shared \cup {n \in {clock} : n \in DOMAIN archive \/ \E o \in Busy : job[o].stamp = n}
    BY <1>3 DEF StartBackup
  <2>2. /\ OthersStay(b) /\ job'[b].pc = "snapshot" /\ job'[b].stamp = clock
        /\ job'[b].keep = job[b].keep
    BY <1>1, <2>1 DEF BackupTypes, OthersStay
  <2>3. BackupTypes'
    BY <1>1, <2>1, <2>2 DEF BackupTypes, OthersStay
  <2>4. shared \subseteq shared'
    BY <2>1
  <2>5. ASSUME NEW q \in Busy, job[q].stamp = clock
        PROVE  clock \in shared'
    BY <2>1, <2>5
  <2>6. \A o \in Busy' : o = b \/ (o \in Busy /\ o # b /\ job'[o] = job[o])
    BY <2>2 DEF OthersStay, Busy
  <2>7. Apart'
    <3> SUFFICES ASSUME NEW o \in Busy', NEW p \in Busy', o # p, job'[o].stamp = job'[p].stamp
                 PROVE  job'[o].stamp \in shared'
      BY DEF Apart
    <3> DEFINE q == IF o = b THEN p ELSE o
    <3>1. CASE o # b /\ p # b
      <4>1. o \in Busy /\ p \in Busy /\ job[o].stamp = job[p].stamp /\ job'[o] = job[o]
        BY <2>6, <3>1
      <4> QED
        BY <1>1, <2>4, <4>1 DEF Apart
    <3>2. CASE o = b \/ p = b
      <4>1. q \in Busy /\ job'[q] = job[q]
        BY <2>6, <3>2
      <4>2. job[q].stamp = clock /\ job'[o].stamp = clock
        BY <2>2, <3>2, <4>1
      <4> QED
        BY <2>5, <4>1, <4>2
    <3> QED
      BY <3>1, <3>2
  <2>8. ASSUME NEW n, Writing(n)
        PROVE  Writing(n)'
    BY <1>1, <2>2, <2>8 DEF Writing, OthersStay
  <2>9. ASSUME NEW o \in Busy'
        PROVE  Owns(o)' /\ Behind(o)'
    <3>1. CASE o = b
      <4>1. Owns(b)'
        BY <1>1, <2>1, <2>2 DEF Owns
      <4>2. Behind(b)'
        <5> SUFFICES ASSUME NEW n \in DOMAIN archive, n \notin shared', clock \notin shared'
                     PROVE  n < clock
          BY <1>1, <2>2 DEF Behind
        <5>1. n \in 0 .. clock /\ clock \in Nat
          BY <1>1 DEF BackupTypes
        <5>2. n # clock
          BY <2>1
        <5> QED
          BY <5>1, <5>2
      <4> QED
        BY <3>1, <4>1, <4>2
    <3>2. CASE o # b
      <4>1. o \in Busy /\ job'[o] = job[o] /\ shared \subseteq shared' /\ Owns(o) /\ Behind(o)
        BY <2>1, <2>6, <3>2 DEF BackupInv
      <4>2. Owns(o)'
        BY <1>1, <4>1 DEF Owns, Good
      <4>3. Behind(o)'
        BY <1>1, <2>8, <4>1 DEF Behind, Good
      <4> QED
        BY <4>2, <4>3
    <3> QED
      BY <3>1, <3>2
  <2> QED
    BY <2>3, <2>7, <2>9 DEF BackupInv
<1> QED
  BY <1>2, <1>3

\* The database is copied; the archive is not there yet.
LEMMA SnapshotKeeps ==
  ASSUME BackupInv, NEW b \in Backups, Snapshot(b)
  PROVE  BackupInv'
<1> DEFINE e == Moment
<1>1. /\ BackupTypes /\ Apart /\ UNCHANGED <<archive, clock, shared>> /\ job[b].pc = "snapshot"
      /\ job' = [job EXCEPT ![b].pc = "zip", ![b].edits = e]
  BY DEF Snapshot, BackupInv, readVars
<1> HIDE DEF e
<1>2. /\ OthersStay(b) /\ job'[b].pc = "zip" /\ job'[b].stamp = job[b].stamp
      /\ job'[b].keep = job[b].keep
  BY <1>1 DEF BackupTypes, OthersStay
<1>3. BackupTypes'
  BY <1>1, <1>2 DEF BackupTypes, OthersStay
<1>4. /\ Busy' = Busy
      /\ \A o \in Busy : o \in Backups /\ job'[o].stamp = job[o].stamp
  BY <1>1, <1>2 DEF OthersStay, Busy, Active
<1>5. Apart'
  <2>1. Apart /\ UNCHANGED shared
    BY <1>1
  <2> QED
    BY <1>4, <2>1 DEF Apart
<1>6. ASSUME NEW n, Writing(n)
      PROVE  Writing(n)'
  BY <1>1, <1>2, <1>6 DEF Writing, OthersStay
<1>7. ASSUME NEW o \in Busy'
      PROVE  Owns(o)' /\ Behind(o)'
  <2>1. o \in Busy /\ Owns(o) /\ Behind(o) /\ job'[o].stamp = job[o].stamp
    BY <1>4 DEF BackupInv
  <2> DEFINE x == job'[o]
             y == job[o]
  <2>2. UNCHANGED <<archive, shared>>
    BY <1>1
  <2>3. x = y \/ (y.pc = "snapshot" /\ x.pc = "zip")
    BY <1>1, <1>2, <1>4, <2>1 DEF OthersStay
  <2>4. Owns(o)'
    BY <2>1, <2>2, <2>3 DEF Owns, Good
  <2>5. Behind(o)'
    BY <1>6, <2>1, <2>2, <2>3 DEF Behind, Good
  <2> QED
    BY <2>4, <2>5
<1> QED
  BY <1>3, <1>5, <1>7 DEF BackupInv

\* The archive is opened: a file that was there under this name was another's.
LEMMA OpenZipKeeps ==
  ASSUME BackupInv, NEW b \in Backups, OpenZip(b)
  PROVE  BackupInv'
<1> DEFINE m == job[b].stamp
<1>1. /\ BackupTypes /\ Apart /\ UNCHANGED <<clock, shared>> /\ job[b].pc = "zip"
      /\ job' = [job EXCEPT ![b].pc = "zipping"]
      /\ archive' = [n \in DOMAIN archive \cup {m} |->
           IF n = m THEN [state |-> "open", by |-> b, edits |-> job[b].edits] ELSE archive[n]]
  BY DEF OpenZip, JobGoto, BackupInv, readVars
<1>2. /\ OthersStay(b) /\ job'[b].pc = "zipping" /\ job'[b].stamp = m
      /\ job'[b].keep = job[b].keep /\ job'[b].edits = job[b].edits /\ m \in 0 .. clock
  BY <1>1 DEF BackupTypes, OthersStay
<1>3. /\ Busy' = Busy /\ b \in Busy
      /\ \A o \in Busy : o \in Backups /\ job'[o].stamp = job[o].stamp
  BY <1>1, <1>2 DEF OthersStay, Busy, Active
<1>4. ASSUME NEW o \in Busy, o # b, job[o].stamp \notin shared
      PROVE  job[o].stamp # m
  BY <1>1, <1>3, <1>4 DEF Apart
<1>5. /\ DOMAIN archive' = DOMAIN archive \cup {m}
      /\ archive'[m].state = "open" /\ archive'[m].by = b /\ archive'[m].edits = job[b].edits
      /\ {"state", "by", "edits"} \subseteq DOMAIN archive'[m]
      /\ \A n \in DOMAIN archive \ {m} : archive'[n] = archive[n]
  BY <1>1
<1>6. BackupTypes'
  BY <1>1, <1>2, <1>5 DEF BackupTypes, OthersStay
<1>7. Apart'
  BY <1>1, <1>3 DEF Apart
<1>8. ASSUME NEW n, Writing(n)
      PROVE  Writing(n)'
  BY <1>1, <1>2, <1>8 DEF Writing, OthersStay
<1>9. \E o \in Backups : job'[o].pc = "zipping" /\ job'[o].stamp = m
  BY <1>2
<1> HIDE DEF m
<1>10. ASSUME NEW o \in Busy'
       PROVE  Owns(o)' /\ Behind(o)'
  <2>1. o \in Busy /\ Owns(o) /\ Behind(o) /\ job'[o].stamp = job[o].stamp
    BY <1>3, <1>10 DEF BackupInv
  <2>2. Owns(o)'
    <3>1. CASE o = b
      BY <1>2, <1>5, <3>1 DEF Owns
    <3>2. CASE o # b
      <4>1. job'[o] = job[o]
        BY <1>2, <1>3, <2>1, <3>2 DEF OthersStay
      <4>2. job[o].stamp \notin shared => job[o].stamp # m
        BY <1>4, <2>1, <3>2
      <4> QED
        BY <1>1, <1>5, <2>1, <4>1, <4>2 DEF Owns, Good
    <3> QED
      BY <3>1, <3>2
  <2>3. Behind(o)'
    <3> SUFFICES ASSUME NEW n \in DOMAIN archive' \ shared, ~Good(n)', job[o].stamp \notin shared
                 PROVE  \/ Writing(n)'
                        \/ /\ n < job[o].stamp
                           /\ job'[o].pc = "clean" => job[o].stamp \in DOMAIN archive'
      BY <1>1, <2>1 DEF Behind
    <3>1. CASE n = m
      BY <1>9, <3>1 DEF Writing
    <3>2. CASE n # m
      <4>1. n \in DOMAIN archive \ shared /\ ~Good(n)
        BY <1>5, <3>2 DEF Good
      <4>2. CASE Writing(n)
        BY <1>8, <4>2
      <4>3. CASE n < job[o].stamp /\ (job[o].pc = "clean" => job[o].stamp \in DOMAIN archive)
        <5>1. job'[o].pc = "clean" => job[o].pc = "clean"
          BY <1>2, <1>3, <2>1 DEF OthersStay
        <5> QED
          BY <1>5, <4>3, <5>1
      <4> QED
        BY <2>1, <4>1, <4>2, <4>3 DEF Behind
    <3> QED
      BY <3>1, <3>2
  <2> QED
    BY <2>2, <2>3
<1> QED
  BY <1>6, <1>7, <1>10 DEF BackupInv

\* The file under a backup's name goes when the backup fails; one that is no
\* longer at work.
LEMMA BackupFailsKeeps ==
  ASSUME BackupInv, NEW b \in Backups, BackupFails(b)
  PROVE  BackupInv'
<1>1. PICK m \in {job[b].stamp} : m = job[b].stamp
  OBVIOUS
<1>2. /\ BackupTypes /\ Apart /\ UNCHANGED <<clock, shared>> /\ b \in Busy
      /\ job' = [job EXCEPT ![b].pc = "failed"]
      /\ archive' = [n \in DOMAIN archive \ {m} |-> archive[n]]
  BY <1>1 DEF BackupFails, RemoveFile, Gone, JobGoto, BackupInv, readVars, Busy, Active
<1>3. /\ OthersStay(b) /\ job'[b].pc = "failed" /\ job'[b].stamp = m
      /\ job'[b].keep = job[b].keep
  BY <1>1, <1>2 DEF BackupTypes, OthersStay
<1>4. /\ Busy' = Busy \ {b}
      /\ \A o \in Busy' : o \in Backups /\ o \in Busy /\ o # b /\ job'[o] = job[o]
  BY <1>3 DEF OthersStay, Busy, Active
<1>5. ASSUME NEW o \in Busy, o # b, job[o].stamp \notin shared
      PROVE  job[o].stamp # m
  BY <1>1, <1>2, <1>5 DEF Apart
<1>6. BackupTypes'
  BY <1>1, <1>2, <1>3 DEF BackupTypes, OthersStay
<1>7. Apart'
  <2>1. Apart /\ UNCHANGED shared
    BY <1>2
  <2> QED
    BY <1>4, <2>1 DEF Apart
<1>8. ASSUME NEW n, n # m, Writing(n)
      PROVE  Writing(n)'
  BY <1>1, <1>3, <1>8 DEF Writing, OthersStay
<1>9. /\ DOMAIN archive' = DOMAIN archive \ {m}
      /\ \A n \in DOMAIN archive' : archive'[n] = archive[n]
  BY <1>2
<1>10. ASSUME NEW o \in Busy'
       PROVE  Owns(o)' /\ Behind(o)'
  <2>1. o \in Busy /\ Owns(o) /\ Behind(o) /\ job'[o] = job[o] /\ UNCHANGED shared
    BY <1>2, <1>4, <1>10 DEF BackupInv
  <2>2. job[o].stamp \notin shared => job[o].stamp # m
    BY <1>4, <1>5
  <2>3. Owns(o)'
    BY <1>9, <2>1 DEF Owns, Good
  <2>4. Behind(o)'
    BY <1>8, <1>9, <2>1, <2>2 DEF Behind, Good
  <2> QED
    BY <2>3, <2>4
<1> QED
  BY <1>6, <1>7, <1>10 DEF BackupInv

\* A backup whose second is its own leaves a good archive, unless retention has
\* removed its file, when it fails.
LEMMA CloseZipKeeps ==
  ASSUME BackupInv, NEW b \in Backups, CloseZip(b)
  PROVE  BackupInv'
<1>1. PICK m \in {job[b].stamp} : m = job[b].stamp
  OBVIOUS
<1>2. /\ BackupTypes /\ Apart /\ UNCHANGED <<clock, shared>> /\ b \in Busy
      /\ job[b].pc = "zipping"
  BY DEF CloseZip, BackupInv, readVars, Busy, Active
<1>3. CASE m \notin DOMAIN archive
  <2>1. job' = [job EXCEPT ![b].pc = "failed"] /\ UNCHANGED archive
    BY <1>1, <1>3 DEF CloseZip, JobGoto
  <2>2. /\ OthersStay(b) /\ job'[b].pc = "failed" /\ job'[b].stamp = m
        /\ job'[b].keep = job[b].keep
    BY <1>1, <1>2, <2>1 DEF BackupTypes, OthersStay
  <2>3. BackupTypes'
    BY <1>1, <1>2, <2>1, <2>2 DEF BackupTypes, OthersStay
  <2>4. \A o \in Busy' : o \in Backups /\ o \in Busy /\ o # b /\ job'[o] = job[o]
    BY <2>2 DEF OthersStay, Busy, Active
  <2>5. Apart'
    <3>1. Apart /\ UNCHANGED shared
      BY <1>2
    <3> QED
      BY <2>4, <3>1 DEF Apart
  <2>6. ASSUME NEW n, n # m, Writing(n)
        PROVE  Writing(n)'
    BY <1>1, <2>2, <2>6 DEF Writing, OthersStay
  <2>7. ASSUME NEW o \in Busy'
        PROVE  Owns(o)' /\ Behind(o)'
    <3>1. o \in Busy /\ Owns(o) /\ Behind(o) /\ job'[o] = job[o] /\ UNCHANGED <<shared, archive>>
      BY <1>2, <2>1, <2>4, <2>7 DEF BackupInv
    <3>2. Owns(o)'
      BY <3>1 DEF Owns, Good
    <3>3. Behind(o)'
      BY <1>3, <2>6, <3>1 DEF Behind, Good
    <3> QED
      BY <3>2, <3>3
  <2> QED
    BY <2>3, <2>5, <2>7 DEF BackupInv
<1>4. CASE m \in DOMAIN archive
  <2>1. PICK s \in Outcomes(b) : archive' = [archive EXCEPT ![m].state = s]
    BY <1>1, <1>4 DEF CloseZip
  <2>2. job' = [job EXCEPT ![b].pc = "clean"]
    BY <1>1, <1>4 DEF CloseZip, JobGoto
  <2>3. /\ OthersStay(b) /\ job'[b].pc = "clean" /\ job'[b].stamp = m
        /\ job'[b].keep = job[b].keep /\ job'[b].edits = job[b].edits
    BY <1>1, <1>2, <2>2 DEF BackupTypes, OthersStay
  <2>4. /\ DOMAIN archive' = DOMAIN archive /\ archive'[m].state = s
        /\ DOMAIN archive'[m] = DOMAIN archive[m] /\ archive'[m].edits = archive[m].edits
        /\ \A n \in DOMAIN archive \ {m} : archive'[n] = archive[n]
    BY <1>2, <1>4, <2>1 DEF BackupTypes
  <2>5. BackupTypes'
    <3>1. \A n \in DOMAIN archive' : {"state", "by", "edits"} \subseteq DOMAIN archive'[n]
      BY <1>2, <2>4 DEF BackupTypes
    <3> QED
      BY <1>1, <1>2, <2>3, <2>4, <3>1 DEF BackupTypes, OthersStay
  <2>6. /\ Busy' = Busy
        /\ \A o \in Busy : o \in Backups /\ job'[o].stamp = job[o].stamp /\ (o # b => job'[o] = job[o])
    BY <1>1, <1>2, <2>3 DEF OthersStay, Busy, Active
  <2>7. Apart'
    <3>1. Apart /\ UNCHANGED shared
      BY <1>2
    <3> QED
      BY <2>6, <3>1 DEF Apart
  <2>8. m \notin shared => s = "whole" /\ archive[m].edits = job[b].edits
    <3>1. Owns(b)
      BY <1>2 DEF BackupInv
    <3>2. m \notin shared => archive[m].by = b /\ archive[m].edits = job[b].edits
      BY <1>1, <1>2, <1>4, <3>1 DEF Owns
    <3> QED
      BY <1>1, <3>2 DEF Outcomes
  <2>9. ASSUME NEW n, n # m, Writing(n)
        PROVE  Writing(n)'
    BY <1>1, <2>3, <2>9 DEF Writing, OthersStay
  <2>10. ASSUME NEW o \in Busy, o # b, job[o].stamp \notin shared
         PROVE  job[o].stamp # m
    BY <1>1, <1>2, <2>10 DEF Apart
  <2>11. ASSUME NEW o \in Busy'
         PROVE  Owns(o)' /\ Behind(o)'
    <3>1. /\ o \in Busy /\ Owns(o) /\ Behind(o) /\ job'[o].stamp = job[o].stamp
          /\ UNCHANGED shared
      BY <1>2, <2>6, <2>11 DEF BackupInv
    <3>2. Owns(o)'
      <4>1. CASE o = b
        BY <1>4, <2>3, <2>4, <2>8, <3>1, <4>1 DEF Owns, Good
      <4>2. CASE o # b
        <5>1. job'[o] = job[o] /\ (job[o].stamp \notin shared => job[o].stamp # m)
          BY <2>6, <2>10, <3>1, <4>2
        <5> QED
          BY <2>4, <3>1, <5>1 DEF Owns, Good
      <4> QED
        BY <4>1, <4>2
    <3>3. Behind(o)'
      <4> SUFFICES ASSUME NEW n \in DOMAIN archive' \ shared, ~Good(n)', job[o].stamp \notin shared
                   PROVE  \/ Writing(n)'
                          \/ /\ n < job[o].stamp
                             /\ job'[o].pc = "clean" => job[o].stamp \in DOMAIN archive'
        BY <3>1 DEF Behind
      <4>1. n # m
        BY <2>4, <2>8 DEF Good
      <4>2. n \in DOMAIN archive \ shared /\ ~Good(n)
        BY <2>4, <4>1 DEF Good
      <4>3. CASE Writing(n)
        BY <2>9, <4>1, <4>3
      <4>4. CASE n < job[o].stamp /\ (job[o].pc = "clean" => job[o].stamp \in DOMAIN archive)
        <5>1. o = b => job[o].stamp \in DOMAIN archive
          BY <1>1, <1>4
        <5> QED
          BY <2>4, <2>6, <3>1, <4>4, <5>1
      <4> QED
        BY <3>1, <4>2, <4>3, <4>4 DEF Behind
    <3> QED
      BY <3>2, <3>3
  <2> QED
    BY <2>5, <2>7, <2>11 DEF BackupInv
<1> QED
  BY <1>3, <1>4

\* The names of archives are finitely many natural numbers.
LEMMA ListedFinite ==
  ASSUME BackupTypes
  PROVE  /\ Listed \in SUBSET Nat /\ IsFiniteSet(Listed)
         /\ \A n : Newer(n) \in SUBSET Listed /\ IsFiniteSet(Newer(n)) /\ Cardinality(Newer(n)) \in Nat
<1>1. Listed \in SUBSET (0 .. clock) /\ clock \in Nat
  BY DEF BackupTypes, Listed
<1>2. IsFiniteSet(0 .. clock)
  BY <1>1, FS_Interval
<1>3. IsFiniteSet(Listed)
  BY <1>1, <1>2, FS_Subset
<1>4. ASSUME NEW n
      PROVE  Newer(n) \in SUBSET Listed /\ IsFiniteSet(Newer(n)) /\ Cardinality(Newer(n)) \in Nat
  <2>1. Newer(n) \in SUBSET Listed
    BY DEF Newer
  <2> QED
    BY <1>3, <2>1, FS_Subset, FS_CardinalityType
<1> QED
  BY <1>1, <1>3, <1>4

\* What is older than a file that retention removes is removed with it.
LEMMA SurplusIsOldest ==
  ASSUME BackupTypes, NEW keep \in Nat, NEW m \in Surplus(keep), NEW n \in Listed, n < m
  PROVE  n \in Surplus(keep)
<1>1. m \in Listed /\ Cardinality(Newer(m)) >= keep
  BY DEF Surplus
<1>2. Newer(m) \in SUBSET Newer(n)
  <2>1. ASSUME NEW k \in Newer(m)
        PROVE  k \in Newer(n)
    <3>1. k \in Listed /\ k > m
      BY DEF Newer
    <3>2. k \in Nat /\ m \in Nat /\ n \in Nat
      BY <1>1, <3>1, ListedFinite
    <3>3. k > n
      BY <3>1, <3>2
    <3> QED
      BY <3>1, <3>3 DEF Newer
  <2> QED
    BY <2>1
<1>3. /\ Cardinality(Newer(m)) <= Cardinality(Newer(n))
      /\ Cardinality(Newer(m)) \in Nat /\ Cardinality(Newer(n)) \in Nat
  BY <1>2, ListedFinite, FS_Subset
<1> QED
  BY <1>1, <1>3 DEF Surplus

\* Retention removes the oldest.
LEMMA CleanUpKeeps ==
  ASSUME BackupInv, NEW b \in Backups, CleanUp(b)
  PROVE  BackupInv'
<1>1. PICK keep \in {job[b].keep} : keep = job[b].keep
  OBVIOUS
<1>2. PICK gone \in SUBSET Listed :
        /\ DOMAIN archive' = Listed \ gone
        /\ \A n \in Listed \ gone : archive'[n] = archive[n]
        /\ gone = {} \/ gone = Surplus(keep)
  <2>1. CASE job[b].cancelled \/ keep < 1
    <3>1. archive' = archive
      BY <1>1, <2>1 DEF CleanUp
    <3> QED
      BY <3>1 DEF Listed
  <2>2. CASE ~job[b].cancelled /\ ~(keep < 1)
    <3>1. archive' = [n \in Listed \ Surplus(keep) |-> archive[n]]
      BY <1>1, <2>2 DEF CleanUp
    <3>2. Surplus(keep) \in SUBSET Listed
      BY DEF Surplus
    <3> QED
      BY <3>1, <3>2
  <2> QED
    BY <2>1, <2>2
<1>3. PICK p \in {"cancelled", "completed"} : job' = [job EXCEPT ![b].pc = p]
  BY DEF CleanUp, JobGoto
<1>4. /\ BackupTypes /\ Apart /\ UNCHANGED <<clock, shared>> /\ job[b].pc = "clean"
      /\ keep \in Nat
  BY <1>1 DEF CleanUp, BackupInv, BackupTypes, readVars
<1>5. /\ OthersStay(b) /\ job'[b].pc = p /\ job'[b].stamp = job[b].stamp
      /\ job'[b].keep = job[b].keep
  BY <1>3, <1>4 DEF BackupTypes, OthersStay
<1>6. BackupTypes'
  BY <1>2, <1>4, <1>5 DEF BackupTypes, OthersStay, Listed
<1>7. \A o \in Busy' : o \in Backups /\ o \in Busy /\ o # b /\ job'[o] = job[o]
  BY <1>5 DEF OthersStay, Busy, Active
<1>8. Apart'
  <2>1. Apart /\ UNCHANGED shared
    BY <1>4
  <2> QED
    BY <1>7, <2>1 DEF Apart
<1>9. ASSUME NEW n, Writing(n)
      PROVE  Writing(n)'
  BY <1>4, <1>5, <1>9 DEF Writing, OthersStay
<1>10. ASSUME NEW o \in Busy'
       PROVE  Owns(o)' /\ Behind(o)'
  <2>1. o \in Busy /\ Owns(o) /\ Behind(o) /\ job'[o] = job[o] /\ UNCHANGED shared
    BY <1>4, <1>7, <1>10 DEF BackupInv
  <2>2. Owns(o)'
    BY <1>2, <2>1 DEF Owns, Good, Listed
  <2>3. Behind(o)'
    <3> SUFFICES ASSUME NEW n \in DOMAIN archive' \ shared, ~Good(n)', job[o].stamp \notin shared
                 PROVE  \/ Writing(n)'
                        \/ /\ n < job[o].stamp
                           /\ job[o].pc = "clean" => job[o].stamp \in DOMAIN archive'
      BY <2>1 DEF Behind
    <3>1. n \in Listed /\ n \notin gone /\ n \in DOMAIN archive \ shared /\ ~Good(n)
      BY <1>2 DEF Good, Listed
    <3>2. CASE Writing(n)
      BY <1>9, <3>2
    <3>3. CASE n < job[o].stamp /\ (job[o].pc = "clean" => job[o].stamp \in DOMAIN archive)
      <4>1. job[o].stamp \notin gone
        BY <1>2, <1>4, <3>1, <3>3, SurplusIsOldest
      <4> QED
        BY <1>2, <3>3, <4>1 DEF Listed
    <3> QED
      BY <2>1, <3>1, <3>2, <3>3 DEF Behind
  <2> QED
    BY <2>2, <2>3
<1> QED
  BY <1>6, <1>8, <1>10 DEF BackupInv

\* A crash or a stop ends every backup that is at work.
LEMMA DownKeepsBackups ==
  ASSUME BackupInv, NEW left, Down(left)
  PROVE  BackupInv'
<1>1. /\ BackupTypes /\ UNCHANGED <<clock, shared>>
      /\ job' = [b \in Backups |-> IF job[b].pc \in Active THEN [job[b] EXCEPT !.pc = "failed"] ELSE job[b]]
      /\ archive' = [n \in DOMAIN archive |->
           IF \E b \in Backups : job[b].pc = "zipping" /\ job[b].stamp = n /\ archive[n].by = b
           THEN [archive[n] EXCEPT !.state = left] ELSE archive[n]]
  BY DEF Down, BackupInv
<1>2. \A b \in Backups :
        /\ DOMAIN job'[b] = DOMAIN job[b] /\ job'[b].pc \notin Active
        /\ job'[b].keep = job[b].keep /\ job'[b].stamp = job[b].stamp
  <2> TAKE b \in Backups
  <2>1. "pc" \in DOMAIN job[b]
    BY <1>1 DEF BackupTypes
  <2>2. CASE job[b].pc \in Active
    BY <1>1, <2>1, <2>2 DEF Active
  <2>3. CASE job[b].pc \notin Active
    BY <1>1, <2>3
  <2> QED
    BY <2>2, <2>3
<1>3. /\ DOMAIN archive' = DOMAIN archive
      /\ \A n \in DOMAIN archive : DOMAIN archive'[n] = DOMAIN archive[n]
  BY <1>1
<1>4. BackupTypes'
  BY <1>1, <1>2, <1>3 DEF BackupTypes
<1>5. Busy' = {}
  BY <1>2 DEF Busy
<1> QED
  BY <1>4, <1>5 DEF BackupInv, Apart

\* Every step keeps backups and archives in order.
LEMMA BackupInvStep == BackupInv /\ [Next]_vars => BackupInv'
<1> SUFFICES ASSUME BackupInv, [Next]_vars PROVE BackupInv'
  OBVIOUS
<1>1. BackupTypes
  BY DEF BackupInv
<1>2. ASSUME NEW b \in Backups, BackupStep(b) \/ BackupFails(b)
      PROVE  BackupInv'
  BY <1>2, StartBackupKeeps, SnapshotKeeps, OpenZipKeeps, CloseZipKeeps, CleanUpKeeps,
     BackupFailsKeeps DEF BackupStep
<1>3. ASSUME NEW b \in Backups, NEW keep \in Retentions, SubmitBackup(b, keep)
      PROVE  BackupInv'
  <2>1. /\ job' = [job EXCEPT ![b].pc = "queued", ![b].keep = keep] /\ job[b].pc = "none"
        /\ UNCHANGED <<archive, shared, clock>>
    BY <1>3 DEF SubmitBackup, readVars
  <2>2. keep \in Nat
    BY MaintenanceAssumption
  <2>3. /\ OthersStay(b) /\ job'[b].keep = keep /\ job'[b].pc = "queued"
        /\ job'[b].stamp = job[b].stamp /\ job'[b].edits = job[b].edits
    BY <1>1, <2>1 DEF BackupTypes, OthersStay
  <2> QED
    BY <2>1, <2>2, <2>3, MarkKeeps DEF Active
<1>4. ASSUME NEW b \in Backups, CancelBackup(b)
      PROVE  BackupInv'
  <2>1. /\ job' = [job EXCEPT ![b].cancelled = TRUE] /\ UNCHANGED <<archive, shared, clock>>
    BY <1>4 DEF CancelBackup, readVars
  <2>2. /\ OthersStay(b) /\ job'[b].keep = job[b].keep /\ job'[b].pc = job[b].pc
        /\ job'[b].stamp = job[b].stamp /\ job'[b].edits = job[b].edits
    BY <1>1, <2>1 DEF BackupTypes, OthersStay
  <2>3. job'[b].keep \in Nat
    BY <1>1, <2>2 DEF BackupTypes
  <2> QED
    BY <2>1, <2>2, <2>3, MarkKeeps
<1>5. CASE Start \/ Migrate \/ StatementFails
  <2>1. UNCHANGED <<backups, clock>>
    BY <1>5 DEF Start, Migrate, RunStatement, RecordVersion, Up, StatementFails, readVars
  <2> QED
    BY <1>1, <2>1, BackupAsideKeeps DEF BackupTypes
<1>6. CASE Serve
  <2>1. UNCHANGED backups
    BY <1>6 DEF Serve, upVars, backups
  <2>2. UNCHANGED clock \/ clock' = clock + 1
    <3>1. ReadNext
      BY <1>6 DEF Serve
    <3>2. ASSUME NEW c \in Callers, NEW r \in Requests, Begin(c, r) \/ Pick(c, r)
          PROVE  UNCHANGED clock
      BY <3>2, ZenonT(40) DEF Begin, Pick
    <3>3. ASSUME NEW c \in Callers, CallStep(c) \/ CancelJob(c) \/ Return(c)
          PROVE  UNCHANGED clock
      BY <3>3 DEF CallStep, CancelJob, Return, CountRows, FetchRows, Lookup, Compute, JobCount,
                  NextPage, RequestRows, ReadVideo, WriteNfo, WriteFails, PageDone, WriteArtists,
                  ExportPlaylist, CreateSaved, ReadBack, DeleteSaved, RunTask
    <3>4. ASSUME NEW v \in Videos, Edit(v)
          PROVE  UNCHANGED clock
      BY <3>4 DEF Edit
    <3> QED
      BY <3>1, <3>2, <3>3, <3>4 DEF ReadNext, Tick
  <2>3. clock' \in Nat /\ clock' >= clock
    BY <1>1, <2>2 DEF BackupTypes
  <2> QED
    BY <2>1, <2>3, BackupAsideKeeps
<1>7. CASE Crash \/ Stop
  BY <1>7, DownKeepsBackups DEF Crash, Stop
<1>8. CASE UNCHANGED vars
  <2>1. UNCHANGED <<backups, clock>>
    BY <1>8 DEF vars, readVars, upVars, backups
  <2> QED
    BY <1>1, <2>1, BackupAsideKeeps DEF BackupTypes
<1> QED
  BY <1>2, <1>3, <1>4, <1>5, <1>6, <1>7, <1>8 DEF Next

\* At the start there is no archive and no backup.
LEMMA BackupInvInit == Init => BackupInv
<1> SUFFICES ASSUME Init PROVE BackupInv
  OBVIOUS
<1>1. /\ job = [b \in Backups |-> [pc |-> "none", stamp |-> 0, keep |-> 0, edits |-> 0, cancelled |-> FALSE]]
      /\ archive = <<>> /\ shared = {} /\ clock = 0
  BY DEF Init, ReadInit
<1>2. BackupTypes
  BY <1>1 DEF BackupTypes
<1>3. Busy = {}
  BY <1>1 DEF Busy, Active
<1> QED
  BY <1>2, <1>3 DEF BackupInv, Apart

\* What retention does to the archives.
Retains(b) ==
  LET keep == job[b].keep IN
  /\ job[b].pc = "clean" /\ keep >= 1 /\ keep \in Nat
  /\ DOMAIN archive' = Listed \ Surplus(keep)
  /\ \A n \in Listed \ Surplus(keep) : archive'[n] = archive[n]

\* Nothing but retention takes a good archive that one backup has written.
LEMMA GoodIsRetired ==
  ASSUME BackupInv, [Next]_vars, NEW n \in DOMAIN archive \ shared', Good(n), ~Good(n)'
  PROVE  \E b \in Backups : Retains(b) /\ n \in Surplus(job[b].keep)
<1>1. BackupTypes /\ archive[n].state = "whole" /\ "state" \in DOMAIN archive[n]
  BY DEF BackupInv, BackupTypes, Good
<1>2. ~(UNCHANGED archive)
  BY DEF Good
<1>3. shared \subseteq shared' /\ n \notin shared
  <2>1. ASSUME NEW b \in Backups, BackupStep(b) \/ BackupFails(b) \/ CancelBackup(b)
        PROVE  shared \subseteq shared'
    BY <2>1 DEF BackupStep, StartBackup, Snapshot, OpenZip, CloseZip, CleanUp, BackupFails, CancelBackup
  <2>2. ASSUME NEW b \in Backups, NEW keep \in Retentions, SubmitBackup(b, keep)
        PROVE  shared \subseteq shared'
    BY <2>2 DEF SubmitBackup
  <2>3. CASE Start \/ Migrate \/ StatementFails \/ Crash \/ Stop \/ Serve \/ UNCHANGED vars
    BY <2>3 DEF Start, Migrate, RunStatement, RecordVersion, Up, StatementFails, Crash, Stop, Down,
                Serve, vars, upVars, backups
  <2>4. shared \subseteq shared'
    BY <2>1, <2>2, <2>3 DEF Next
  <2> QED
    BY <2>4
<1>4. ASSUME NEW b \in Busy, job[b].stamp = n
      PROVE  job[b].pc = "clean"
  <2>1. Owns(b)
    BY DEF BackupInv
  <2> QED
    BY <1>1, <1>3, <1>4, <2>1 DEF Owns, Busy, Active
<1>5. ASSUME NEW b \in Backups, CleanUp(b)
      PROVE  Retains(b) /\ n \in Surplus(job[b].keep)
  <2>1. job[b].pc = "clean" /\ job[b].keep \in Nat /\ ~job[b].cancelled /\ ~(job[b].keep < 1)
    BY <1>1, <1>2, <1>5 DEF CleanUp, BackupTypes
  <2>2. archive' = [m \in Listed \ Surplus(job[b].keep) |-> archive[m]]
    BY <1>5, <2>1 DEF CleanUp
  <2>3. n \in Surplus(job[b].keep)
    BY <1>1, <2>2 DEF Good, Listed
  <2> QED
    BY <2>1, <2>2, <2>3 DEF Retains
<1>6. ASSUME NEW b \in Backups, StartBackup(b) \/ Snapshot(b) \/ CancelBackup(b)
      PROVE  FALSE
  BY <1>2, <1>6 DEF StartBackup, Snapshot, CancelBackup
<1>7. ASSUME NEW b \in Backups, OpenZip(b)
      PROVE  FALSE
  <2>1. job[b].stamp # n
    BY <1>4, <1>7 DEF OpenZip, Busy, Active
  <2>2. n \in DOMAIN archive' /\ archive'[n] = archive[n]
    BY <1>7, <2>1 DEF OpenZip
  <2> QED
    BY <2>2 DEF Good
<1>8. ASSUME NEW b \in Backups, CloseZip(b)
      PROVE  FALSE
  <2>1. job[b].stamp # n
    BY <1>4, <1>8 DEF CloseZip, Busy, Active
  <2>2. PICK s : archive' = [archive EXCEPT ![job[b].stamp].state = s]
    BY <1>2, <1>8 DEF CloseZip
  <2>3. n \in DOMAIN archive' /\ archive'[n] = archive[n]
    BY <2>1, <2>2
  <2> QED
    BY <2>3 DEF Good
<1>9. ASSUME NEW b \in Backups, BackupFails(b)
      PROVE  FALSE
  <2>1. job[b].stamp # n
    BY <1>4, <1>9 DEF BackupFails, Busy, Active
  <2>2. n \in DOMAIN archive' /\ archive'[n] = archive[n]
    BY <1>9, <2>1 DEF BackupFails, RemoveFile, Gone
  <2> QED
    BY <2>2 DEF Good
<1>10. ASSUME NEW left, Down(left)
       PROVE  FALSE
  <2>1. ~ \E b \in Backups : job[b].pc = "zipping" /\ job[b].stamp = n /\ archive[n].by = b
    BY <1>4 DEF Busy, Active
  <2>2. n \in DOMAIN archive' /\ archive'[n] = archive[n]
    BY <1>10, <2>1 DEF Down
  <2> QED
    BY <2>2 DEF Good
<1>11. ASSUME NEW b \in Backups, NEW keep \in Retentions, SubmitBackup(b, keep)
       PROVE  FALSE
  BY <1>2, <1>11 DEF SubmitBackup
<1>12. ~(Start \/ Migrate \/ StatementFails \/ Serve \/ UNCHANGED vars)
  BY <1>2 DEF Start, Migrate, RunStatement, RecordVersion, Up, StatementFails, Serve, vars, upVars, backups
<1> QED
  BY <1>5, <1>6, <1>7, <1>8, <1>9, <1>10, <1>11, <1>12 DEF Next, BackupStep, Crash, Stop

\* A non-empty set of names of archives has a greatest element.
LEMMA MaxExists ==
  ASSUME NEW S, S # {}, NEW top \in Nat, S \subseteq 0 .. top
  PROVE  \E m \in S : \A n \in S : n <= m
<1> DEFINE D == {top - n : n \in S}
<1>1. D \in SUBSET Nat /\ D # {}
  <2>1. \A n \in S : top - n \in Nat
    OBVIOUS
  <2> QED
    BY <2>1
<1>2. \E d \in D : \A e \in D : d <= e
  <2> HIDE DEF D
  <2> QED
    BY <1>1, MinExists
<1>3. PICK d \in D : \A e \in D : d <= e
  BY <1>2
<1>4. PICK m \in S : d = top - m
  BY <1>3
<1>5. ASSUME NEW n \in S
      PROVE  n <= m
  <2>1. top - m <= top - n
    BY <1>3, <1>4
  <2>2. n \in Nat /\ m \in Nat
    OBVIOUS
  <2> QED
    BY <2>1, <2>2
<1> QED
  BY <1>5

\* Among the archives newer than the newest good one there are, beside shared
\* ones, only those that other backups are writing.
LEMMA NewerAreFew ==
  ASSUME BackupInv, NEW b \in Backups, job[b].pc = "clean", job[b].stamp \notin shared,
         NEW m \in Listed \ shared, Good(m), \A n \in Listed \ shared : Good(n) => n <= m
  PROVE  Cardinality(Newer(m)) <= Cardinality(Busy \ {b}) + Cardinality(shared)
<1> DEFINE Own == Newer(m) \ shared
           Old == Newer(m) \cap shared
           others == Busy \ {b}
<1>1. BackupTypes /\ Apart /\ b \in Busy /\ Owns(b) /\ Behind(b)
  BY DEF BackupInv, Busy, Active
<1>2. ASSUME NEW n \in Own
      PROVE  \E o \in others : job[o].stamp = n
  <2>1. n \in Listed \ shared /\ n > m
    BY DEF Newer
  <2>2. n \in Nat /\ m \in Nat /\ job[b].stamp \in Nat
    BY <1>1, <2>1, ListedFinite DEF BackupTypes
  <2>3. ~Good(n)
    BY <2>1, <2>2
  <2>4. ~(n < job[b].stamp /\ job[b].stamp \in DOMAIN archive)
    <3> SUFFICES ASSUME n < job[b].stamp, job[b].stamp \in DOMAIN archive PROVE FALSE
      OBVIOUS
    <3>1. Good(job[b].stamp)
      BY <1>1 DEF Owns
    <3>2. job[b].stamp <= m
      BY <3>1 DEF Listed
    <3> QED
      BY <2>1, <2>2, <3>2
  <2>5. Writing(n)
    BY <1>1, <2>1, <2>3, <2>4 DEF Behind, Listed
  <2> QED
    BY <2>5 DEF Writing, Busy, Active
<1>3. IsFiniteSet(others) /\ IsFiniteSet(shared)
  <2>1. Busy \ {b} \in SUBSET Backups /\ IsFiniteSet(Backups)
    BY MaintenanceAssumption DEF Busy
  <2>2. shared \in SUBSET (0 .. clock) /\ clock \in Nat
    BY <1>1 DEF BackupTypes
  <2>3. IsFiniteSet(0 .. clock)
    BY <2>2, FS_Interval
  <2> QED
    BY <2>1, <2>2, <2>3, FS_Subset
<1>4. /\ IsFiniteSet(Own) /\ IsFiniteSet(Old) /\ Cardinality(Old) <= Cardinality(shared)
      /\ Cardinality(Own) \in Nat /\ Cardinality(Old) \in Nat
      /\ Cardinality(others) \in Nat /\ Cardinality(shared) \in Nat
  <2>1. IsFiniteSet(Newer(m)) /\ Own \in SUBSET Newer(m) /\ Old \in SUBSET shared
    BY <1>1, ListedFinite
  <2> QED
    BY <1>3, <2>1, FS_Subset, FS_CardinalityType
<1>5. Cardinality(Own) <= Cardinality(others)
  <2> SUFFICES ASSUME Cardinality(others) < Cardinality(Own) PROVE FALSE
    BY <1>4
  <2> DEFINE writer == [n \in Own |-> CHOOSE o \in others : job[o].stamp = n]
  <2>1. \A n \in Own : writer[n] \in others /\ job[writer[n]].stamp = n
    BY <1>2
  <2>2. writer \in [Own -> others]
    BY <2>1
  <2> HIDE DEF writer, Own, others
  <2>3. PICK x \in Own, y \in Own : x # y /\ writer[x] = writer[y]
    BY <1>3, <1>4, <2>2, FS_PigeonHole
  <2> QED
    BY <2>1, <2>3
<1>6. Cardinality(Newer(m)) = Cardinality(Own) + Cardinality(Old)
  <2>1. Newer(m) = Own \cup Old /\ Own \cap Old = {}
    OBVIOUS
  <2> HIDE DEF Own, Old
  <2>2. Cardinality(Own \cup Old) = Cardinality(Own) + Cardinality(Old) - Cardinality(Own \cap Old)
    BY <1>4, FS_Union
  <2>3. Cardinality(Own \cap Old) = 0
    BY <2>1, FS_EmptySet
  <2> QED
    BY <1>4, <2>1, <2>2, <2>3
<1> QED
  BY <1>4, <1>5, <1>6

\* A backup completes by its clean-up.
LEMMA CompletesInCleanUp ==
  ASSUME BackupInv, [Next]_vars, NEW b \in Backups, job[b].pc = "clean", job'[b].pc = "completed"
  PROVE  CleanUp(b)
<1>1. BackupTypes
  BY DEF BackupInv
<1>2. ~ UNCHANGED job
  OBVIOUS
<1>3. ASSUME NEW o \in Backups, BackupStep(o) \/ BackupFails(o) \/ CancelBackup(o)
      PROVE  o = b
  <2>1. \A d \in Backups \ {o} : job'[d] = job[d]
    BY <1>1, <1>3 DEF BackupTypes, BackupStep, StartBackup, Snapshot, OpenZip, CloseZip, CleanUp,
                      BackupFails, CancelBackup, JobGoto
  <2> QED
    BY <2>1
<1>4. ASSUME NEW o \in Backups, NEW keep \in Retentions, SubmitBackup(o, keep)
      PROVE  FALSE
  <2>1. job[o].pc = "none" /\ job' = [job EXCEPT ![o].pc = "queued", ![o].keep = keep]
    BY <1>4 DEF SubmitBackup
  <2>2. o # b
    BY <2>1
  <2> QED
    BY <1>1, <2>1, <2>2 DEF BackupTypes
<1>5. ASSUME NEW left, Down(left)
      PROVE  FALSE
  <2>1. job' = [o \in Backups |-> IF job[o].pc \in Active THEN [job[o] EXCEPT !.pc = "failed"] ELSE job[o]]
    BY <1>5 DEF Down
  <2>2. job'[b].pc = "failed"
    BY <1>1, <2>1 DEF BackupTypes, Active
  <2> QED
    BY <2>2
<1>6. ~(Start \/ Migrate \/ StatementFails \/ Serve \/ UNCHANGED vars)
  BY <1>2 DEF Start, Migrate, RunStatement, RecordVersion, Up, StatementFails, Serve, vars, upVars, backups
<1>7. ~(StartBackup(b) \/ Snapshot(b) \/ OpenZip(b) \/ CloseZip(b) \/ BackupFails(b))
  BY DEF StartBackup, Snapshot, OpenZip, CloseZip, BackupFails
<1>8. ~CancelBackup(b)
  <2> SUFFICES ASSUME CancelBackup(b) PROVE FALSE
    OBVIOUS
  <2>1. job' = [job EXCEPT ![b].cancelled = TRUE]
    BY DEF CancelBackup
  <2> QED
    BY <1>1, <2>1 DEF BackupTypes
<1> QED
  BY <1>3, <1>4, <1>5, <1>6, <1>7, <1>8 DEF Next, BackupStep, Crash, Stop

\* Archives last: a good one is lost to retention alone, which leaves one; and
\* a backup that completes has left one (services/backup_service.py,
\* cleanup_old_backups; core/db/backup.py, create_backup; tasks/handlers.py,
\* handle_backup).
THEOREM GoodArchiveStaysCorrect == Spec => GoodArchiveStays
<1> DEFINE one ==
             HasGoodArchive /\ ~HasGoodArchive' =>
               \/ shared' # shared
               \/ \E b \in Backups :
                    /\ job[b].pc = "clean"
                    /\ \/ job[b].stamp \in shared
                       \/ job[b].keep <= Cardinality(Busy \ {b}) + Cardinality(shared)
           each ==
             \A n \in DOMAIN archive \ shared' : Good(n) /\ ~Good(n)' =>
               \E b \in Backups :
                 job[b].pc = "clean" /\ job[b].keep >= 1 /\ Cardinality(Newer(n)) >= job[b].keep
           done ==
             \A b \in Backups :
               /\ job[b].pc = "clean" /\ job'[b].pc = "completed"
               /\ job[b].stamp \in DOMAIN archive' \ shared
               => Good(job[b].stamp)' /\ archive'[job[b].stamp].edits = job[b].edits
<1>1. ASSUME BackupInv, [Next]_vars
      PROVE  one
  <2> SUFFICES ASSUME HasGoodArchive, ~HasGoodArchive', shared' = shared,
                      \A b \in Backups : job[b].pc = "clean" => job[b].stamp \notin shared
               PROVE  \E b \in Backups :
                        /\ job[b].pc = "clean"
                        /\ job[b].keep <= Cardinality(Busy \ {b}) + Cardinality(shared)
    OBVIOUS
  <2>1. BackupTypes /\ clock \in Nat /\ Listed \subseteq 0 .. clock
    BY <1>1 DEF BackupInv, BackupTypes, Listed
  <2>2. PICK n0 \in Listed \ shared : Good(n0)
    BY DEF HasGoodArchive, Listed
  <2>3. \A n \in Listed \ shared : ~Good(n)'
    BY DEF HasGoodArchive, Good
  <2>4. PICK b \in Backups : Retains(b)
    BY <1>1, <2>2, <2>3, GoodIsRetired DEF Listed
  <2>5. PICK m \in {n \in Listed \ shared : Good(n)} : \A n \in {k \in Listed \ shared : Good(k)} : n <= m
    <3> DEFINE S == {n \in Listed \ shared : Good(n)}
    <3>1. S # {} /\ S \subseteq 0 .. clock
      BY <2>1, <2>2
    <3> HIDE DEF S
    <3>2. \E m \in S : \A n \in S : n <= m
      BY <2>1, <3>1, MaxExists
    <3> QED
      BY <3>2 DEF S
  <2>6. m \in Surplus(job[b].keep)
    BY <2>3, <2>4, <2>5 DEF Retains, Good
  <2>7. Cardinality(Newer(m)) <= Cardinality(Busy \ {b}) + Cardinality(shared)
    BY <1>1, <2>4, <2>5, NewerAreFew DEF Retains
  <2>8. /\ Cardinality(Newer(m)) \in Nat /\ job[b].keep \in Nat /\ job[b].pc = "clean"
        /\ Cardinality(Newer(m)) >= job[b].keep
    BY <2>1, <2>4, <2>6, ListedFinite DEF Retains, Surplus
  <2>9. Cardinality(Busy \ {b}) \in Nat /\ Cardinality(shared) \in Nat
    <3>1. Busy \ {b} \in SUBSET Backups /\ IsFiniteSet(Backups)
      BY MaintenanceAssumption DEF Busy
    <3>2. shared \in SUBSET (0 .. clock) /\ IsFiniteSet(0 .. clock)
      BY <2>1, FS_Interval DEF BackupTypes
    <3> QED
      BY <3>1, <3>2, FS_Subset, FS_CardinalityType
  <2>10. job[b].keep <= Cardinality(Busy \ {b}) + Cardinality(shared)
    <3> DEFINE x == Cardinality(Newer(m))
               y == Cardinality(Busy \ {b})
               z == Cardinality(shared)
               k == job[b].keep
    <3>1. x <= y + z /\ x >= k /\ {x, y, z, k} \subseteq Nat
      BY <2>7, <2>8, <2>9
    <3> HIDE DEF x, y, z, k
    <3>2. k <= y + z
      BY <3>1
    <3> QED
      BY <3>2 DEF y, z, k
  <2> QED
    BY <2>8, <2>10
<1>2. ASSUME BackupInv, [Next]_vars
      PROVE  each
  <2> SUFFICES ASSUME NEW n \in DOMAIN archive \ shared', Good(n), ~Good(n)'
               PROVE  \E b \in Backups :
                        job[b].pc = "clean" /\ job[b].keep >= 1 /\ Cardinality(Newer(n)) >= job[b].keep
    OBVIOUS
  <2>1. PICK b \in Backups : Retains(b) /\ n \in Surplus(job[b].keep)
    BY <1>2, GoodIsRetired
  <2> QED
    BY <2>1, Zenon DEF Retains, Surplus
<1>3. ASSUME BackupInv, [Next]_vars
      PROVE  done
  <2> SUFFICES ASSUME NEW b \in Backups, job[b].pc = "clean", job'[b].pc = "completed",
                      job[b].stamp \in DOMAIN archive' \ shared
               PROVE  Good(job[b].stamp)' /\ archive'[job[b].stamp].edits = job[b].edits
    OBVIOUS
  <2>1. CleanUp(b) /\ BackupTypes /\ Owns(b)
    BY <1>3, CompletesInCleanUp DEF BackupInv, Busy, Active
  <2>2. PICK n \in {job[b].stamp} : n = job[b].stamp
    OBVIOUS
  <2>3. job'[b].stamp = n
    <3>1. \E p : job' = [job EXCEPT ![b].pc = p]
      BY <2>1, Zenon DEF CleanUp, JobGoto
    <3> QED
      BY <2>1, <2>2, <3>1 DEF BackupTypes
  <2>4. n \in DOMAIN archive /\ archive'[n] = archive[n]
    BY <2>1, <2>2 DEF CleanUp, Listed
  <2>5. n \in DOMAIN archive /\ archive[n].state = "whole" /\ archive[n].edits = job[b].edits
    BY <2>1, <2>2, <2>4 DEF Owns, Good
  <2> QED
    BY <2>2, <2>3, <2>4, <2>5 DEF Good
<1> QED
  BY <1>1, <1>2, <1>3, BackupInvInit, BackupInvStep, PTL DEF Spec, GoodArchiveStays

-----------------------------------------------------------------------------
(* Cached counts *)

\* No edit that x does not count, be it an entry or the answer of a call, was
\* made before x was asked for.
Counts(x, now, made) ==
  /\ {x.first, x.asked} \subseteq Nat /\ x.asked <= now
  /\ \A e \in 1 .. Len(made) : e > x.first => made[e] >= x.asked

Entry(x, now, made) == Counts(x, now, made) /\ x.set \in Nat /\ x.asked <= x.set /\ x.set <= now

\* What a call for a count is at, and that no other call comes there.
Counting(r) ==
  /\ "pc" \in DOMAIN r
  /\ r.pc # "idle" =>
       {"req", "first", "asked", "set", "total", "id", "left", "offset"} \subseteq DOMAIN r
  /\ r.pc # "idle" /\ r.req.kind = "counts" => r.pc \in {"counts", "compute", "done"}
  /\ r.pc \in {"counts", "compute"} => r.req \in Requests /\ r.req.kind = "counts"
  /\ r.pc = "compute" => Counts(r, clock, editAt)
  /\ r.pc = "done" /\ r.req.kind = "counts" =>
       Counts(r, clock, editAt) /\ {r.set, r.total} \subseteq Nat /\ r.total <= r.set + Ttl

CountsInv ==
  /\ clock \in Nat /\ editAt \in Seq(Nat)
  /\ DOMAIN cache = Caches
  /\ \A c \in Caches : \A k \in DOMAIN cache[c] : Entry(cache[c][k], clock, editAt)
  /\ DOMAIN call = Callers /\ \A c \in Callers : Counting(call[c])

\* A caller goes on; caches, clock and edits are as they were.
LEMMA CallerKeepsCounts ==
  ASSUME CountsInv, NEW c \in Callers, UNCHANGED <<cache, clock, editAt>>,
         DOMAIN call' = Callers, \A d \in Callers \ {c} : call'[d] = call[d],
         Counting(call[c])'
  PROVE  CountsInv'
<1>1. \A d \in Callers : Counting(call[d])'
  <2> TAKE d \in Callers
  <2>1. CASE d = c
    BY <2>1
  <2>2. CASE d # c
    BY <2>2 DEF CountsInv, Counting, Counts
  <2> QED
    BY <2>1, <2>2
<1> QED
  BY <1>1 DEF CountsInv

\* A call that is not for a count does not become one.
LEMMA OtherCallsKeepCounts ==
  ASSUME CountsInv, NEW c \in Callers, UNCHANGED <<cache, clock, editAt>>,
         DOMAIN call' = Callers, \A d \in Callers \ {c} : call'[d] = call[d],
         "pc" \in DOMAIN call'[c], call'[c].pc \notin {"counts", "compute"},
         \/ call'[c].pc = "idle"
         \/ /\ call'[c].req = call[c].req /\ DOMAIN call[c] \subseteq DOMAIN call'[c]
            /\ call[c].pc \notin {"idle", "counts", "compute", "done"}
  PROVE  CountsInv'
<1>1. Counting(call[c])
  BY DEF CountsInv
<1>2. Counting(call[c])'
  BY <1>1 DEF Counting
<1> QED
  BY <1>2, CallerKeepsCounts

\* Calls that read videos or saved things, but for a count.
LEMMA ReadersKeepCounts ==
  ASSUME CountsInv, NEW c \in Callers,
         \/ CountRows(c) \/ FetchRows(c)
         \/ JobCount(c) \/ NextPage(c) \/ RequestRows(c) \/ ReadVideo(c) \/ WriteNfo(c)
         \/ WriteFails(c) \/ PageDone(c) \/ WriteArtists(c) \/ ExportPlaylist(c) \/ CreateSaved(c) \/ ReadBack(c)
         \/ DeleteSaved(c) \/ RunTask(c) \/ CancelJob(c) \/ Return(c)
  PROVE  CountsInv'
<1>1. /\ DOMAIN call = Callers /\ "pc" \in DOMAIN call[c]
      /\ call[c].pc # "idle" => {"req", "id", "left", "offset"} \subseteq DOMAIN call[c]
  BY DEF CountsInv, Counting
<1>2. /\ UNCHANGED <<cache, clock, editAt>> /\ DOMAIN call' = Callers
      /\ \A d \in Callers \ {c} : call'[d] = call[d]
  <2>1. CASE CountRows(c) \/ FetchRows(c) \/ JobCount(c) \/ RequestRows(c)
    BY <1>1, <2>1, ZenonT(40) DEF CountRows, FetchRows, JobCount, RequestRows
  <2>2. CASE NextPage(c) \/ ReadVideo(c) \/ WriteNfo(c) \/ WriteFails(c)
    BY <1>1, <2>2 DEF NextPage, ReadVideo, WriteNfo, WriteFails, Goto
  <2>3. CASE PageDone(c) \/ WriteArtists(c) \/ ExportPlaylist(c)
    BY <1>1, <2>3 DEF PageDone, WriteArtists, ExportPlaylist, Goto
  <2>4. CASE CreateSaved(c) \/ DeleteSaved(c) \/ RunTask(c)
    BY <1>1, <2>4 DEF CreateSaved, DeleteSaved, RunTask, Finish
  <2>5. CASE ReadBack(c) \/ CancelJob(c) \/ Return(c)
    BY <1>1, <2>5 DEF ReadBack, CancelJob, Return, Finish
  <2> QED
    BY <2>1, <2>2, <2>3, <2>4, <2>5
<1>3. /\ "pc" \in DOMAIN call'[c] /\ call'[c].pc \notin {"counts", "compute"}
      /\ \/ call'[c].pc = "idle"
         \/ /\ call'[c].req = call[c].req /\ DOMAIN call[c] \subseteq DOMAIN call'[c]
            /\ call[c].pc \notin {"idle", "counts", "compute", "done"}
  <2>1. CASE CountRows(c)
    BY <1>1, <2>1 DEF CountRows, At
  <2>2. CASE FetchRows(c)
    BY <1>1, <2>2 DEF FetchRows, At
  <2>3. CASE JobCount(c)
    <3>1. call[c].pc = "nfo job" /\ call'[c].pc = "next page" /\ call'[c].req = call[c].req
          /\ DOMAIN call'[c] = DOMAIN call[c]
      BY <1>1, <2>3 DEF JobCount, At
    <3> QED
      BY <1>1, <3>1
  <2>4. CASE NextPage(c)
    <3>1. \/ \E l, o : call' = [call EXCEPT ![c].pc = "export", ![c].left = l, ![c].offset = o]
          \/ call' = [call EXCEPT ![c].pc = "artists"]
      BY <2>4 DEF NextPage, Goto
    <3>2. call[c].pc = "next page" /\ {"req", "left", "offset"} \subseteq DOMAIN call[c]
      BY <1>1, <2>4 DEF NextPage, At
    <3>3. /\ call'[c].pc \in {"export", "artists"}
          /\ call'[c].req = call[c].req /\ DOMAIN call'[c] = DOMAIN call[c]
      <4>1. CASE call' = [call EXCEPT ![c].pc = "artists"]
        BY <1>1, <4>1, <3>2
      <4>2. CASE \E l, o : call' = [call EXCEPT ![c].pc = "export", ![c].left = l, ![c].offset = o]
        <5>1. PICK l, o : call' = [call EXCEPT ![c].pc = "export", ![c].left = l, ![c].offset = o]
          BY <4>2
        <5> QED
          BY <1>1, <5>1, <3>2
      <4> QED
        BY <3>1, <4>1, <4>2
    <3> QED
      BY <1>1, <3>2, <3>3
  <2>5. CASE RequestRows(c)
    <3>1. call[c].pc = "nfo request" /\ call'[c].pc = "export" /\ call'[c].req = call[c].req
          /\ DOMAIN call'[c] = DOMAIN call[c]
      BY <1>1, <2>5 DEF RequestRows, At
    <3> QED
      BY <1>1, <3>1
  <2>6. CASE ReadVideo(c)
    <3>1. \/ \E l : call' = [call EXCEPT ![c].left = l]
          \/ \E x : call' = [call EXCEPT ![c].pc = "write", ![c].text = x]
      BY <2>6, Zenon DEF ReadVideo
    <3>2. call[c].pc = "export" /\ call'[c].pc \in {"export", "write"}
          /\ call'[c].req = call[c].req /\ DOMAIN call'[c] = DOMAIN call[c]
      BY <1>1, <2>6, <3>1 DEF ReadVideo, At
    <3> QED
      BY <1>1, <3>2
  <2>7. CASE WriteNfo(c) \/ WriteFails(c)
    <3>1. CASE WriteNfo(c)
      BY <1>1, <3>1 DEF WriteNfo, At
    <3>2. CASE WriteFails(c)
      BY <1>1, <3>2 DEF WriteFails, At
    <3> QED
      BY <2>7, <3>1, <3>2
  <2>8. CASE PageDone(c)
    <3>1. call[c].pc = "export" /\ call'[c].pc \in {"next page", "done"}
          /\ call'[c].req = call[c].req /\ DOMAIN call'[c] = DOMAIN call[c]
      BY <1>1, <2>8 DEF PageDone, Goto, At
    <3> QED
      BY <1>1, <3>1
  <2>9. CASE WriteArtists(c)
    BY <1>1, <2>9 DEF WriteArtists, Goto, At
  <2>10. CASE ExportPlaylist(c)
    BY <1>1, <2>10 DEF ExportPlaylist, At
  <2>11. CASE CreateSaved(c)
    <3>1. \/ call' = [call EXCEPT ![c] = Idle]
          \/ \E n : call' = [call EXCEPT ![c].pc = "read back", ![c].id = n]
      BY <2>11, Zenon DEF CreateSaved, Finish
    <3>2. call[c].pc = "create" /\ {"req", "id"} \subseteq DOMAIN call[c]
      BY <1>1, <2>11 DEF CreateSaved, At
    <3>3. /\ "pc" \in DOMAIN call'[c]
          /\ \/ call'[c].pc = "idle"
             \/ /\ call'[c].pc = "read back" /\ call'[c].req = call[c].req
                /\ DOMAIN call'[c] = DOMAIN call[c]
      <4>1. CASE call' = [call EXCEPT ![c] = Idle]
        BY <1>1, <4>1 DEF Idle
      <4>2. CASE \E n : call' = [call EXCEPT ![c].pc = "read back", ![c].id = n]
        <5>1. PICK n : call' = [call EXCEPT ![c].pc = "read back", ![c].id = n]
          BY <4>2
        <5> QED
          BY <1>1, <5>1, <3>2
      <4> QED
        BY <3>1, <4>1, <4>2
    <3> QED
      BY <1>1, <3>2, <3>3
  <2>12. CASE DeleteSaved(c) \/ RunTask(c)
    BY <1>1, <2>12 DEF DeleteSaved, RunTask, Finish, Idle
  <2>13. CASE ReadBack(c) \/ CancelJob(c) \/ Return(c)
    <3>1. call' = [call EXCEPT ![c] = Idle]
      BY <2>13 DEF ReadBack, CancelJob, Return, Finish
    <3> QED
      BY <1>1, <3>1 DEF Idle
  <2> QED
    BY <2>1, <2>2, <2>3, <2>4, <2>5, <2>6, <2>7, <2>8, <2>9, <2>10, <2>11, <2>12, <2>13
<1> QED
  BY <1>2, <1>3, OtherCallsKeepCounts

\* A call begins: one for a count, if it is for one.
LEMMA BeginKeepsCounts ==
  ASSUME CountsInv, NEW c \in Callers, NEW r \in Requests, Begin(c, r) \/ Pick(c, r)
  PROVE  CountsInv'
<1>1. /\ UNCHANGED <<cache, clock, editAt>> /\ DOMAIN call' = Callers
      /\ \A d \in Callers \ {c} : call'[d] = call[d]
      /\ {"pc", "req", "first", "asked", "set", "total", "id", "left", "offset"} \subseteq DOMAIN call'[c]
      /\ call'[c].pc = r.kind /\ call'[c].req = r
  <2>1. CASE Begin(c, r)
    BY <2>1 DEF Begin, Started, CountsInv
  <2>2. CASE Pick(c, r)
    <3>1. PICK i : call' = [call EXCEPT ![c] = [Started(r) EXCEPT !.id = i, !.text = Fetched(r.table, i)]]
      BY <2>2 DEF Pick
    <3> QED
      BY <2>2, <3>1 DEF Pick, Started, CountsInv
  <2> QED
    BY <2>1, <2>2
<1>2. r.kind \in Kinds
  BY CatalogueAssumption
<1>3. Counting(call[c])'
  BY <1>1, <1>2 DEF Counting, Kinds
<1> QED
  BY <1>1, <1>3, CallerKeepsCounts

\* A miss counts from the edits there are; a hit answers with an entry that has
\* not expired.
LEMMA LookupKeepsCounts ==
  ASSUME CountsInv, NEW c \in Callers, Lookup(c)
  PROVE  CountsInv'
<1> DEFINE r == call[c].req
           e == cache[r.cache][r.key]
<1>1. /\ DOMAIN call = Callers /\ Counting(call[c]) /\ call[c].pc = "counts"
      /\ UNCHANGED <<cache, clock, editAt>> /\ r \in Requests /\ r.kind = "counts"
      /\ clock \in Nat /\ Edits \in Nat
  <2>1. DOMAIN call = Callers /\ Counting(call[c]) /\ clock \in Nat
    BY DEF CountsInv
  <2>2. Edits \in Nat
    BY SMTT(30) DEF CountsInv, Edits
  <2>3. call[c].pc = "counts" /\ UNCHANGED <<cache, clock, editAt>>
    BY DEF Lookup, At
  <2>4. r \in Requests /\ r.kind = "counts"
    BY <2>1, <2>3 DEF Counting
  <2> QED
    BY <2>1, <2>2, <2>3, <2>4
<1>2. r.cache \in Caches
  BY <1>1, CatalogueAssumption
<1>3. CASE Hit(r.cache, r.key)
  <2>1. call' = [call EXCEPT ![c].pc = "done", ![c].first = e.first, ![c].asked = e.asked,
                             ![c].set = e.set, ![c].total = clock]
    BY <1>3 DEF Lookup
  <2>2. Entry(e, clock, editAt) /\ clock <= e.set + Ttl
    <3>1. r.key \in DOMAIN cache[r.cache] /\ ~Expired(r.cache, e)
      BY <1>3 DEF Hit
    <3>2. Entry(e, clock, editAt)
      BY <1>2, <3>1 DEF CountsInv
    <3>3. Ttl \in Nat
      BY CatalogueAssumption
    <3> HIDE DEF e
    <3> QED
      BY <1>1, <3>1, <3>2, <3>3 DEF Expired, Entry
  <2> HIDE DEF e
  <2>3. /\ DOMAIN call' = Callers /\ \A d \in Callers \ {c} : call'[d] = call[d]
        /\ "pc" \in DOMAIN call'[c] /\ call'[c].pc = "done"
    BY <1>1, <2>1 DEF Counting
  <2>4. Counting(call[c])'
    <3>1. /\ DOMAIN call'[c] = DOMAIN call[c] /\ call'[c].req = r
          /\ call'[c].first = e.first /\ call'[c].asked = e.asked
          /\ call'[c].set = e.set /\ call'[c].total = clock
      BY <1>1, <2>1 DEF Counting
    <3>2. {"req", "first", "asked", "set", "total", "id", "left", "offset"} \subseteq DOMAIN call[c]
      BY <1>1 DEF Counting
    <3>3. Counts(call'[c], clock, editAt) /\ {e.set, clock} \subseteq Nat /\ clock <= e.set + Ttl
      BY <1>1, <2>2, <3>1 DEF Entry, Counts
    <3> HIDE DEF r
    <3> QED
      BY <1>1, <2>3, <3>1, <3>2, <3>3 DEF Counting
  <2> QED
    BY <1>1, <2>3, <2>4, CallerKeepsCounts, SMTT(30)
<1>4. CASE ~Hit(r.cache, r.key)
  <2>1. call' = [call EXCEPT ![c].pc = "compute", ![c].first = Edits, ![c].asked = clock]
    BY <1>4 DEF Lookup
  <2>2. /\ DOMAIN call' = Callers /\ \A d \in Callers \ {c} : call'[d] = call[d]
        /\ DOMAIN call'[c] = DOMAIN call[c] /\ call'[c].pc = "compute" /\ call'[c].req = r
        /\ call'[c].first = Edits /\ call'[c].asked = clock
    BY <1>1, <2>1 DEF Counting
  <2>3. Counting(call[c])'
    BY <1>1, <2>2 DEF Counting, Counts, Edits
  <2> QED
    BY <1>1, <2>2, <2>3, CallerKeepsCounts
<1> QED
  BY <1>3, <1>4

\* What is computed is stored and served at once.
LEMMA ComputeKeepsCounts ==
  ASSUME CountsInv, NEW c \in Callers, Compute(c)
  PROVE  CountsInv'
<1> DEFINE r == call[c].req
           old == cache[r.cache]
           new == cache'[r.cache]
<1>1. /\ DOMAIN call = Callers /\ Counting(call[c]) /\ call[c].pc = "compute"
      /\ UNCHANGED <<clock, editAt>> /\ r \in Requests /\ r.kind = "counts"
      /\ clock \in Nat /\ Counts(call[c], clock, editAt) /\ DOMAIN cache = Caches
  BY DEF CountsInv, Compute, At, Counting
<1>2. r.cache \in Caches
  BY <1>1, CatalogueAssumption
<1>3. call' = [call EXCEPT ![c].pc = "done", ![c].set = clock, ![c].total = clock]
  BY DEF Compute
<1>4. /\ DOMAIN call' = Callers /\ \A d \in Callers \ {c} : call'[d] = call[d]
      /\ DOMAIN call'[c] = DOMAIN call[c] /\ call'[c].pc = "done" /\ call'[c].req = r
      /\ call'[c].first = call[c].first /\ call'[c].asked = call[c].asked
      /\ call'[c].set = clock /\ call'[c].total = clock
  BY <1>1, <1>3 DEF Counting
<1>5. \A d \in Callers : Counting(call[d])'
  <2> TAKE d \in Callers
  <2>1. CASE d = c
    <3>1. clock <= clock + Ttl
      BY <1>1, CatalogueAssumption
    <3> QED
      BY <1>1, <1>4, <2>1, <3>1 DEF Counting, Counts
  <2>2. CASE d # c
    BY <1>1, <1>4, <2>2 DEF CountsInv, Counting, Counts
  <2> QED
    BY <2>1, <2>2
<1>6. /\ DOMAIN cache' = Caches /\ \A x \in Caches \ {r.cache} : cache'[x] = cache[x]
      /\ \A k \in DOMAIN new :
           \/ k \in DOMAIN old /\ new[k] = old[k]
           \/ new[k].first = call[c].first /\ new[k].asked = call[c].asked /\ new[k].set = clock
  <2> DEFINE live == {k \in DOMAIN old : ~Expired(r.cache, old[k])}
             room == IF r.cache = "route" THEN live ELSE MakeRoom(r.cache, live)
             entry == [first |-> call[c].first, asked |-> call[c].asked, set |-> clock,
                       place |-> PlaceOf(r.cache, r.key, room)]
  <2>1. cache' = [cache EXCEPT ![r.cache] = [k \in room \cup {r.key} |-> IF k = r.key THEN entry ELSE old[k]]]
    BY DEF Compute, Put
  <2>2. room \subseteq DOMAIN old
    BY DEF MakeRoom
  <2>3. entry.first = call[c].first /\ entry.asked = call[c].asked /\ entry.set = clock
    OBVIOUS
  <2> HIDE DEF live, room, entry
  <2> QED
    BY <1>1, <1>2, <2>1, <2>2, <2>3, SMTT(30)
<1>7. ASSUME NEW x \in Caches, NEW k \in DOMAIN cache'[x]
      PROVE  Entry(cache'[x][k], clock, editAt)
  <2>1. CASE k \in DOMAIN cache[x] /\ cache'[x][k] = cache[x][k]
    BY <2>1 DEF CountsInv
  <2>2. CASE ~(k \in DOMAIN cache[x] /\ cache'[x][k] = cache[x][k])
    <3>1. x = r.cache
      BY <1>6, <2>2, <1>7
    <3>2. new[k].first = call[c].first /\ new[k].asked = call[c].asked /\ new[k].set = clock
      BY <1>6, <2>2, <3>1, <1>7
    <3> QED
      BY <1>1, <3>1, <3>2 DEF Counts, Entry
  <2> QED
    BY <2>1, <2>2
<1>8. clock' \in Nat /\ editAt' \in Seq(Nat)
  BY <1>1 DEF CountsInv
<1>9. \A x \in Caches : \A k \in DOMAIN cache'[x] : Entry(cache'[x][k], clock', editAt')
  BY <1>1, <1>7
<1> HIDE DEF new, old, r
<1> QED
  BY <1>4, <1>5, <1>6, <1>8, <1>9 DEF CountsInv

\* Edits and the clock go on; nothing that is counted is older for it.
LEMMA LaterKeepsCounts ==
  ASSUME CountsInv, UNCHANGED <<cache, call>>, clock' \in Nat, editAt' \in Seq(Nat),
         \A x : Counts(x, clock, editAt) => Counts(x, clock', editAt'), clock <= clock'
  PROVE  CountsInv'
<1>1. \A c \in Callers : Counting(call[c])'
  <2> TAKE c \in Callers
  <2>1. Counting(call[c]) /\ call'[c] = call[c]
    BY DEF CountsInv
  <2>2. Counts(call[c], clock, editAt) => Counts(call[c], clock', editAt')
    OBVIOUS
  <2> QED
    BY <2>1, <2>2 DEF Counting
<1>2. ASSUME NEW c \in Caches, NEW k \in DOMAIN cache[c]
      PROVE  Entry(cache[c][k], clock', editAt')
  <2> DEFINE e == cache[c][k]
  <2>1. Entry(e, clock, editAt) /\ clock \in Nat
    BY DEF CountsInv
  <2>2. Counts(e, clock', editAt')
    BY <2>1 DEF Entry
  <2> HIDE DEF e
  <2>3. Entry(e, clock', editAt')
    BY <2>1, <2>2 DEF Entry, Counts
  <2> QED
    BY <2>3 DEF e
<1>3. \A c \in Caches : \A k \in DOMAIN cache'[c] : Entry(cache'[c][k], clock', editAt')
  BY <1>2
<1> QED
  BY <1>1, <1>3 DEF CountsInv

\* An edit comes after whatever has been asked for; so does a second.
LEMMA EditTickKeepCounts ==
  ASSUME CountsInv, (\E v \in Videos : Edit(v)) \/ Tick
  PROVE  CountsInv'
<1>1. clock \in Nat /\ editAt \in Seq(Nat) /\ UNCHANGED <<cache, call>>
  BY DEF CountsInv, Edit, Tick
<1>2. CASE Tick
  <2>1. clock' = clock + 1 /\ editAt' = editAt
    BY <1>2 DEF Tick
  <2>2. ASSUME NEW x, Counts(x, clock, editAt) PROVE Counts(x, clock', editAt')
    BY <1>1, <2>1, <2>2 DEF Counts
  <2> QED
    BY <1>1, <2>1, <2>2, LaterKeepsCounts
<1>3. CASE \E v \in Videos : Edit(v)
  <2>1. clock' = clock /\ editAt' = Append(editAt, clock)
    BY <1>3 DEF Edit
  <2>2. /\ editAt' \in Seq(Nat) /\ Len(editAt) \in Nat /\ Len(editAt') = Len(editAt) + 1
        /\ \A e \in 1 .. Len(editAt) : editAt'[e] = editAt[e]
        /\ editAt'[Len(editAt) + 1] = clock
    BY <1>1, <2>1
  <2>3. ASSUME NEW x, Counts(x, clock, editAt) PROVE Counts(x, clock', editAt')
    <3>1. ASSUME NEW e \in 1 .. Len(editAt'), e > x.first
          PROVE  editAt'[e] >= x.asked
      <4>1. CASE e \in 1 .. Len(editAt)
        BY <2>2, <2>3, <3>1, <4>1 DEF Counts
      <4>2. CASE e = Len(editAt) + 1
        BY <1>1, <2>2, <2>3, <4>2 DEF Counts
      <4> QED
        BY <2>2, <3>1, <4>1, <4>2
    <3> QED
      BY <2>1, <2>3, <3>1 DEF Counts
  <2> QED
    BY <1>1, <2>1, <2>2, <2>3, LaterKeepsCounts
<1> QED
  BY <1>2, <1>3

\* With the process go its caches and its calls.
LEMMA DownKeepsCounts ==
  ASSUME CountsInv, NEW left, Down(left)
  PROVE  CountsInv'
<1>1. /\ UNCHANGED <<clock, editAt>> /\ clock \in Nat /\ editAt \in Seq(Nat)
      /\ call' = [c \in Callers |-> Idle] /\ cache' = [c \in Caches |-> <<>>]
  BY DEF CountsInv, Down
<1>2. \A c \in Callers : Counting(call[c])'
  BY <1>1 DEF Counting, Idle
<1>3. \A c \in Caches : DOMAIN cache'[c] = {}
  BY <1>1
<1> QED
  BY <1>1, <1>2, <1>3 DEF CountsInv

LEMMA CountsInvInit == Init => CountsInv
<1> SUFFICES ASSUME Init PROVE CountsInv
  OBVIOUS
<1>1. /\ call = [c \in Callers |-> Idle] /\ cache = [c \in Caches |-> <<>>]
      /\ clock = 0 /\ editAt = <<>>
  BY DEF Init, ReadInit
<1>2. \A c \in Callers : Counting(call[c])
  BY <1>1 DEF Counting, Idle
<1> QED
  BY <1>1, <1>2 DEF CountsInv

\* Every step keeps what the counts in the caches and in the answers stand for.
LEMMA CountsInvStep == CountsInv /\ [Next]_vars => CountsInv'
<1> SUFFICES ASSUME CountsInv, [Next]_vars PROVE CountsInv'
  OBVIOUS
<1>1. CASE UNCHANGED <<cache, call, clock, editAt>>
  BY <1>1 DEF CountsInv, Counting
<1>2. CASE ReadNext
  <2>1. CASE (\E v \in Videos : Edit(v)) \/ Tick
    BY <2>1, EditTickKeepCounts
  <2>2. ASSUME NEW c \in Callers,
               (\E r \in Requests : Begin(c, r) \/ Pick(c, r)) \/ CallStep(c) \/ CancelJob(c) \/ Return(c)
        PROVE  CountsInv'
    BY <2>2, BeginKeepsCounts, LookupKeepsCounts, ComputeKeepsCounts, ReadersKeepCounts DEF CallStep
  <2> QED
    BY <1>2, <2>1, <2>2 DEF ReadNext
<1>3. CASE Crash \/ Stop
  BY <1>3, DownKeepsCounts DEF Crash, Stop
<1>4. CASE \/ Start \/ Migrate \/ StatementFails
           \/ \E b \in Backups :
                \/ \E keep \in Retentions : SubmitBackup(b, keep)
                \/ BackupStep(b) \/ BackupFails(b) \/ CancelBackup(b)
  <2>1. CASE Start \/ Migrate \/ StatementFails
    BY <2>1, <1>1 DEF Start, Migrate, RunStatement, RecordVersion, Up, StatementFails, readVars
  <2>2. ASSUME NEW b \in Backups,
               \/ \E keep \in Retentions : SubmitBackup(b, keep)
               \/ BackupStep(b) \/ BackupFails(b) \/ CancelBackup(b)
        PROVE  CountsInv'
    BY <2>2, <1>1 DEF SubmitBackup, BackupStep, StartBackup, Snapshot, OpenZip, CloseZip, CleanUp,
         BackupFails, CancelBackup, readVars
  <2> QED
    BY <1>4, <2>1, <2>2
<1> QED
  BY <1>1, <1>2, <1>3, <1>4 DEF Next, Serve, vars, readVars

\* A count that is served lacks no edit older than the time an entry lives and
\* the time its computation took, whatever was edited, asked for and computed
\* in between.
THEOREM ServedIsRecentCorrect == Spec => []ServedIsRecent
<1>1. CountsInv => ServedIsRecent
  <2> SUFFICES ASSUME CountsInv, NEW c \in Callers, Done(c, "counts"), NEW e \in 1 .. Edits,
                      editAt[e] + Ttl + (call[c].set - call[c].asked) < call[c].total
               PROVE  e <= call[c].first
    BY DEF ServedIsRecent
  <2>1. Counts(call[c], clock, editAt) /\ {call[c].set, call[c].total} \subseteq Nat
        /\ call[c].total <= call[c].set + Ttl
    BY DEF CountsInv, Counting, Done, At
  <2>2. editAt[e] \in Nat /\ e \in Nat /\ Ttl \in Nat
    BY CatalogueAssumption DEF CountsInv, Edits
  <2>3. e > call[c].first => editAt[e] >= call[c].asked
    BY <2>1 DEF Counts, Edits
  <2>4. {call[c].first, call[c].asked} \subseteq Nat
    BY <2>1 DEF Counts
  <2>5. \A x, first, asked, set, total \in Nat :
          /\ x + Ttl + (set - asked) < total /\ total <= set + Ttl
          /\ e > first => x >= asked
          => e <= first
    BY <2>2
  <2> QED
    BY <2>1, <2>2, <2>3, <2>4, <2>5
<1> QED
  BY <1>1, CountsInvInit, CountsInvStep, PTL DEF Spec

-----------------------------------------------------------------------------
(* Sorted sets and their pages *)

\* Places in a finite set of numbers are different.
LEMMA PlaceTypes ==
  ASSUME NEW S \in SUBSET Nat, IsFiniteSet(S), NEW desc \in BOOLEAN
  PROVE  /\ \A v \in S : Place(S, v, desc) \in 1 .. Cardinality(S)
         /\ \A v, w \in S : Place(S, v, desc) = Place(S, w, desc) => v = w
<1> DEFINE B(v) == {w \in S : Ahead(w, v, desc)}
<1>0. /\ \A v \in S : ~Ahead(v, v, desc)
      /\ \A u, v, w \in S : Ahead(u, v, desc) /\ Ahead(v, w, desc) => Ahead(u, w, desc)
      /\ \A v, w \in S : Ahead(v, w, desc) \/ Ahead(w, v, desc) \/ v = w
  BY DEF Ahead
<1>1. ASSUME NEW v \in S
      PROVE  /\ IsFiniteSet(B(v)) /\ Cardinality(B(v)) \in Nat /\ Place(S, v, desc) = 1 + Cardinality(B(v))
             /\ Cardinality(B(v)) <= Cardinality(S) - 1
  <2>1. B(v) \in SUBSET (S \ {v})
    BY <1>0
  <2>2. IsFiniteSet(S \ {v}) /\ Cardinality(S \ {v}) = Cardinality(S) - 1
    BY FS_RemoveElement
  <2>3. Place(S, v, desc) = 1 + Cardinality(B(v))
    BY DEF Place
  <2> HIDE DEF B
  <2> QED
    BY <2>1, <2>2, <2>3, FS_Subset, FS_CardinalityType
<1>2. ASSUME NEW v \in S, NEW w \in S, v \in B(w)
      PROVE  Place(S, v, desc) # Place(S, w, desc)
  <2>1. B(v) \cup {v} \in SUBSET B(w) /\ v \notin B(v)
    BY <1>0, <1>2
  <2> HIDE DEF B
  <2>2. Cardinality(B(v) \cup {v}) = Cardinality(B(v)) + 1
    BY <1>1, <2>1, FS_AddElement
  <2>3. Cardinality(B(v) \cup {v}) <= Cardinality(B(w))
    BY <1>1, <2>1, FS_Subset
  <2> QED
    BY <1>1, <2>2, <2>3
<1>3. ASSUME NEW v \in S, NEW w \in S, v # w
      PROVE  v \in B(w) \/ w \in B(v)
  BY <1>0, <1>3
<1>4. Cardinality(S) \in Nat
  BY FS_CardinalityType
<1> HIDE DEF B
<1> QED
  BY <1>1, <1>2, <1>3, <1>4

\* A sorted set lists each of its elements once, at its place.
LEMMA SortedLists ==
  ASSUME NEW S \in SUBSET Nat, IsFiniteSet(S), NEW desc \in BOOLEAN
  PROVE  /\ Sorted(S, desc) \in Seq(S) /\ Len(Sorted(S, desc)) = Cardinality(S)
         /\ Cardinality(S) \in Nat
         /\ \A v \in S : Place(S, v, desc) \in 1 .. Cardinality(S) /\ Sorted(S, desc)[Place(S, v, desc)] = v
         /\ \A i \in 1 .. Cardinality(S) : Sorted(S, desc)[i] \in S /\ Place(S, Sorted(S, desc)[i], desc) = i
<1> DEFINE n == Cardinality(S)
           f == [v \in S |-> Place(S, v, desc)]
           s == [i \in 1 .. n |-> CHOOSE v \in S : Place(S, v, desc) = i]
<1>1. n \in Nat
  BY FS_CardinalityType
<1>2. f \in Injection(S, 1 .. n)
  <2>1. f \in [S -> 1 .. n]
    BY PlaceTypes
  <2>2. \A v, w \in S : f[v] = f[w] => v = w
    BY PlaceTypes
  <2> HIDE DEF f
  <2> QED
    BY <2>1, <2>2 DEF Injection, IsInjective
<1>3. IsFiniteSet(1 .. n) /\ Cardinality(1 .. n) = n
  BY <1>1, FS_Interval
<1>4. f \in Surjection(S, 1 .. n)
  <2> HIDE DEF f
  <2> QED
    BY <1>2, <1>3, FS_Injection
<1>5. ASSUME NEW i \in 1 .. n
      PROVE  \E v \in S : Place(S, v, desc) = i
  <2>1. \E v \in S : f[v] = i
    <3> HIDE DEF f
    <3> QED
      BY <1>4 DEF Surjection
  <2> QED
    BY <2>1
<1>6. \A i \in 1 .. n : s[i] \in S /\ Place(S, s[i], desc) = i
  BY <1>5
<1>7. s \in Seq(S) /\ Len(s) = n
  <2>1. s \in [1 .. n -> S]
    BY <1>6
  <2>2. DOMAIN s = 1 .. n
    OBVIOUS
  <2> HIDE DEF s
  <2> QED
    BY <1>1, <2>1, <2>2
<1>8. \A v \in S : Place(S, v, desc) \in 1 .. n /\ s[Place(S, v, desc)] = v
  <2> TAKE v \in S
  <2>1. Place(S, v, desc) \in 1 .. n
    BY PlaceTypes
  <2>2. s[Place(S, v, desc)] \in S /\ Place(S, s[Place(S, v, desc)], desc) = Place(S, v, desc)
    BY <1>6, <2>1
  <2> HIDE DEF s
  <2> QED
    BY <2>1, <2>2, PlaceTypes
<1>9. Sorted(S, desc) = s
  BY DEF Sorted
<1> HIDE DEF s, n
<1> QED
  BY <1>1, <1>6, <1>7, <1>8, <1>9 DEF n

\* What lies between two places of a list.
LEMMA Between ==
  ASSUME NEW S, NEW s \in Seq(S), NEW o \in Nat, NEW n \in Nat, n <= Len(s)
  PROVE  /\ SubSeq(s, o + 1, n) \in Seq(S)
         /\ Len(SubSeq(s, o + 1, n)) = IF o < n THEN n - o ELSE 0
         /\ \A i \in 1 .. Len(SubSeq(s, o + 1, n)) : SubSeq(s, o + 1, n)[i] = s[o + i]
<1>1. PICK m \in Int : m = o + 1
  OBVIOUS
<1>2. \A i \in m .. n : s[i] \in S
  BY <1>1
<1>3. n \in Int
  OBVIOUS
<1>4. PICK t : t = SubSeq(s, m, n)
  OBVIOUS
<1>5. /\ t \in Seq(S) /\ Len(t) = IF m <= n THEN n - m + 1 ELSE 0
      /\ \A i \in 1 .. n - m + 1 : t[i] = s[m + i - 1]
  BY <1>2, <1>3, <1>4, SubSeqProperties
<1>6. Len(t) = IF o < n THEN n - o ELSE 0
  BY <1>1, <1>5
<1>7. ASSUME NEW i \in 1 .. Len(t)
      PROVE  t[i] = s[o + i]
  <2>1. i \in 1 .. n - m + 1 /\ m + i - 1 = o + i
    BY <1>1, <1>6
  <2> QED
    BY <1>5, <2>1
<1> QED
  BY <1>1, <1>4, <1>5, <1>6, <1>7

\* What a window on a list shows.
LEMMA Windows ==
  ASSUME NEW S, NEW s \in Seq(S), NEW q, q.offset \in Nat,
         q.limit = NULL \/ q.limit \in Nat, NULL \notin Nat,
         NEW n \in Nat, n = IF q.limit = NULL \/ q.offset + q.limit > Len(s) THEN Len(s) ELSE q.offset + q.limit
  PROVE  /\ Window(s, q) \in Seq(S)
         /\ Len(Window(s, q)) = IF q.offset < n THEN n - q.offset ELSE 0
         /\ \A i \in 1 .. Len(Window(s, q)) : Window(s, q)[i] = s[q.offset + i]
<1>1. Window(s, q) = SubSeq(s, q.offset + 1, n)
  BY DEF Window
<1>2. n <= Len(s)
  BY SMT
<1>3. PICK o \in Nat : o = q.offset
  OBVIOUS
<1>4. /\ SubSeq(s, o + 1, n) \in Seq(S)
      /\ Len(SubSeq(s, o + 1, n)) = IF o < n THEN n - o ELSE 0
      /\ \A i \in 1 .. Len(SubSeq(s, o + 1, n)) : SubSeq(s, o + 1, n)[i] = s[o + i]
  BY <1>2, Between
<1> QED
  BY <1>1, <1>3, <1>4

\* Of things with different places there are at most n with less than n behind them.
LEMMA NewestAreFew ==
  ASSUME NEW S, IsFiniteSet(S), NEW f \in [S -> Nat], \A k, l \in S : f[k] = f[l] => k = l, NEW n \in Nat
  PROVE  Cardinality({k \in S : Cardinality({l \in S : f[l] > f[k]}) < n}) <= n
<1> DEFINE B(k) == {l \in S : f[l] > f[k]}
           T == {k \in S : Cardinality(B(k)) < n}
           g == [k \in T |-> Cardinality(B(k))]
<1>1. \A k \in S : IsFiniteSet(B(k)) /\ Cardinality(B(k)) \in Nat
  <2> TAKE k \in S
  <2>1. B(k) \in SUBSET S
    OBVIOUS
  <2> HIDE DEF B
  <2> QED
    BY <2>1, FS_Subset, FS_CardinalityType
<1>2. ASSUME NEW k \in S, NEW l \in S, f[l] > f[k]
      PROVE  Cardinality(B(k)) # Cardinality(B(l))
  <2>1. B(l) \cup {l} \in SUBSET B(k) /\ l \notin B(l)
    BY <1>2
  <2> HIDE DEF B
  <2>2. Cardinality(B(l) \cup {l}) = Cardinality(B(l)) + 1
    BY <1>1, <2>1, FS_AddElement
  <2>3. Cardinality(B(l) \cup {l}) <= Cardinality(B(k))
    BY <1>1, <2>1, FS_Subset
  <2> QED
    BY <1>1, <2>2, <2>3
<1>3. g \in Injection(T, 0 .. n - 1)
  <2>1. g \in [T -> 0 .. n - 1]
    BY <1>1
  <2>2. ASSUME NEW k \in T, NEW l \in T, g[k] = g[l]
        PROVE  k = l
    <3>1. ~(f[l] > f[k]) /\ ~(f[k] > f[l])
      BY <1>2, <2>2
    <3>2. f[k] \in Nat /\ f[l] \in Nat
      OBVIOUS
    <3> QED
      BY <3>1, <3>2
  <2> HIDE DEF g, T
  <2> QED
    BY <2>1, <2>2 DEF Injection, IsInjective
<1>4. IsFiniteSet(0 .. n - 1) /\ Cardinality(0 .. n - 1) = n
  BY FS_Interval
<1> HIDE DEF g
<1>5. Cardinality(T) <= n
  <2> HIDE DEF T
  <2> QED
    BY <1>3, <1>4, FS_Injection
<1> QED
  BY <1>5

\* A finite set of numbers has a greatest element.
LEMMA GreatestExists ==
  ASSUME NEW S \in SUBSET Nat, IsFiniteSet(S), S # {}
  PROVE  Max(S) \in S /\ \A y \in S : y <= Max(S)
<1>1. Cardinality(S) \in Nat /\ Cardinality(S) # 0
  BY FS_CardinalityType, FS_EmptySet
<1>2. PICK desc \in BOOLEAN : desc
  OBVIOUS
<1> DEFINE m == Sorted(S, desc)[1]
           B == {w \in S : Ahead(w, m, desc)}
<1>3. m \in S /\ Place(S, m, desc) = 1
  BY <1>1, SortedLists
<1>4. B \in SUBSET S /\ Place(S, m, desc) = 1 + Cardinality(B)
  BY DEF Place
<1>5. \A w \in B : FALSE
  <2> HIDE DEF B
  <2>1. IsFiniteSet(B) /\ Cardinality(B) \in Nat
    BY <1>4, FS_Subset, FS_CardinalityType
  <2>2. Cardinality(B) = 0
    BY <1>3, <1>4, <2>1
  <2> QED
    BY <2>1, <2>2, FS_EmptySet
<1> HIDE DEF m
<1>6. \A y \in S : m >= y
  BY <1>2, <1>3, <1>5 DEF Ahead
<1>7. Max(S) \in S /\ \A y \in S : Max(S) >= y
  BY <1>3, <1>6 DEF Max
<1> QED
  BY <1>7

\* Products of natural numbers grow with their factors.
LEMMA ProductsGrow ==
  ASSUME NEW a \in Nat, NEW b \in Nat, NEW s \in Nat, a <= b
  PROVE  a * s <= b * s /\ a * s \in Nat /\ b * s \in Nat
OBVIOUS

\* Division with remainder.
LEMMA Division ==
  ASSUME NEW a \in Nat, NEW s \in Nat \ {0}
  PROVE  /\ a \div s \in Nat /\ a % s \in 0 .. s - 1
         /\ a = (a \div s) * s + (a % s)
OBVIOUS

\* A page begins on a list if and only if it is one of its pages.
LEMMA PageBegins ==
  ASSUME NEW n \in Nat, NEW s \in Nat \ {0}, NEW p \in Nat \ {0}
  PROVE  p \in 1 .. (n + s - 1) \div s <=> (p - 1) * s < n
<1> DEFINE d == (n + s - 1) \div s
           m == (n + s - 1) % s
<1>1. d \in Nat /\ m \in 0 .. s - 1 /\ n + s - 1 = d * s + m
  <2>1. n + s - 1 \in Nat
    OBVIOUS
  <2> QED
    BY <2>1, Division
<1> HIDE DEF d, m
<1>2. CASE p <= d
  <2>1. p * s <= d * s /\ p * s \in Nat /\ d * s \in Nat
    BY <1>1, <1>2, ProductsGrow
  <2>2. (p - 1) * s = p * s - s
    OBVIOUS
  <2> QED
    BY <1>1, <1>2, <2>1, <2>2 DEF d
<1>3. CASE ~(p <= d)
  <2>1. d <= p - 1 /\ p - 1 \in Nat
    BY <1>1, <1>3
  <2>2. d * s <= (p - 1) * s /\ d * s \in Nat /\ (p - 1) * s \in Nat
    BY <1>1, <2>1, ProductsGrow
  <2> QED
    BY <1>1, <1>3, <2>2 DEF d
<1> QED
  BY <1>2, <1>3

\* Each place of a list is on one page, at one place there.
LEMMA PlacesOnPages ==
  ASSUME NEW s \in Nat \ {0}
  PROVE  /\ \A i \in Nat \ {0} : \E p \in Nat \ {0}, j \in 1 .. s : i = (p - 1) * s + j
         /\ \A p, o \in Nat \ {0}, j, k \in 1 .. s : (p - 1) * s + j = (o - 1) * s + k => p = o /\ j = k
<1>1. ASSUME NEW i \in Nat \ {0}
      PROVE  \E p \in Nat \ {0}, j \in 1 .. s : i = (p - 1) * s + j
  <2> DEFINE p == (i - 1) \div s + 1
             j == ((i - 1) % s) + 1
  <2>1. i - 1 \in Nat
    OBVIOUS
  <2>2. (i - 1) \div s \in Nat /\ (i - 1) % s \in 0 .. s - 1 /\ i - 1 = ((i - 1) \div s) * s + ((i - 1) % s)
    BY <2>1, Division
  <2>3. p \in Nat \ {0} /\ j \in 1 .. s /\ p - 1 = (i - 1) \div s
    BY <2>2
  <2>4. i = (p - 1) * s + j
    BY <2>1, <2>2, <2>3
  <2> QED
    BY <2>3, <2>4
<1>2. ASSUME NEW p \in Nat \ {0}, NEW o \in Nat \ {0}, NEW j \in 1 .. s, NEW k \in 1 .. s, p < o
      PROVE  (p - 1) * s + j < (o - 1) * s + k
  <2>1. p * s <= (o - 1) * s /\ p * s \in Nat /\ (o - 1) * s \in Nat
    <3>1. p <= o - 1 /\ o - 1 \in Nat
      BY <1>2
    <3> QED
      BY <3>1, ProductsGrow
  <2>2. (p - 1) * s = p * s - s
    OBVIOUS
  <2> QED
    BY <2>1, <2>2
<1>3. ASSUME NEW p \in Nat \ {0}, NEW o \in Nat \ {0}, NEW j \in 1 .. s, NEW k \in 1 .. s,
             (p - 1) * s + j = (o - 1) * s + k
      PROVE  p = o /\ j = k
  <2>1. (p - 1) * s \in Nat /\ (o - 1) * s \in Nat
    <3>1. p - 1 \in Nat /\ o - 1 \in Nat /\ p - 1 <= p - 1 /\ o - 1 <= o - 1
      OBVIOUS
    <3> QED
      BY <3>1, ProductsGrow
  <2>2. p = o
    <3>1. ~(p < o) /\ ~(o < p)
      BY <1>2, <1>3, <2>1
    <3> QED
      BY <3>1
  <2> QED
    BY <1>3, <2>1, <2>2
<1> QED
  BY <1>1, <1>3

-----------------------------------------------------------------------------
(* The size of the caches *)

\* The keys of a cache have places of their own, and a method's cache has no
\* more of them than fit.
CacheInv ==
  /\ DOMAIN cache = Caches
  /\ \A c \in Caches :
       /\ IsFiniteSet(DOMAIN cache[c])
       /\ \A k \in DOMAIN cache[c] : cache[c][k].place \in Nat
       /\ \A k, l \in DOMAIN cache[c] : cache[c][k].place = cache[c][l].place => k = l
  /\ CacheBounded

\* What is stored takes a place behind all others, or its old one, and in a
\* method's cache comes after at most MaxSize - 1 others.
LEMMA PutKeepsCaches ==
  ASSUME CacheInv, NEW c \in Caches, NEW key, NEW entry, Put(c, key, entry)
  PROVE  CacheInv'
<1> DEFINE live == {k \in DOMAIN cache[c] : ~Expired(c, cache[c][k])}
           room == IF c = "route" THEN live ELSE MakeRoom(c, live)
           new == [first |-> entry.first, asked |-> entry.asked, set |-> clock,
                   place |-> PlaceOf(c, key, room)]
           taken == {cache[c][k].place : k \in room}
<1>1. cache' = [cache EXCEPT ![c] = [k \in room \cup {key} |-> IF k = key THEN new ELSE cache[c][k]]]
  BY DEF Put
<1>2. new.place = PlaceOf(c, key, room)
  OBVIOUS
<1>3. live \in SUBSET DOMAIN cache[c] /\ room \in SUBSET live
  BY DEF MakeRoom
<1>4. IsFiniteSet(live) /\ IsFiniteSet(room)
  <2>1. IsFiniteSet(DOMAIN cache[c])
    BY DEF CacheInv
  <2> HIDE DEF live, room
  <2> QED
    BY <1>3, <2>1, FS_Subset
<1>5. c = "service" => Cardinality(room) <= MaxSize - 1
  <2> SUFFICES ASSUME c = "service" PROVE Cardinality(room) <= MaxSize - 1
    OBVIOUS
  <2> DEFINE f == [k \in live |-> cache[c][k].place]
  <2>1. f \in [live -> Nat] /\ \A k, l \in live : f[k] = f[l] => k = l
    BY <1>3 DEF CacheInv
  <2>2. MaxSize - 1 \in Nat
    BY CatalogueAssumption
  <2>3. room = {k \in live : Cardinality({l \in live : f[l] > f[k]}) < MaxSize - 1}
    <3>1. \A k \in live : {l \in live : f[l] > f[k]} = {l \in live : cache[c][l].place > cache[c][k].place}
      OBVIOUS
    <3>2. room = {k \in live : Cardinality({l \in live : cache[c][l].place > cache[c][k].place}) < MaxSize - 1}
      BY DEF MakeRoom
    <3> HIDE DEF live, room, f
    <3> QED
      BY <3>1, <3>2
  <2> HIDE DEF live, room, f
  <2> QED
    BY <1>4, <2>1, <2>2, <2>3, NewestAreFew
<1>6. \A k \in room : cache[c][k].place \in Nat
  BY <1>3 DEF CacheInv
<1>7. new.place \in Nat /\ \A k \in room : k # key => cache[c][k].place # new.place
  <2>1. CASE key \in room
    <3>1. new.place = cache[c][key].place
      BY <1>2, <2>1 DEF PlaceOf
    <3>2. key \in DOMAIN cache[c] /\ room \subseteq DOMAIN cache[c]
      BY <1>3, <2>1
    <3> HIDE DEF new, room, live
    <3> QED
      BY <1>6, <2>1, <3>1, <3>2 DEF CacheInv
  <2>2. CASE key \notin room
    <3> DEFINE S == {0} \cup taken
    <3>1. S \in SUBSET Nat /\ S # {}
      <4> HIDE DEF room
      <4> QED
        BY <1>6
    <3>2. IsFiniteSet(S)
      <4> DEFINE f == [k \in room |-> cache[c][k].place]
      <4>1. f \in Surjection(room, taken)
        <5> HIDE DEF room
        <5> QED
          BY DEF Surjection
      <4> HIDE DEF f, taken, room
      <4>2. IsFiniteSet(taken)
        BY <1>4, <4>1, FS_Surjection
      <4> QED
        BY <4>2, FS_AddElement, FS_Union, FS_Singleton
    <3>3. new.place = 1 + Max(S)
      BY <1>2, <2>2 DEF PlaceOf
    <3>4. \A k \in room : cache[c][k].place \in S
      <4> HIDE DEF room
      <4> QED
        OBVIOUS
    <3> HIDE DEF S, new, room
    <3>5. Max(S) \in Nat /\ \A y \in S : y <= Max(S)
      BY <3>1, <3>2, GreatestExists
    <3> QED
      BY <1>6, <3>3, <3>4, <3>5
  <2> QED
    BY <2>1, <2>2
<1>8. IsFiniteSet(room \cup {key}) /\ (c = "service" => Cardinality(room \cup {key}) <= MaxSize)
  <2>1. Cardinality(room) \in Nat /\ MaxSize \in Nat
    BY <1>4, FS_CardinalityType, CatalogueAssumption
  <2>2. /\ IsFiniteSet(room \cup {key})
        /\ Cardinality(room \cup {key}) = IF key \in room THEN Cardinality(room) ELSE Cardinality(room) + 1
    <3> HIDE DEF room
    <3> QED
      BY <1>4, FS_AddElement
  <2> HIDE DEF room
  <2> QED
    BY <1>5, <2>1, <2>2
<1>9. /\ DOMAIN cache' = Caches /\ \A d \in Caches \ {c} : cache'[d] = cache[d]
      /\ DOMAIN cache'[c] = room \cup {key} /\ cache'[c][key] = new
      /\ \A k \in room \ {key} : cache'[c][k] = cache[c][k]
  <2> HIDE DEF room, new
  <2> QED
    BY <1>1 DEF CacheInv
<1>10. \A k, l \in room : cache[c][k].place = cache[c][l].place => k = l
  BY <1>3 DEF CacheInv
<1> HIDE DEF room, new, live, taken
<1>11. /\ IsFiniteSet(DOMAIN cache'[c])
       /\ \A k \in DOMAIN cache'[c] : cache'[c][k].place \in Nat
       /\ \A k, l \in DOMAIN cache'[c] : cache'[c][k].place = cache'[c][l].place => k = l
  <2>1. \A k \in DOMAIN cache'[c] : k = key \/ k \in room \ {key}
    BY <1>9
  <2>2. \A k \in DOMAIN cache'[c] : cache'[c][k].place \in Nat
    BY <1>6, <1>7, <1>9, <2>1
  <2>3. ASSUME NEW k \in DOMAIN cache'[c], NEW l \in DOMAIN cache'[c],
               cache'[c][k].place = cache'[c][l].place
        PROVE  k = l
    BY <1>7, <1>9, <1>10, <2>1, <2>3
  <2> QED
    BY <1>8, <1>9, <2>2, <2>3
<1>12. CacheBounded'
  <2>1. CASE c = "service"
    BY <1>8, <1>9, <2>1 DEF CacheBounded
  <2>2. CASE c # "service"
    BY <1>9, <2>2 DEF CacheBounded, CacheInv, Caches
  <2> QED
    BY <2>1, <2>2
<1> QED
  BY <1>9, <1>11, <1>12 DEF CacheInv

\* Only what is computed goes into a cache, and a restart empties them.
LEMMA CacheInvStep == CacheInv /\ CountsInv /\ [Next]_vars => CacheInv'
<1> SUFFICES ASSUME CacheInv, CountsInv, [Next]_vars PROVE CacheInv'
  OBVIOUS
<1>1. CASE UNCHANGED cache
  BY <1>1 DEF CacheInv, CacheBounded
<1>2. ASSUME NEW c \in Callers, Compute(c)
      PROVE  CacheInv'
  <2>1. call[c].req \in Requests /\ call[c].req.kind = "counts"
    BY <1>2 DEF CountsInv, Counting, Compute, At
  <2>2. call[c].req.cache \in Caches
    BY <2>1, CatalogueAssumption
  <2> QED
    BY <1>2, <2>2, PutKeepsCaches DEF Compute
<1>3. CASE Crash \/ Stop
  <2>1. cache' = [c \in Caches |-> <<>>]
    BY <1>3 DEF Crash, Stop, Down
  <2>2. /\ DOMAIN cache' = Caches /\ \A c \in Caches : DOMAIN cache'[c] = {}
        /\ IsFiniteSet({}) /\ Cardinality({}) = 0 /\ 0 <= MaxSize
    BY <2>1, FS_EmptySet, CatalogueAssumption
  <2> QED
    BY <2>2 DEF CacheInv, CacheBounded, Caches
<1>4. CASE Serve
  <2>1. ASSUME NEW c \in Callers, (\E r \in Requests : Begin(c, r) \/ Pick(c, r))
                  \/ CallStep(c) \/ CancelJob(c) \/ Return(c)
        PROVE  CacheInv'
    BY <1>1, <1>2, <2>1 DEF Begin, Pick, CallStep, CountRows, FetchRows, Lookup, JobCount, NextPage,
         RequestRows, ReadVideo, WriteNfo, WriteFails, PageDone, WriteArtists, ExportPlaylist, CreateSaved,
         ReadBack, DeleteSaved, RunTask, CancelJob, Return
  <2>2. CASE (\E v \in Videos : Edit(v)) \/ Tick
    BY <1>1, <2>2 DEF Edit, Tick
  <2> QED
    BY <1>4, <2>1, <2>2 DEF Serve, ReadNext
<1>5. CASE Start \/ Migrate \/ StatementFails
  BY <1>1, <1>5 DEF Start, Migrate, RunStatement, RecordVersion, Up, StatementFails, readVars
<1>6. ASSUME NEW b \in Backups,
             \/ \E keep \in Retentions : SubmitBackup(b, keep)
             \/ BackupStep(b) \/ BackupFails(b) \/ CancelBackup(b)
      PROVE  CacheInv'
  BY <1>1, <1>6 DEF SubmitBackup, BackupStep, StartBackup, Snapshot, OpenZip, CloseZip, CleanUp,
       BackupFails, CancelBackup, readVars
<1> QED
  BY <1>1, <1>3, <1>4, <1>5, <1>6 DEF Next, vars, readVars

LEMMA CacheInvInit == Init => CacheInv
<1> SUFFICES ASSUME Init PROVE CacheInv
  OBVIOUS
<1>1. cache = [c \in Caches |-> <<>>]
  BY DEF Init, ReadInit
<1>2. /\ DOMAIN cache = Caches /\ \A c \in Caches : DOMAIN cache[c] = {}
      /\ IsFiniteSet({}) /\ Cardinality({}) = 0 /\ 0 <= MaxSize
  BY <1>1, FS_EmptySet, CatalogueAssumption
<1> QED
  BY <1>2 DEF CacheInv, CacheBounded, Caches

-----------------------------------------------------------------------------
(* Rows and facets *)

\* Rows are what the program writes.
RowsInv ==
  /\ DOMAIN rows \subseteq Videos /\ hidden \subseteq DOMAIN rows
  /\ \A v \in DOMAIN rows : rows[v] \in Contents

\* What a query selects is a finite set of ids.
LEMMA SelectedFinite ==
  ASSUME RowsInv, NEW q
  PROVE  /\ Selected(rows, hidden, q) \in SUBSET (DOMAIN rows) /\ DOMAIN rows \in SUBSET Nat
         /\ IsFiniteSet(DOMAIN rows) /\ IsFiniteSet(Selected(rows, hidden, q))
<1>1. DOMAIN rows \in SUBSET Videos /\ Videos \subseteq Nat /\ IsFiniteSet(Videos)
  BY CatalogueAssumption DEF RowsInv
<1>2. Selected(rows, hidden, q) \in SUBSET (DOMAIN rows)
  BY DEF Selected
<1> QED
  BY <1>1, <1>2, FS_Subset

\* A filter contributes the same clauses beside whatever others.
LEMMA FilterAlone ==
  ASSUME NEW f, NEW g, NEW d \in Filters, f[d] = g[d]
  PROVE  ApplyOne(NewQuery, f, d) = ApplyOne(NewQuery, g, d)
BY SMT DEF ApplyOne, ByText, Given, Only, WantsMissing

\* A list of values makes one clause, or none.
LEMMA ListClause ==
  ASSUME NEW kind, NEW column, NEW values, NEW missing,
         NEW clause \in WhereAny(NewQuery, kind, column, values, missing).where
  PROVE  clause.kind = kind /\ clause.column = column /\ clause.values = values /\ clause.missing = missing
BY DEF WhereAny, Where, NewQuery, Clause

\* The clause of a filter on tags.
LEMMA TagFilter ==
  ASSUME NEW g, NEW clause \in ApplyOne(NewQuery, g, "tag_name").where
  PROVE  clause.kind = "linked like" /\ clause.column = "tags" /\ clause.values = Given(g, "tag_name")
         /\ clause.missing = WantsMissing(g, "tag_name")
<1>1. ApplyOne(NewQuery, g, "tag_name") = WhereTagAny(NewQuery, Given(g, "tag_name"), WantsMissing(g, "tag_name"))
  BY DEF ApplyOne, ExactColumns
<1>2. clause \in WhereAny(NewQuery, "linked like", "tags", Given(g, "tag_name"), WantsMissing(g, "tag_name")).where
  BY <1>1 DEF WhereTagAny
<1>3. clause = Clause("linked like", "tags", Given(g, "tag_name"), WantsMissing(g, "tag_name"))
  BY <1>2 DEF WhereAny, Where, NewQuery
<1> QED
  BY <1>3 DEF Clause

\* The clause that chooses a value of a facet holds for the videos that have
\* the value.
LEMMA ChosenClauseHolds ==
  ASSUME NEW c \in {"tags", "genre", "director", "year"}, NEW x, NEW g, g[FilterOf(c)] = {x},
         NEW row \in Contents, x \in ValuesIn(row, c),
         NEW clause \in ApplyOne(NewQuery, g, FilterOf(c)).where
  PROVE  Holds(row, clause)
<1>1. NewQuery.where = {}
  BY DEF NewQuery
<1>2. ProperRow(row)
  BY CatalogueAssumption
<1>3. Given(g, FilterOf(c)) = {x} \ {NULL} /\ Only(g, FilterOf(c)) = x
      /\ (WantsMissing(g, FilterOf(c)) <=> x = NULL)
  BY DEF Given, Only, WantsMissing
<1>4. \A cl : Where(NewQuery, cl).where = {cl}
  BY <1>1 DEF Where, NewQuery
<1>5. CASE c = "tags"
  <2>0. FilterOf(c) = "tag_name"
    BY <1>5 DEF FilterOf
  <2>1. clause \in ApplyOne(NewQuery, g, "tag_name").where
    BY <2>0
  <2>2. clause.kind = "linked like" /\ clause.column = "tags" /\ clause.values = Given(g, "tag_name")
        /\ clause.missing = WantsMissing(g, "tag_name")
    BY <2>1, TagFilter
  <2>4. clause.column = "tags" /\ clause.kind = "linked like" /\ clause.values = {x} \ {NULL}
        /\ (clause.missing <=> x = NULL)
    BY <1>3, <2>0, <2>2
  <2>5. x = NULL => row["tags"] = Missing("tags")
    BY <1>2, <1>5 DEF ValuesIn, ProperRow, LinkColumns
  <2>6. x # NULL => x \in row["tags"] /\ <<x, x>> \in Like
    BY <1>2, <1>5 DEF ValuesIn, ProperRow, LinkColumns
  <2> QED
    BY <2>4, <2>5, <2>6 DEF Holds
<1>6. CASE c = "genre"
  <2>1. ApplyOne(NewQuery, g, FilterOf(c)) = WhereTextAny(NewQuery, "genre", Given(g, FilterOf(c)), WantsMissing(g, FilterOf(c)))
    BY <1>6 DEF ApplyOne, FilterOf, ByText, ExactColumns
  <2>2. clause \in WhereAny(NewQuery, "like", "genre", Given(g, FilterOf(c)), WantsMissing(g, FilterOf(c))).where
    BY <2>1 DEF WhereTextAny
  <2>3. clause.kind = "like" /\ clause.column = "genre" /\ clause.values = Given(g, FilterOf(c))
        /\ clause.missing = WantsMissing(g, FilterOf(c))
    BY <2>2, ListClause
  <2>4. clause.column = "genre" /\ clause.kind = "like" /\ clause.values = {x} \ {NULL}
        /\ (clause.missing <=> x = NULL)
    BY <1>3, <2>3
  <2>5. x = NULL => row["genre"] = Missing("genre")
    BY <1>6 DEF ValuesIn, LinkColumns, Missing
  <2>6. x # NULL => x = row["genre"] /\ <<x, x>> \in Like
    BY <1>2, <1>6 DEF ValuesIn, ProperRow, LinkColumns, TextColumns
  <2> QED
    BY <2>4, <2>5, <2>6 DEF Holds
<1>7. CASE c = "director"
  <2>1. CASE x = NULL
    <3>1. ApplyOne(NewQuery, g, FilterOf(c)) = WhereMissing(NewQuery, "director")
      BY <1>3, <1>7, <2>1 DEF ApplyOne, FilterOf, ExactColumns
    <3>2. clause = Clause("in", "director", {}, TRUE)
      BY <1>4, <3>1 DEF WhereMissing
    <3>3. clause.column = "director" /\ clause.missing
      BY <3>2 DEF Clause
    <3>4. row["director"] = Missing("director")
      BY <1>7, <2>1 DEF ValuesIn, LinkColumns, Missing
    <3> QED
      BY <3>3, <3>4 DEF Holds
  <2>2. CASE x # NULL
    <3>1. ApplyOne(NewQuery, g, FilterOf(c)) = WhereText(NewQuery, "director", x)
      BY <1>3, <1>7, <2>2 DEF ApplyOne, FilterOf, ExactColumns
    <3>2. clause = Clause("like", "director", {x}, FALSE)
      BY <1>4, <3>1 DEF WhereText
    <3>3. clause.column = "director" /\ clause.kind = "like" /\ clause.values = {x}
      BY <3>2 DEF Clause
    <3>4. x = row["director"] /\ <<x, x>> \in Like
      BY <1>2, <1>7, <2>2 DEF ValuesIn, ProperRow, LinkColumns, TextColumns
    <3> QED
      BY <3>3, <3>4 DEF Holds
  <2> QED
    BY <2>1, <2>2
<1>8. CASE c = "year"
  <2>1. ApplyOne(NewQuery, g, FilterOf(c)) = WhereYearAny(NewQuery, Given(g, FilterOf(c)), WantsMissing(g, FilterOf(c)))
    BY <1>8 DEF ApplyOne, FilterOf, ExactColumns
  <2>2. clause \in WhereAny(NewQuery, "in", "year", Given(g, FilterOf(c)), WantsMissing(g, FilterOf(c))).where
    BY <2>1 DEF WhereYearAny
  <2>3. clause.kind = "in" /\ clause.column = "year" /\ clause.values = Given(g, FilterOf(c))
        /\ clause.missing = WantsMissing(g, FilterOf(c))
    BY <2>2, ListClause
  <2>4. clause.column = "year" /\ clause.kind = "in" /\ clause.values = {x} \ {NULL}
        /\ (clause.missing <=> x = NULL)
    BY <1>3, <2>3
  <2>5. x = NULL => row["year"] = Missing("year")
    BY <1>8 DEF ValuesIn, LinkColumns, Missing
  <2>6. x # NULL => x = row["year"]
    BY <1>8 DEF ValuesIn, LinkColumns
  <2> QED
    BY <2>4, <2>5, <2>6 DEF Holds
<1> QED
  BY <1>5, <1>6, <1>7, <1>8

\* What a query built from filters selects.
LEMMA FiltersSelect ==
  ASSUME NEW f
  PROVE  Selected(rows, hidden, ApplyToQuery(f)) =
           {v \in DOMAIN rows \ hidden :
              \A d \in DOMAIN f \ (IF "year" \in DOMAIN f THEN {"years"} ELSE {}) :
                \A clause \in ApplyOne(NewQuery, f, d).where : Holds(rows[v], clause)}
<1> DEFINE q == ApplyToQuery(f)
           D == DOMAIN f \ (IF "year" \in DOMAIN f THEN {"years"} ELSE {})
<1>1. q.where = UNION {ApplyOne(NewQuery, f, d).where : d \in D} /\ q.fts = NULL /\ q.deleted = FALSE
  BY DEF ApplyToQuery, NewQuery
<1> HIDE DEF q, D
<1>2. Build(q) = q
  BY <1>1 DEF Build
<1>3. Selected(rows, hidden, q) = {v \in DOMAIN rows \ hidden : \A clause \in q.where : Holds(rows[v], clause)}
  BY <1>1, <1>2 DEF Selected
<1>4. \A v : (\A clause \in q.where : Holds(rows[v], clause))
             <=> \A d \in D : \A clause \in ApplyOne(NewQuery, f, d).where : Holds(rows[v], clause)
  BY <1>1
<1> QED
  BY <1>3, <1>4 DEF q, D

\* A value of a facet, chosen as a filter, finds the videos that were counted.
LEMMA FacetsAreReachable ==
  ASSUME RowsInv, \A k \in Callers : Done(k, "list") => call[k].req \in Requests
  PROVE  FacetIsReachable
<1> SUFFICES ASSUME NEW k \in Callers, NEW c \in {"tags", "genre", "director", "year"}, Done(k, "list")
             PROVE  LET f == call[k].req.filter
                        others == [d \in DOMAIN f \ {FilterOf(c)} |-> f[d]]
                        facet == Facet(rows, hidden, ApplyToQuery(others), c)
                    IN \A x \in DOMAIN facet :
                         Count(rows, hidden, ApplyToQuery(Choosing(others, FilterOf(c), x))) >= facet[x]
  BY DEF FacetIsReachable
<1> DEFINE f == call[k].req.filter
           others == [d \in DOMAIN f \ {FilterOf(c)} |-> f[d]]
           chosen == Selected(rows, hidden, ApplyToQuery(others))
           facet == Facet(rows, hidden, ApplyToQuery(others), c)
<1>1. DOMAIN others \subseteq Filters
  BY CatalogueAssumption DEF Done
<1> HIDE DEF others
<1>2. ASSUME NEW x \in DOMAIN facet
      PROVE  Count(rows, hidden, ApplyToQuery(Choosing(others, FilterOf(c), x))) >= facet[x]
  <2> DEFINE g == Choosing(others, FilterOf(c), x)
             found == Selected(rows, hidden, ApplyToQuery(g))
             counted == {v \in chosen : x \in ValuesIn(rows[v], c)}
  <2>1. facet[x] = Cardinality(counted)
    BY DEF Facet
  <2>2. /\ DOMAIN g = DOMAIN others \cup {FilterOf(c)} /\ g[FilterOf(c)] = {x}
        /\ \A d \in DOMAIN others \ {FilterOf(c)} : g[d] = others[d]
    BY DEF Choosing
  <2> HIDE DEF g
  <2>3. counted \in SUBSET found
    <3> SUFFICES ASSUME NEW v \in counted PROVE v \in found
      OBVIOUS
    <3>1. v \in chosen /\ x \in ValuesIn(rows[v], c)
      OBVIOUS
    <3>2. v \in DOMAIN rows \ hidden /\ rows[v] \in Contents
      BY <3>1, FiltersSelect DEF RowsInv
    <3>3. ASSUME NEW d \in DOMAIN g \ (IF "year" \in DOMAIN g THEN {"years"} ELSE {}),
                 NEW clause \in ApplyOne(NewQuery, g, d).where
          PROVE  Holds(rows[v], clause)
      <4>1. CASE d = FilterOf(c)
        BY <2>2, <3>1, <3>2, <3>3, <4>1, ChosenClauseHolds
      <4>2. CASE d # FilterOf(c)
        <5>1. d \in DOMAIN others /\ d \in Filters /\ g[d] = others[d]
          BY <1>1, <2>2, <3>3, <4>2
        <5>2. ApplyOne(NewQuery, g, d) = ApplyOne(NewQuery, others, d)
          BY <5>1, FilterAlone
        <5>3. d \in DOMAIN others \ (IF "year" \in DOMAIN others THEN {"years"} ELSE {})
          BY <2>2, <3>3, <5>1
        <5>4. \A e \in DOMAIN others \ (IF "year" \in DOMAIN others THEN {"years"} ELSE {}) :
                \A cl \in ApplyOne(NewQuery, others, e).where : Holds(rows[v], cl)
          BY <3>1, FiltersSelect
        <5> QED
          BY <3>3, <5>2, <5>3, <5>4
      <4> QED
        BY <4>1, <4>2
    <3> QED
      BY <3>2, <3>3, FiltersSelect
  <2>4. IsFiniteSet(found)
    BY SelectedFinite
  <2> HIDE DEF found, counted
  <2>5. Cardinality(counted) <= Cardinality(found) /\ Cardinality(found) \in Nat /\ Cardinality(counted) \in Nat
    BY <2>3, <2>4, FS_Subset, FS_CardinalityType
  <2> QED
    BY <2>1, <2>5 DEF Count, g, found
<1> QED
  BY <1>2 DEF others

-----------------------------------------------------------------------------
(* Lists and exports *)

Locals == {"pc", "req", "edits", "total", "offset", "left", "items", "text", "dirs", "first", "asked",
           "set", "id"}

\* What is known of a call by the step it is at, when there were n edits.
Form(r, n) ==
  /\ "pc" \in DOMAIN r
  /\ r.pc # "idle" =>
       /\ DOMAIN r = Locals /\ r.req \in Requests
       /\ {r.edits, r.offset} \subseteq Nat /\ r.edits <= n
  /\ r.pc \in Kinds => r.req.kind = r.pc
  /\ r.pc = "compute" => r.req.kind = "counts"
  /\ r.pc = "page" => r.req.kind = "list"
  /\ r.pc = "nfo job" => r.offset = 0
  /\ r.pc \in {"next page", "artists"} => r.req.kind = "nfo job"
  /\ r.pc \in {"export", "write"} => r.req.kind \in {"nfo request", "nfo job"} /\ r.left \in Seq(Videos)
  /\ r.pc = "write" => r.left # <<>> /\ r.text \in Contents

\* What the query of a call selects.
Chosen(r) == Selected(rows, hidden, r.req.query)

\* A list with no edit since it was counted has counted what there is, and
\* shows the page it was asked for.
Answers(r) ==
  r.pc \in {"page", "done"} /\ r.req.kind = "list" /\ r.edits = Edits =>
    /\ r.total = Cardinality(Chosen(r))
    /\ r.pc = "done" => r.items = Execute(rows, hidden, Paged(r.req.query, r.req.size, Offset(r.req.page, r.req.size)))

\* An export that does not keep the files there are.
Refreshes(req) == req.kind = "nfo job" \/ (req.kind = "nfo request" /\ req.overwrite)

\* The .nfo of a video is none of the export's business any more.
Settled(v) == v \in hidden \cup late \/ ~HasPath(rows[v]) \/ nfo[v] = rows[v]

\* With no edit since the export was begun a video it has chosen is settled,
\* among those in hand, or on a page still to come.
Exports(r) ==
  r.pc \in {"next page", "export", "write", "artists", "done"} /\ Refreshes(r.req) /\ r.edits = Edits =>
    /\ r.req.kind = "nfo job" => r.total = Cardinality(Chosen(r))
    /\ \A v \in Chosen(r) :
         \/ Settled(v)
         \/ r.pc \in {"export", "write"} /\ \E i \in DOMAIN r.left : r.left[i] = v
         \/ /\ r.pc \in {"next page", "export", "write"} /\ r.req.kind = "nfo job"
            /\ Place(Chosen(r), v, r.req.query.desc) > r.offset

Reading(r) == Form(r, Edits) /\ Answers(r) /\ Exports(r)

ReadInv ==
  /\ RowsInv /\ Edits \in Nat
  /\ DOMAIN nfo = Videos /\ \A v \in Videos : nfo[v] # NULL => DOMAIN nfo[v] = Columns
  /\ DOMAIN call = Callers /\ \A c \in Callers : Reading(call[c])

\* A call between its steps.
LEMMA FormHolds ==
  ASSUME NEW r, NEW n \in Nat, DOMAIN r = Locals, r.req \in Requests,
         r.edits \in Nat, r.offset \in Nat, r.edits <= n, r.pc \notin Kinds,
         r.pc = "compute" => r.req.kind = "counts",
         r.pc = "page" => r.req.kind = "list",
         r.pc \in {"next page", "artists"} => r.req.kind = "nfo job",
         r.pc \in {"export", "write"} => r.req.kind \in {"nfo request", "nfo job"} /\ r.left \in Seq(Videos),
         r.pc = "write" => r.left # <<>> /\ r.text \in Contents
  PROVE  Form(r, n)
<1>1. "pc" \in Locals
  BY DEF Locals
<1>2. r.pc # "nfo job"
  BY DEF Kinds
<1> QED
  BY <1>1, <1>2 DEF Form

\* A step that changes neither rows nor what is settled is, for the others,
\* none.
LEMMA OthersKeepReading ==
  ASSUME ReadInv, NEW c \in Callers, UNCHANGED <<rows, hidden, editAt>>,
         DOMAIN nfo' = Videos, \A v \in Videos : nfo'[v] # NULL => DOMAIN nfo'[v] = Columns,
         \A v \in DOMAIN rows : Settled(v) => Settled(v)',
         DOMAIN call' = Callers, \A d \in Callers \ {c} : call'[d] = call[d],
         Reading(call[c])'
  PROVE  ReadInv'
<1>1. ASSUME NEW d \in Callers PROVE Reading(call[d])'
  <2>1. CASE d = c
    BY <2>1
  <2>2. CASE d # c
    <3>1. call'[d] = call[d] /\ Form(call[d], Edits) /\ Answers(call[d]) /\ Exports(call[d])
      BY <2>2 DEF ReadInv, Reading
    <3>2. Edits' = Edits /\ Chosen(call[d])' = Chosen(call[d]) /\ Chosen(call[d]) \subseteq DOMAIN rows
      BY <3>1, SelectedFinite DEF Edits, Chosen, ReadInv
    <3>3. Form(call[d], Edits)'
      BY <3>1, <3>2 DEF Form
    <3>4. Answers(call[d])'
      BY <3>1, <3>2 DEF Answers
    <3>5. Exports(call[d])'
      BY <3>1, <3>2 DEF Exports
    <3> QED
      BY <3>3, <3>4, <3>5 DEF Reading
  <2> QED
    BY <2>1, <2>2
<1>2. RowsInv' /\ Edits' \in Nat
  BY DEF ReadInv, RowsInv, Edits
<1> QED
  BY <1>1, <1>2 DEF ReadInv

\* So is one that writes no file.
LEMMA CallerKeepsReading ==
  ASSUME ReadInv, NEW c \in Callers, UNCHANGED <<rows, hidden, editAt, nfo, late>>,
         DOMAIN call' = Callers, \A d \in Callers \ {c} : call'[d] = call[d],
         Reading(call[c])'
  PROVE  ReadInv'
<1>1. \A v \in DOMAIN rows : Settled(v) => Settled(v)'
  BY DEF Settled
<1>2. DOMAIN nfo' = Videos /\ \A v \in Videos : nfo'[v] # NULL => DOMAIN nfo'[v] = Columns
  BY DEF ReadInv
<1> QED
  BY <1>1, <1>2, OthersKeepReading

\* Calls that are neither for a list nor for an export, and those that end.
LEMMA OtherCallsKeepReading ==
  ASSUME ReadInv, NEW c \in Callers, UNCHANGED <<rows, hidden, editAt, nfo, late>>,
         DOMAIN call' = Callers, \A d \in Callers \ {c} : call'[d] = call[d],
         "pc" \in DOMAIN call'[c],
         \/ call'[c].pc = "idle"
         \/ /\ call'[c].pc \in {"read back", "compute", "done"} /\ call[c].pc # "idle"
            /\ DOMAIN call'[c] = DOMAIN call[c] /\ call'[c].req = call[c].req
            /\ call'[c].edits = call[c].edits /\ call'[c].offset = call[c].offset
            /\ call[c].req.kind \in {"counts", "create", "playlist"}
            /\ call'[c].pc = "compute" => call[c].req.kind = "counts"
  PROVE  ReadInv'
<1>1. Form(call[c], Edits)
  BY DEF ReadInv, Reading
<1>2. Edits' = Edits
  BY DEF Edits
<1>3. Form(call[c], Edits)'
  BY <1>1, <1>2 DEF Form, Kinds
<1>4. Answers(call[c])' /\ Exports(call[c])'
  BY DEF Answers, Exports, Refreshes
<1> QED
  BY <1>3, <1>4, CallerKeepsReading DEF Reading

\* The rows are counted; the page is fetched.
LEMMA ListKeepsReading ==
  ASSUME ReadInv, NEW c \in Callers, CountRows(c) \/ FetchRows(c)
  PROVE  ReadInv'
<1>1. /\ DOMAIN call = Callers /\ Form(call[c], Edits) /\ Answers(call[c]) /\ Edits \in Nat
      /\ UNCHANGED <<rows, hidden, editAt, nfo, late>>
  BY DEF ReadInv, Reading, CountRows, FetchRows, files
<1>2. Edits' = Edits
  BY <1>1 DEF Edits
<1>3. CASE CountRows(c)
  <2>1. /\ call[c].pc = "list" /\ DOMAIN call[c] = Locals /\ call[c].req \in Requests
        /\ call[c].req.kind = "list" /\ call[c].offset \in Nat
    BY <1>1, <1>3 DEF CountRows, At, Form, Kinds
  <2>2. call' = [call EXCEPT ![c].pc = "page", ![c].total = TotalOf(c), ![c].edits = Edits]
    BY <1>3 DEF CountRows
  <2>3. /\ DOMAIN call' = Callers /\ \A d \in Callers \ {c} : call'[d] = call[d]
        /\ DOMAIN call'[c] = Locals /\ call'[c].pc = "page" /\ call'[c].req = call[c].req
        /\ call'[c].edits = Edits /\ call'[c].offset = call[c].offset /\ call'[c].total = TotalOf(c)
    BY <1>1, <2>1, <2>2 DEF Locals
  <2>4. Form(call[c], Edits)'
    BY <1>1, <1>2, <2>1, <2>3 DEF Form, Kinds, Locals
  <2>5. Answers(call[c])'
    BY <1>1, <2>1, <2>3 DEF Answers, TotalOf, Count, Chosen, Query
  <2>6. Exports(call[c])'
    BY <2>3 DEF Exports
  <2> QED
    BY <1>1, <2>3, <2>4, <2>5, <2>6, CallerKeepsReading DEF Reading
<1>4. CASE FetchRows(c)
  <2>1. /\ call[c].pc = "page" /\ DOMAIN call[c] = Locals /\ call[c].req \in Requests
        /\ call[c].req.kind = "list" /\ {call[c].offset, call[c].edits} \subseteq Nat /\ call[c].edits <= Edits
    BY <1>1, <1>4 DEF FetchRows, At, Form
  <2>2. call' = [call EXCEPT ![c].pc = "done", ![c].items = PageOf(c)]
    BY <1>4 DEF FetchRows
  <2>3. /\ DOMAIN call' = Callers /\ \A d \in Callers \ {c} : call'[d] = call[d]
        /\ DOMAIN call'[c] = Locals /\ call'[c].pc = "done" /\ call'[c].req = call[c].req
        /\ call'[c].edits = call[c].edits /\ call'[c].offset = call[c].offset
        /\ call'[c].total = call[c].total /\ call'[c].items = PageOf(c)
    BY <1>1, <2>1, <2>2 DEF Locals
  <2>4. Form(call[c], Edits)'
    BY <1>1, <1>2, <2>1, <2>3 DEF Form, Kinds, Locals
  <2>5. Answers(call[c])'
    BY <1>1, <1>2, <2>1, <2>3 DEF Answers, PageOf, Chosen
  <2>6. Exports(call[c])'
    BY <2>1, <2>3 DEF Exports, Refreshes
  <2> QED
    BY <1>1, <2>3, <2>4, <2>5, <2>6, CallerKeepsReading DEF Reading
<1> QED
  BY <1>3, <1>4

\* Calls for counts, playlists and saved things, and the ends of all calls.
LEMMA OthersStepKeepsReading ==
  ASSUME ReadInv, NEW c \in Callers,
         \/ Lookup(c) \/ Compute(c) \/ ExportPlaylist(c) \/ CreateSaved(c) \/ ReadBack(c)
         \/ DeleteSaved(c) \/ RunTask(c) \/ CancelJob(c) \/ Return(c)
  PROVE  ReadInv'
<1>1. DOMAIN call = Callers /\ Form(call[c], Edits)
  BY DEF ReadInv, Reading
<1>2. UNCHANGED <<rows, hidden, editAt, nfo, late>>
  BY DEF Lookup, Compute, ExportPlaylist, CreateSaved, ReadBack, DeleteSaved, RunTask, CancelJob,
     Return, files
<1> DEFINE Over(new) == /\ call[c].req.kind \in {"counts", "create", "playlist"}
                        /\ new.pc \in {"read back", "compute", "done"} /\ call[c].pc # "idle"
                        /\ "pc" \in DOMAIN new /\ DOMAIN new = DOMAIN call[c] /\ new.req = call[c].req
                        /\ new.edits = call[c].edits /\ new.offset = call[c].offset
                        /\ new.pc = "compute" => call[c].req.kind = "counts"
<1>3. CASE call' = [call EXCEPT ![c] = Idle]
  BY <1>1, <1>2, <1>3, OtherCallsKeepReading DEF Idle
<1>4. ASSUME DOMAIN call' = Callers, \A d \in Callers \ {c} : call'[d] = call[d], Over(call'[c])
      PROVE  ReadInv'
  BY <1>2, <1>4, OtherCallsKeepReading
<1>5. CASE Lookup(c)
  <2> DEFINE r == call[c].req
             e == cache[r.cache][r.key]
  <2>1. call[c].pc = "counts" /\ DOMAIN call[c] = Locals /\ r.kind = "counts"
    BY <1>1, <1>5 DEF Lookup, At, Form, Kinds
  <2>2. \/ call' = [call EXCEPT ![c].pc = "done", ![c].first = e.first, ![c].asked = e.asked,
                                ![c].set = e.set, ![c].total = clock]
        \/ call' = [call EXCEPT ![c].pc = "compute", ![c].first = Edits, ![c].asked = clock]
    BY <1>5 DEF Lookup
  <2> HIDE DEF e, r
  <2>3. DOMAIN call' = Callers /\ (\A d \in Callers \ {c} : call'[d] = call[d]) /\ Over(call'[c])
    <3>1. CASE call' = [call EXCEPT ![c].pc = "done", ![c].first = e.first, ![c].asked = e.asked,
                                    ![c].set = e.set, ![c].total = clock]
      BY <1>1, <2>1, <3>1 DEF Locals, r
    <3>2. CASE call' = [call EXCEPT ![c].pc = "compute", ![c].first = Edits, ![c].asked = clock]
      BY <1>1, <2>1, <3>2 DEF Locals, r
    <3> QED
      BY <2>2, <3>1, <3>2
  <2> QED
    BY <1>4, <2>3, ZenonT(40)
<1>6. CASE Compute(c)
  <2>1. call[c].pc = "compute" /\ DOMAIN call[c] = Locals /\ call[c].req.kind = "counts"
    BY <1>1, <1>6 DEF Compute, At, Form
  <2>2. call' = [call EXCEPT ![c].pc = "done", ![c].set = clock, ![c].total = clock]
    BY <1>6 DEF Compute
  <2>3. DOMAIN call' = Callers /\ (\A d \in Callers \ {c} : call'[d] = call[d]) /\ Over(call'[c])
    BY <1>1, <2>1, <2>2 DEF Locals
  <2> QED
    BY <1>4, <2>3
<1>7. CASE ExportPlaylist(c)
  <2>1. call[c].pc = "playlist" /\ DOMAIN call[c] = Locals /\ call[c].req.kind = "playlist"
    BY <1>1, <1>7 DEF ExportPlaylist, At, Form, Kinds
  <2>2. PICK tracks : call' = [call EXCEPT ![c].pc = "done", ![c].items = tracks, ![c].total = Len(tracks)]
    BY <1>7 DEF ExportPlaylist
  <2>3. DOMAIN call' = Callers /\ (\A d \in Callers \ {c} : call'[d] = call[d]) /\ Over(call'[c])
    BY <1>1, <2>1, <2>2 DEF Locals
  <2> QED
    BY <1>4, <2>3
<1>8. CASE CreateSaved(c)
  <2>1. call[c].pc = "create" /\ DOMAIN call[c] = Locals /\ call[c].req.kind = "create"
    BY <1>1, <1>8 DEF CreateSaved, At, Form, Kinds
  <2>2. \/ call' = [call EXCEPT ![c] = Idle]
        \/ \E n : call' = [call EXCEPT ![c].pc = "read back", ![c].id = n]
    BY <1>8, Zenon DEF CreateSaved, Finish
  <2>3. ASSUME NEW n, call' = [call EXCEPT ![c].pc = "read back", ![c].id = n]
        PROVE  DOMAIN call' = Callers /\ (\A d \in Callers \ {c} : call'[d] = call[d]) /\ Over(call'[c])
    BY <1>1, <2>1, <2>3 DEF Locals
  <2> QED
    BY <1>3, <1>4, <2>2, <2>3
<1>9. CASE ReadBack(c) \/ DeleteSaved(c) \/ RunTask(c) \/ CancelJob(c) \/ Return(c)
  BY <1>3, <1>9 DEF ReadBack, DeleteSaved, RunTask, CancelJob, Return, Finish
<1> QED
  BY <1>5, <1>6, <1>7, <1>8, <1>9

\* A call that begins has done nothing yet.
LEMMA BeginKeepsReading ==
  ASSUME ReadInv, NEW c \in Callers, NEW r \in Requests, Begin(c, r) \/ Pick(c, r)
  PROVE  ReadInv'
<1>1. /\ UNCHANGED <<rows, hidden, editAt, nfo, late>> /\ DOMAIN call' = Callers
      /\ \A d \in Callers \ {c} : call'[d] = call[d]
      /\ DOMAIN call'[c] = Locals /\ call'[c].pc = r.kind /\ call'[c].req = r
      /\ call'[c].edits = 0 /\ call'[c].offset = 0
  <2>1. CASE Begin(c, r)
    BY <2>1 DEF Begin, Started, ReadInv, files, Locals
  <2>2. CASE Pick(c, r)
    <3>1. PICK i : call' = [call EXCEPT ![c] = [Started(r) EXCEPT !.id = i, !.text = Fetched(r.table, i)]]
      BY <2>2 DEF Pick
    <3> QED
      BY <2>2, <3>1 DEF Pick, Started, ReadInv, files, Locals
  <2> QED
    BY <2>1, <2>2
<1>2. r.kind \in Kinds /\ Edits' = Edits /\ Edits \in Nat
  BY <1>1, CatalogueAssumption DEF Edits, ReadInv
<1>3. Form(call[c], Edits)'
  <2>1. r.kind \notin {"idle", "compute", "page", "next page", "artists", "export", "write"}
    BY <1>2 DEF Kinds
  <2>2. "pc" \in Locals
    BY DEF Locals
  <2>3. 0 <= Edits' /\ {0, 0} \subseteq Nat
    BY <1>2
  <2>4. DOMAIN call'[c] = Locals /\ call'[c].req \in Requests
        /\ {call'[c].edits, call'[c].offset} \subseteq Nat /\ call'[c].edits <= Edits'
    BY <1>1, <2>3
  <2>5. call'[c].pc \in Kinds => call'[c].req.kind = call'[c].pc
    BY <1>1
  <2>6. call'[c].pc \notin {"idle", "compute", "page", "next page", "artists", "export", "write"}
    BY <1>1, <2>1
  <2>7. call'[c].offset = 0 /\ "pc" \in DOMAIN call'[c]
    BY <1>1, <2>2
  <2> QED
    BY <2>4, <2>5, <2>6, <2>7 DEF Form
<1>4. Answers(call[c])' /\ Exports(call[c])'
  BY <1>1, <1>2 DEF Answers, Exports, Kinds
<1> QED
  BY <1>1, <1>3, <1>4, CallerKeepsReading DEF Reading

\* A page of what a query selects.
PageAt(q, limit, offset) == Execute(rows, hidden, Paged(q, limit, offset))

\* Paging changes nothing in what is selected and in which order.
LEMMA PagingSelects ==
  ASSUME NEW q, DOMAIN q = DOMAIN NewQuery, NEW limit, NEW offset
  PROVE  /\ Selected(rows, hidden, Paged(q, limit, offset)) = Selected(rows, hidden, q)
         /\ Paged(q, limit, offset).desc = q.desc
         /\ Paged(q, limit, offset).limit = limit /\ Paged(q, limit, offset).offset = offset
<1> DEFINE p == Paged(q, limit, offset)
<1>1. DOMAIN q = {"where", "fts", "deleted", "desc", "limit", "offset"}
  BY DEF NewQuery
<1>2. /\ p.where = q.where /\ p.fts = q.fts /\ p.deleted = q.deleted /\ p.desc = q.desc
      /\ p.limit = limit /\ p.offset = offset /\ DOMAIN p = DOMAIN q
  BY <1>1 DEF Paged
<1> HIDE DEF p
<1>3. Build(p).where = Build(q).where
  BY <1>1, <1>2 DEF Build, Where
<1>4. Selected(rows, hidden, p) = Selected(rows, hidden, q)
  BY <1>2, <1>3 DEF Selected
<1> QED
  BY <1>2, <1>4 DEF p

\* A page shows what has its places.
LEMMA PageShows ==
  ASSUME RowsInv, NEW q, DOMAIN q = DOMAIN NewQuery, q.desc \in BOOLEAN,
         NEW limit \in Nat \ {0}, NEW offset \in Nat,
         NEW S, S = Selected(rows, hidden, q), NEW page, page = PageAt(q, limit, offset)
  PROVE  /\ page \in Seq(S) /\ S \subseteq DOMAIN rows /\ Cardinality(S) \in Nat
         /\ page = <<>> <=> Cardinality(S) <= offset
         /\ \A i \in 1 .. Len(page) : page[i] \in S /\ Place(S, page[i], q.desc) = offset + i
         /\ \A v \in S :
              /\ Place(S, v, q.desc) \in 1 .. Cardinality(S)
              /\ offset < Place(S, v, q.desc) /\ Place(S, v, q.desc) <= offset + limit =>
                   /\ Place(S, v, q.desc) - offset \in 1 .. Len(page)
                   /\ page[Place(S, v, q.desc) - offset] = v
<1> DEFINE p == Paged(q, limit, offset)
           s == Sorted(S, q.desc)
           n == Cardinality(S)
           m == IF offset + limit > n THEN n ELSE offset + limit
<1>1. S \in SUBSET Nat /\ IsFiniteSet(S) /\ S \subseteq DOMAIN rows
  BY SelectedFinite
<1>2. /\ s \in Seq(S) /\ Len(s) = n /\ n \in Nat
      /\ \A v \in S : Place(S, v, q.desc) \in 1 .. n /\ s[Place(S, v, q.desc)] = v
      /\ \A i \in 1 .. n : s[i] \in S /\ Place(S, s[i], q.desc) = i
  BY <1>1, SortedLists
<1>3. p.limit = limit /\ p.offset = offset /\ page = Window(s, p)
  BY PagingSelects DEF PageAt, Execute
<1>4. NULL \notin Nat
  BY CatalogueAssumption
<1>5. m \in Nat /\ m = IF p.limit = NULL \/ p.offset + p.limit > Len(s) THEN Len(s) ELSE p.offset + p.limit
  BY <1>2, <1>3, <1>4
<1> HIDE DEF s, n, p, m
<1>6. /\ page \in Seq(S) /\ Len(page) = IF offset < m THEN m - offset ELSE 0
      /\ \A i \in 1 .. Len(page) : page[i] = s[offset + i]
  <2>1. p.offset \in Nat /\ (p.limit = NULL \/ p.limit \in Nat)
    BY <1>3
  <2>2. /\ Window(s, p) \in Seq(S) /\ Len(Window(s, p)) = IF p.offset < m THEN m - p.offset ELSE 0
        /\ \A i \in 1 .. Len(Window(s, p)) : Window(s, p)[i] = s[p.offset + i]
    <3>1. ASSUME NEW w, w = p
          PROVE  /\ Window(s, w) \in Seq(S) /\ Len(Window(s, w)) = IF w.offset < m THEN m - w.offset ELSE 0
                 /\ \A i \in 1 .. Len(Window(s, w)) : Window(s, w)[i] = s[w.offset + i]
      <4>1. w.offset \in Nat /\ (w.limit = NULL \/ w.limit \in Nat) /\ s \in Seq(S) /\ m \in Nat
            /\ m = IF w.limit = NULL \/ w.offset + w.limit > Len(s) THEN Len(s) ELSE w.offset + w.limit
        BY <1>2, <1>5, <2>1, <3>1
      <4> QED
        BY <1>4, <4>1, Windows
    <3> QED
      BY <3>1
  <2> QED
    BY <1>3, <2>2
<1>7. page = <<>> <=> n <= offset
  <2>1. page = <<>> <=> Len(page) = 0
    BY <1>6
  <2>2. Len(page) = 0 <=> n <= offset
    BY <1>2, <1>6 DEF m
  <2> QED
    BY <2>1, <2>2
<1>8. ASSUME NEW i \in 1 .. Len(page)
      PROVE  page[i] \in S /\ Place(S, page[i], q.desc) = offset + i
  <2>1. offset + i \in 1 .. n
    BY <1>2, <1>6 DEF m
  <2> QED
    BY <1>2, <1>6, <2>1
<1>9. ASSUME NEW v \in S, offset < Place(S, v, q.desc), Place(S, v, q.desc) <= offset + limit
      PROVE  /\ Place(S, v, q.desc) - offset \in 1 .. Len(page)
             /\ page[Place(S, v, q.desc) - offset] = v
  <2>1. Place(S, v, q.desc) \in 1 .. n /\ s[Place(S, v, q.desc)] = v
    BY <1>2
  <2>2. PICK k \in 1 .. n : k = Place(S, v, q.desc)
    BY <2>1
  <2>3. k - offset \in 1 .. Len(page) /\ offset + (k - offset) = k
    BY <1>2, <1>6, <1>9, <2>2 DEF m
  <2>4. page[k - offset] = s[k]
    BY <1>6, <2>3
  <2> QED
    BY <2>1, <2>2, <2>3, <2>4
<1> QED
  BY <1>1, <1>2, <1>6, <1>7, <1>8, <1>9 DEF n

\* Without pages all is shown.
LEMMA AllShown ==
  ASSUME RowsInv, NEW q, q.desc \in BOOLEAN, q.limit = NULL, q.offset = 0,
         NEW S, S = Selected(rows, hidden, q), NEW all, all = Execute(rows, hidden, q)
  PROVE  all \in Seq(S) /\ \A v \in S : \E i \in DOMAIN all : all[i] = v
<1> DEFINE s == Sorted(S, q.desc)
           n == Cardinality(S)
<1>1. S \in SUBSET Nat /\ IsFiniteSet(S)
  BY SelectedFinite
<1>2. /\ s \in Seq(S) /\ Len(s) = n /\ n \in Nat
      /\ \A v \in S : Place(S, v, q.desc) \in 1 .. n /\ s[Place(S, v, q.desc)] = v
  BY <1>1, SortedLists
<1>3. all = Window(s, q) /\ NULL \notin Nat
  BY CatalogueAssumption DEF Execute
<1> HIDE DEF s, n
<1>4. all \in Seq(S) /\ Len(all) = n /\ \A i \in 1 .. n : all[i] = s[i]
  <2>1. n = IF q.limit = NULL \/ q.offset + q.limit > Len(s) THEN Len(s) ELSE q.offset + q.limit
    BY <1>2
  <2>2. q.offset \in Nat /\ (q.limit = NULL \/ q.limit \in Nat)
    OBVIOUS
  <2>3. /\ Window(s, q) \in Seq(S)
        /\ Len(Window(s, q)) = IF q.offset < n THEN n - q.offset ELSE 0
        /\ \A i \in 1 .. Len(Window(s, q)) : Window(s, q)[i] = s[q.offset + i]
    <3>1. ASSUME NEW w, w = q, NEW t, t = s, NEW m, m = n
          PROVE  /\ Window(t, w) \in Seq(S)
                 /\ Len(Window(t, w)) = IF w.offset < m THEN m - w.offset ELSE 0
                 /\ \A i \in 1 .. Len(Window(t, w)) : Window(t, w)[i] = t[w.offset + i]
      <4>1. t \in Seq(S) /\ m \in Nat
        BY <1>2, <3>1
      <4>2. /\ w.offset \in Nat /\ (w.limit = NULL \/ w.limit \in Nat)
            /\ m = IF w.limit = NULL \/ w.offset + w.limit > Len(t) THEN Len(t) ELSE w.offset + w.limit
        BY <2>1, <2>2, <3>1
      <4> QED
        BY <1>3, <4>1, <4>2, Windows
    <3> QED
      BY <3>1
  <2>4. Len(all) = n
    BY <1>2, <1>3, <2>3
  <2>5. \A i \in 1 .. n : 0 + i = i
    BY <1>2
  <2> QED
    BY <1>3, <2>3, <2>4, <2>5
<1> QED
  BY <1>2, <1>4

\* The query of an export.
LEMMA ExportQuery ==
  ASSUME NEW r \in Requests, r.kind \in {"nfo job", "nfo request"}
  PROVE  /\ DOMAIN r.query = DOMAIN NewQuery /\ r.query.desc \in BOOLEAN
         /\ r.query.limit = NULL /\ r.query.offset = 0
<1>1. ~AboutSaved(r) /\ r.kind # "counts" /\ r.kind # "list"
  BY CatalogueAssumption
<1> QED
  BY <1>1, CatalogueAssumption

\* The job counts: every video is on a page to come.
LEMMA JobCountKeepsReading ==
  ASSUME ReadInv, NEW c \in Callers, JobCount(c)
  PROVE  ReadInv'
<1>1. /\ DOMAIN call = Callers /\ Form(call[c], Edits) /\ Edits \in Nat /\ RowsInv
      /\ UNCHANGED <<rows, hidden, editAt, nfo, late>>
  BY DEF ReadInv, Reading, JobCount, files
<1>2. Edits' = Edits /\ Edits <= Edits' /\ Edits' \in Nat /\ 0 \in Nat
  BY <1>1 DEF Edits
<1>3. /\ call[c].pc = "nfo job" /\ DOMAIN call[c] = Locals /\ call[c].req \in Requests
      /\ call[c].req.kind = "nfo job" /\ call[c].offset = 0
  BY <1>1 DEF JobCount, At, Form, Kinds
<1>4. call' = [call EXCEPT ![c].pc = "next page", ![c].total = TotalOf(c), ![c].edits = Edits]
  BY DEF JobCount
<1>5. /\ DOMAIN call' = Callers /\ \A d \in Callers \ {c} : call'[d] = call[d]
      /\ DOMAIN call'[c] = Locals /\ call'[c].pc = "next page" /\ call'[c].req = call[c].req
      /\ call'[c].edits = Edits /\ call'[c].offset = 0 /\ call'[c].total = TotalOf(c)
  BY <1>1, <1>3, <1>4 DEF Locals
<1>6. Form(call[c], Edits)'
  <2>1. DOMAIN call'[c] = Locals /\ call'[c].req \in Requests
    BY <1>3, <1>5
  <2>2. call'[c].edits \in Nat /\ call'[c].offset \in Nat /\ call'[c].edits <= Edits' /\ Edits' \in Nat
    <3>1. 0 \in Nat
      OBVIOUS
    <3>2. Edits' \in Nat
      BY <1>1, <1>2
    <3>3. call'[c].edits \in Nat
      BY <1>1, <1>5
    <3>4. call'[c].offset \in Nat
      BY <1>5, <3>1
    <3>5. call'[c].edits <= Edits'
      BY <1>2, <1>5
    <3> QED
      BY <3>2, <3>3, <3>4, <3>5
  <2>3. call'[c].pc = "next page" /\ call'[c].pc \notin Kinds /\ call'[c].req.kind = "nfo job"
    BY <1>3, <1>5 DEF Kinds
  <2>4. Form(call'[c], Edits')
    BY <2>1, <2>2, <2>3, FormHolds
  <2> QED
    BY <2>4
<1>7. Answers(call[c])'
  BY <1>5 DEF Answers
<1>8. Exports(call[c])'
  <2>1. Chosen(call[c])' = Chosen(call[c]) /\ TotalOf(c) = Cardinality(Chosen(call[c]))
    BY <1>1, <1>5 DEF Chosen, TotalOf, Count, Query
  <2>2. \A v \in Chosen(call[c]) : Place(Chosen(call[c]), v, call[c].req.query.desc) > call'[c].offset
    <3>1. IsFiniteSet(Chosen(call[c])) /\ Chosen(call[c]) \in SUBSET Nat
      BY <1>1, SelectedFinite DEF Chosen
    <3>2. call[c].req.query.desc \in BOOLEAN
      BY <1>3, ExportQuery
    <3>3. ASSUME NEW S, S = Chosen(call[c]), NEW desc \in BOOLEAN, NEW v \in S
          PROVE  Place(S, v, desc) > 0
      <4>1. Place(S, v, desc) \in 1 .. Cardinality(S) /\ Cardinality(S) \in Nat
        BY <3>1, <3>3, PlaceTypes, FS_CardinalityType
      <4> QED
        BY <4>1
    <3> QED
      BY <1>5, <3>2, <3>3
  <2>3. /\ call'[c].pc = "next page" /\ call'[c].req.kind = "nfo job"
        /\ call'[c].total = Cardinality(Chosen(call[c])')
        /\ \A v \in Chosen(call[c])' : Place(Chosen(call[c])', v, call'[c].req.query.desc) > call'[c].offset
    BY <1>3, <1>5, <2>1, <2>2
  <2> QED
    BY <2>3 DEF Exports
<1> QED
  BY <1>1, <1>5, <1>6, <1>7, <1>8, CallerKeepsReading DEF Reading

\* The next page: what has a place on it is in hand, the rest is still to
\* come.  When there is none, nothing was to come.
LEMMA NextPageKeepsReading ==
  ASSUME ReadInv, NEW c \in Callers, NextPage(c)
  PROVE  ReadInv'
<1> DEFINE q == call[c].req.query
           o == call[c].offset
           S == Chosen(call[c])
           page == PageAt(q, Batch, o)
<1>1. /\ DOMAIN call = Callers /\ Form(call[c], Edits) /\ Exports(call[c]) /\ Edits \in Nat /\ RowsInv
      /\ UNCHANGED <<rows, hidden, editAt, nfo, late>> /\ Batch \in Nat \ {0}
  BY CatalogueAssumption DEF ReadInv, Reading, NextPage, files
<1>2. Edits' = Edits /\ Edits <= Edits' /\ Edits' \in Nat /\ 0 \in Nat
  BY <1>1 DEF Edits
<1>3. /\ call[c].pc = "next page" /\ DOMAIN call[c] = Locals /\ call[c].req \in Requests
      /\ call[c].req.kind = "nfo job" /\ o \in Nat /\ call[c].edits \in Nat /\ call[c].edits <= Edits
  BY <1>1 DEF NextPage, At, Form
<1>4. DOMAIN q = DOMAIN NewQuery /\ q.desc \in BOOLEAN
  BY <1>3, ExportQuery
<1>5. /\ page \in Seq(S) /\ S \subseteq DOMAIN rows /\ Cardinality(S) \in Nat
      /\ page = <<>> <=> Cardinality(S) <= o
      /\ \A v \in S :
           /\ Place(S, v, q.desc) \in 1 .. Cardinality(S)
           /\ o < Place(S, v, q.desc) /\ Place(S, v, q.desc) <= o + Batch =>
                /\ Place(S, v, q.desc) - o \in 1 .. Len(page)
                /\ page[Place(S, v, q.desc) - o] = v
  <2>1. S = Selected(rows, hidden, q)
    BY DEF Chosen
  <2> HIDE DEF S, q, o, page
  <2>2. ASSUME NEW x, x = q
        PROVE  /\ page \in Seq(S) /\ S \subseteq DOMAIN rows /\ Cardinality(S) \in Nat
               /\ page = <<>> <=> Cardinality(S) <= o
               /\ \A v \in S :
                    /\ Place(S, v, x.desc) \in 1 .. Cardinality(S)
                    /\ o < Place(S, v, x.desc) /\ Place(S, v, x.desc) <= o + Batch =>
                         /\ Place(S, v, x.desc) - o \in 1 .. Len(page)
                         /\ page[Place(S, v, x.desc) - o] = v
    <3>1. DOMAIN x = DOMAIN NewQuery /\ x.desc \in BOOLEAN /\ S = Selected(rows, hidden, x)
          /\ page = PageAt(x, Batch, o)
      BY <1>4, <2>1, <2>2 DEF page
    <3>2. RowsInv /\ Batch \in Nat \ {0} /\ o \in Nat
      BY <1>1, <1>3
    <3> QED
      BY <3>1, <3>2, PageShows
  <2> QED
    BY <2>2
<1>6. page \in Seq(Videos)
  BY <1>1, <1>5 DEF RowsInv
<1>7. \/ MorePages(c) /\ page # <<>>
         /\ call' = [call EXCEPT ![c].pc = "export", ![c].left = page, ![c].offset = o + Batch]
      \/ ~(MorePages(c) /\ page # <<>>) /\ call' = [call EXCEPT ![c].pc = "artists"]
  BY DEF NextPage, PageAt, Query, Goto
<1>8. /\ DOMAIN call' = Callers /\ \A d \in Callers \ {c} : call'[d] = call[d]
      /\ DOMAIN call'[c] = Locals /\ call'[c].req = call[c].req /\ call'[c].edits = call[c].edits
      /\ call'[c].total = call[c].total
      /\ \/ call'[c].pc = "export" /\ call'[c].left = page /\ call'[c].offset = o + Batch
         \/ ~(MorePages(c) /\ page # <<>>) /\ call'[c].pc = "artists" /\ call'[c].offset = o
  <2> HIDE DEF page
  <2>1. CASE call' = [call EXCEPT ![c].pc = "export", ![c].left = page, ![c].offset = o + Batch]
    BY <1>1, <1>3, <2>1 DEF Locals
  <2>2. CASE ~(MorePages(c) /\ page # <<>>) /\ call' = [call EXCEPT ![c].pc = "artists"]
    BY <1>1, <1>3, <2>2 DEF Locals
  <2> QED
    BY <1>7, <2>1, <2>2
<1>9. Form(call[c], Edits)'
  <2> HIDE DEF page, o
  <2>1. call'[c].offset \in Nat /\ call'[c].pc \in {"export", "artists"}
        /\ (call'[c].pc = "export" => call'[c].left \in Seq(Videos))
    <3>1. o \in Nat /\ o + Batch \in Nat
      <4>1. Batch \in Nat
        BY <1>1
      <4>2. o \in Nat
        BY <1>3
      <4> QED
        BY <4>1, <4>2
    <3>2. CASE call'[c].pc = "export" /\ call'[c].left = page /\ call'[c].offset = o + Batch
      <4>1. call'[c].offset \in Nat
        BY <3>1, <3>2
      <4>2. call'[c].left \in Seq(Videos)
        BY <1>6, <3>2
      <4> QED
        BY <3>2, <4>1, <4>2
    <3>3. CASE call'[c].pc = "artists" /\ call'[c].offset = o
      BY <3>1, <3>3
    <3> QED
      BY <1>8, <3>2, <3>3
  <2> QED
    BY <1>1, <1>2, <1>3, <1>8, <2>1, FormHolds DEF Kinds
<1>10. Answers(call[c])'
  BY <1>8 DEF Answers
<1>11. Exports(call[c])'
  <2>1. Chosen(call[c])' = S /\ call'[c].req.query = q
    BY <1>1, <1>8 DEF Chosen
  <2> SUFFICES ASSUME call[c].edits = Edits
               PROVE  /\ call'[c].total = Cardinality(S)
                      /\ \A v \in S :
                           \/ Settled(v)
                           \/ call'[c].pc = "export" /\ \E i \in DOMAIN call'[c].left : call'[c].left[i] = v
                           \/ call'[c].pc = "export" /\ Place(S, v, q.desc) > call'[c].offset
    <3> HIDE DEF S, q, o, page
    <3>1. \A v : Settled(v)' <=> Settled(v)
      BY <1>1 DEF Settled
    <3> QED
      BY <1>2, <1>3, <1>8, <2>1, <3>1 DEF Exports
  <2>2. /\ call[c].total = Cardinality(S)
        /\ \A v \in S : Settled(v) \/ Place(S, v, q.desc) > o
    BY <1>1, <1>3 DEF Exports, Refreshes
  <2>3. ASSUME NEW v \in S, ~Settled(v)
        PROVE  \/ call'[c].pc = "export" /\ \E i \in DOMAIN call'[c].left : call'[c].left[i] = v
               \/ call'[c].pc = "export" /\ Place(S, v, q.desc) > call'[c].offset
    <3> HIDE DEF S, q, page, o
    <3>1. Place(S, v, q.desc) > o /\ Place(S, v, q.desc) \in 1 .. Cardinality(S)
      BY <1>5, <2>2, <2>3
    <3>2. o \in Nat /\ Cardinality(S) \in Nat /\ Batch \in Nat
      BY <1>1, <1>3, <1>5
    <3>3. o < Cardinality(S)
      BY <3>1, <3>2
    <3>4. o < call[c].total /\ page # <<>>
      BY <1>5, <2>2, <3>2, <3>3
    <3>5. MorePages(c) /\ page # <<>>
      BY <3>4 DEF MorePages, o
    <3>6. call'[c].pc = "export" /\ call'[c].left = page /\ call'[c].offset = o + Batch
      BY <1>8, <3>5
    <3>7. CASE Place(S, v, q.desc) <= o + Batch
      <4>1. /\ Place(S, v, q.desc) - o \in 1 .. Len(page)
            /\ page[Place(S, v, q.desc) - o] = v
        BY <1>5, <3>1, <3>7
      <4>2. DOMAIN page = 1 .. Len(page)
        BY <1>6
      <4> QED
        BY <3>6, <4>1, <4>2
    <3>8. CASE ~(Place(S, v, q.desc) <= o + Batch)
      <4>1. Place(S, v, q.desc) > o + Batch
        BY <3>1, <3>2, <3>8
      <4> QED
        BY <3>6, <4>1
    <3> QED
      BY <3>7, <3>8
  <2> HIDE DEF S, q, page, o
  <2> QED
    BY <1>8, <2>2, <2>3
<1> QED
  BY <1>1, <1>8, <1>9, <1>10, <1>11, CallerKeepsReading DEF Reading

\* A request takes all videos in hand.
LEMMA RequestRowsKeepsReading ==
  ASSUME ReadInv, NEW c \in Callers, RequestRows(c)
  PROVE  ReadInv'
<1> DEFINE all == Execute(rows, hidden, call[c].req.query)
<1>1. /\ DOMAIN call = Callers /\ Form(call[c], Edits) /\ Edits \in Nat /\ RowsInv
      /\ UNCHANGED <<rows, hidden, editAt, nfo, late>>
  BY DEF ReadInv, Reading, RequestRows, files
<1>2. Edits' = Edits /\ Edits <= Edits' /\ Edits' \in Nat /\ 0 \in Nat
  BY <1>1 DEF Edits
<1>3. /\ call[c].pc = "nfo request" /\ DOMAIN call[c] = Locals /\ call[c].req \in Requests
      /\ call[c].req.kind = "nfo request" /\ call[c].offset \in Nat
  BY <1>1 DEF RequestRows, At, Form, Kinds
<1>4. /\ all \in Seq(Chosen(call[c])) /\ Chosen(call[c]) \subseteq Videos
      /\ \A v \in Chosen(call[c]) : \E i \in DOMAIN all : all[i] = v
  <2>1. /\ call[c].req.query.desc \in BOOLEAN /\ call[c].req.query.limit = NULL
        /\ call[c].req.query.offset = 0
    BY <1>3, ExportQuery
  <2> QED
    BY <1>1, <2>1, AllShown, SelectedFinite DEF Chosen, RowsInv
<1>5. call' = [call EXCEPT ![c].pc = "export", ![c].left = all, ![c].edits = Edits]
  BY DEF RequestRows, Query
<1> HIDE DEF all
<1>6. /\ DOMAIN call' = Callers /\ \A d \in Callers \ {c} : call'[d] = call[d]
      /\ DOMAIN call'[c] = Locals /\ call'[c].pc = "export" /\ call'[c].req = call[c].req
      /\ call'[c].edits = Edits /\ call'[c].offset = call[c].offset /\ call'[c].left = all
  BY <1>1, <1>3, <1>5 DEF Locals
<1>7. Form(call[c], Edits)'
  <2>1. all \in Seq(Videos)
    BY <1>4
  <2> QED
    BY <1>1, <1>2, <1>3, <1>6, <2>1, FormHolds DEF Kinds
<1>8. Answers(call[c])'
  BY <1>6 DEF Answers
<1>9. Exports(call[c])'
  <2>1. Chosen(call[c])' = Chosen(call[c])
    BY <1>1, <1>6 DEF Chosen
  <2> QED
    BY <1>3, <1>4, <1>6, <2>1 DEF Exports
<1> QED
  BY <1>1, <1>6, <1>7, <1>8, <1>9, CallerKeepsReading DEF Reading

\* The first of a list and the others.
LEMMA HeadAndTail ==
  ASSUME NEW T, NEW s \in Seq(T), s # <<>>
  PROVE  /\ Head(s) \in T /\ Tail(s) \in Seq(T)
         /\ \A i \in DOMAIN s : s[i] = Head(s) \/ \E k \in DOMAIN Tail(s) : Tail(s)[k] = s[i]
<1>1. Len(s) \in Nat /\ Len(s) # 0 /\ DOMAIN s = 1 .. Len(s)
  OBVIOUS
<1>2. Head(s) = s[1] /\ Head(s) \in T
  BY <1>1
<1>3. /\ Tail(s) \in Seq(T) /\ Len(Tail(s)) = Len(s) - 1
      /\ \A k \in 1 .. Len(s) - 1 : Tail(s)[k] = s[k + 1]
  BY <1>1
<1>4. ASSUME NEW i \in DOMAIN s, i # 1
      PROVE  \E k \in DOMAIN Tail(s) : Tail(s)[k] = s[i]
  <2>1. i - 1 \in 1 .. Len(s) - 1 /\ (i - 1) + 1 = i
    BY <1>1, <1>4
  <2>2. DOMAIN Tail(s) = 1 .. Len(s) - 1
    BY <1>1, <1>3
  <2>3. Tail(s)[i - 1] = s[i]
    BY <1>3, <2>1
  <2> QED
    BY <2>1, <2>2, <2>3
<1> QED
  BY <1>2, <1>3, <1>4

\* An export goes on with the next video, which it has settled.
LEMMA NextVideoKeepsReading ==
  ASSUME ReadInv, NEW c \in Callers, UNCHANGED <<rows, hidden, editAt>>,
         DOMAIN nfo' = Videos, \A v \in Videos : nfo'[v] # NULL => DOMAIN nfo'[v] = Columns,
         \A v \in DOMAIN rows : Settled(v) => Settled(v)',
         call[c].pc \in {"export", "write"}, call[c].left # <<>>,
         NEW first, first = Head(call[c].left),
         Refreshes(call[c].req) /\ call[c].edits = Edits /\ first \in Chosen(call[c]) => Settled(first)',
         DOMAIN call' = Callers, \A d \in Callers \ {c} : call'[d] = call[d],
         DOMAIN call'[c] = DOMAIN call[c], call'[c].pc = "export", call'[c].req = call[c].req,
         call'[c].edits = call[c].edits, call'[c].offset = call[c].offset,
         call'[c].total = call[c].total, call'[c].left = Tail(call[c].left)
  PROVE  ReadInv'
<1>1. Form(call[c], Edits) /\ Exports(call[c]) /\ Edits \in Nat /\ RowsInv /\ Edits' = Edits
  BY DEF ReadInv, Reading, Edits
<1>2. /\ DOMAIN call[c] = Locals /\ call[c].req \in Requests
      /\ call[c].edits \in Nat /\ call[c].offset \in Nat /\ call[c].edits <= Edits
      /\ call[c].req.kind \in {"nfo request", "nfo job"} /\ call[c].left \in Seq(Videos)
  BY <1>1 DEF Form
<1>0. /\ Tail(call[c].left) \in Seq(Videos)
      /\ \A i \in DOMAIN call[c].left :
           call[c].left[i] = first \/ \E k \in DOMAIN Tail(call[c].left) : Tail(call[c].left)[k] = call[c].left[i]
  <2>1. ASSUME NEW l, l = call[c].left
        PROVE  /\ Tail(l) \in Seq(Videos)
               /\ \A i \in DOMAIN l : l[i] = Head(l) \/ \E k \in DOMAIN Tail(l) : Tail(l)[k] = l[i]
    <3>1. l \in Seq(Videos) /\ l # <<>>
      BY <1>2, <2>1
    <3> QED
      BY <3>1, HeadAndTail
  <2> QED
    BY <2>1
<1>3. Form(call[c], Edits)'
  <2>1. call'[c].left \in Seq(Videos)
    BY <1>0
  <2>2. call'[c].edits \in Nat /\ call'[c].offset \in Nat /\ call'[c].edits <= Edits' /\ Edits' \in Nat
    BY <1>1, <1>2
  <2>3. "export" \notin Kinds
    BY DEF Kinds
  <2>4. DOMAIN call'[c] = Locals /\ call'[c].req \in Requests /\ call'[c].req.kind \in {"nfo request", "nfo job"}
    BY <1>2
  <2>5. Form(call'[c], Edits')
    BY <2>1, <2>2, <2>3, <2>4, FormHolds
  <2> QED
    BY <2>5
<1>4. Answers(call[c])'
  BY DEF Answers
<1>5. Exports(call[c])'
  <2> DEFINE S == Chosen(call[c])
  <2>1. Chosen(call[c])' = S /\ S \subseteq DOMAIN rows
    BY <1>1, SelectedFinite DEF Chosen
  <2> HIDE DEF S
  <2> SUFFICES ASSUME Refreshes(call[c].req), call[c].edits = Edits
               PROVE  /\ call[c].req.kind = "nfo job" => call[c].total = Cardinality(S)
                      /\ \A v \in S :
                           \/ Settled(v)'
                           \/ \E i \in DOMAIN call'[c].left : call'[c].left[i] = v
                           \/ /\ call[c].req.kind = "nfo job"
                              /\ Place(S, v, call[c].req.query.desc) > call[c].offset
    BY <1>1, <2>1 DEF Exports
  <2>2. /\ call[c].req.kind = "nfo job" => call[c].total = Cardinality(S)
        /\ \A v \in S :
             \/ Settled(v)
             \/ \E i \in DOMAIN call[c].left : call[c].left[i] = v
             \/ /\ call[c].req.kind = "nfo job"
                /\ Place(S, v, call[c].req.query.desc) > call[c].offset
    BY <1>1 DEF Exports, S
  <2>3. ASSUME NEW v \in S, NEW i \in DOMAIN call[c].left, call[c].left[i] = v
        PROVE  Settled(v)' \/ \E k \in DOMAIN call'[c].left : call'[c].left[k] = v
    <3>1. v = first \/ \E k \in DOMAIN Tail(call[c].left) : Tail(call[c].left)[k] = v
      BY <1>0, <2>3
    <3>2. CASE v = first
      BY <3>2 DEF S
    <3> QED
      BY <3>1, <3>2
  <2> QED
    BY <2>1, <2>2, <2>3
<1> QED
  BY <1>3, <1>4, <1>5, OthersKeepReading DEF Reading

\* A video is skipped, or read.
LEMMA ReadVideoKeepsReading ==
  ASSUME ReadInv, NEW c \in Callers, ReadVideo(c)
  PROVE  ReadInv'
<1> PICK v : v = Head(call[c].left)
  OBVIOUS
<1>1. /\ DOMAIN call = Callers /\ Form(call[c], Edits) /\ Exports(call[c]) /\ Edits \in Nat /\ RowsInv
      /\ UNCHANGED <<rows, hidden, editAt, nfo, late>> /\ Edits' = Edits
      /\ DOMAIN nfo' = Videos /\ \A w \in Videos : nfo'[w] # NULL => DOMAIN nfo'[w] = Columns
  BY DEF ReadInv, Reading, ReadVideo, files, Edits
<1>2. /\ DOMAIN call[c] = Locals /\ call[c].req \in Requests
      /\ call[c].edits \in Nat /\ call[c].offset \in Nat /\ call[c].edits <= Edits
      /\ call[c].req.kind \in {"nfo request", "nfo job"} /\ call[c].left \in Seq(Videos)
      /\ call[c].pc = "export" /\ call[c].left # <<>>
  BY <1>1 DEF Form, ReadVideo, At
<1>3. \A w \in DOMAIN rows : Settled(w)' <=> Settled(w)
  BY <1>1 DEF Settled
<1>4. CASE /\ v \notin DOMAIN rows \/ v \in hidden \/ Skips(c, v)
           /\ call' = [call EXCEPT ![c].left = Tail(@)]
  <2>1. /\ DOMAIN call' = Callers /\ \A d \in Callers \ {c} : call'[d] = call[d]
        /\ DOMAIN call'[c] = DOMAIN call[c] /\ call'[c].pc = "export" /\ call'[c].req = call[c].req
        /\ call'[c].edits = call[c].edits /\ call'[c].offset = call[c].offset
        /\ call'[c].total = call[c].total /\ call'[c].left = Tail(call[c].left)
    BY <1>1, <1>2, <1>4 DEF Locals
  <2>2. ASSUME Refreshes(call[c].req), v \in Chosen(call[c])
        PROVE  Settled(v)'
    <3>1. v \in DOMAIN rows
      BY <1>1, <2>2, SelectedFinite DEF Chosen
    <3>2. v \in hidden \/ ~HasPath(rows[v])
      BY <1>4, <2>2, <3>1 DEF Skips, Refreshes
    <3> QED
      BY <1>3, <3>1, <3>2 DEF Settled
  <2> QED
    BY <1>1, <1>2, <1>3, <2>1, <2>2, NextVideoKeepsReading
<1>5. CASE v \in DOMAIN rows /\ call' = [call EXCEPT ![c].pc = "write", ![c].text = rows[v]]
  <2>1. /\ DOMAIN call' = Callers /\ \A d \in Callers \ {c} : call'[d] = call[d]
        /\ DOMAIN call'[c] = Locals /\ call'[c].pc = "write" /\ call'[c].req = call[c].req
        /\ call'[c].edits = call[c].edits /\ call'[c].offset = call[c].offset
        /\ call'[c].total = call[c].total /\ call'[c].left = call[c].left /\ call'[c].text = rows[v]
    BY <1>1, <1>2, <1>5 DEF Locals
  <2>2. rows[v] \in Contents
    BY <1>1, <1>5 DEF RowsInv
  <2>3. Form(call[c], Edits)'
    <3>1. "write" \notin Kinds
      BY DEF Kinds
    <3>2. call'[c].edits \in Nat /\ call'[c].offset \in Nat /\ call'[c].edits <= Edits' /\ Edits' \in Nat
      BY <1>1, <1>2, <2>1
    <3>3. Form(call'[c], Edits')
      BY <1>2, <2>1, <2>2, <3>1, <3>2, FormHolds
    <3> QED
      BY <3>3
  <2>4. Answers(call[c])'
    BY <2>1 DEF Answers
  <2>5. Exports(call[c])'
    <3>1. Chosen(call[c])' = Chosen(call[c]) /\ Chosen(call[c]) \subseteq DOMAIN rows
      BY <1>1, <2>1, SelectedFinite DEF Chosen
    <3> QED
      BY <1>1, <1>2, <1>3, <2>1, <3>1 DEF Exports
  <2> QED
    BY <1>1, <2>1, <2>3, <2>4, <2>5, CallerKeepsReading DEF Reading
<1> QED
  BY <1>4, <1>5 DEF ReadVideo

\* A file is written: if it is not what the row asks for, the row has changed
\* since, and the history tells.
LEMMA WriteNfoKeepsReading ==
  ASSUME ReadInv, NEW c \in Callers, WriteNfo(c)
  PROVE  ReadInv'
<1> PICK v : v = Head(call[c].left)
  OBVIOUS
<1> PICK text : text = [call[c].text EXCEPT !["tags"] = IF v \in DOMAIN rows THEN rows[v]["tags"] ELSE {}]
  OBVIOUS
<1>1. /\ DOMAIN call = Callers /\ Form(call[c], Edits) /\ Edits \in Nat
      /\ UNCHANGED <<rows, hidden, editAt>> /\ DOMAIN nfo = Videos
      /\ \A w \in Videos : nfo[w] # NULL => DOMAIN nfo[w] = Columns
  BY DEF ReadInv, Reading, WriteNfo
<1>2. /\ DOMAIN call[c] = Locals /\ call[c].req \in Requests /\ call[c].left \in Seq(Videos)
      /\ call[c].pc = "write" /\ call[c].left # <<>> /\ call[c].text \in Contents
  BY <1>1 DEF Form, WriteNfo, At
<1>3. v \in Videos /\ DOMAIN text = Columns
  <2>1. ProperRow(call[c].text)
    BY <1>2, CatalogueAssumption
  <2>2. DOMAIN call[c].text = Columns
    BY <2>1 DEF ProperRow
  <2> QED
    BY <1>2, <2>2
<1>4. /\ nfo' = [nfo EXCEPT ![v] = Written(c, v, text)]
      /\ late' = IF v \in DOMAIN rows /\ rows[v] = text THEN late \ {v} ELSE late \cup {v}
  BY DEF WriteNfo
<1>5. Written(c, v, text) = text
  BY DEF Written
<1>6. /\ DOMAIN nfo' = Videos /\ nfo'[v] = text /\ \A w \in Videos \ {v} : nfo'[w] = nfo[w]
      /\ \A w \in Videos : nfo'[w] # NULL => DOMAIN nfo'[w] = Columns
  BY <1>1, <1>3, <1>4, <1>5
<1>7. v \in DOMAIN rows => Settled(v)'
  BY <1>1, <1>4, <1>6 DEF Settled
<1>8. ASSUME NEW w \in DOMAIN rows, Settled(w)
      PROVE  Settled(w)'
  <2>1. CASE w = v
    BY <1>7, <2>1
  <2>2. CASE w # v
    <3>1. w \in Videos
      BY DEF ReadInv, RowsInv
    <3>2. nfo'[w] = nfo[w] /\ (w \in late => w \in late')
      BY <1>4, <1>6, <2>2, <3>1
    <3> QED
      BY <1>1, <1>8, <3>2 DEF Settled
  <2> QED
    BY <2>1, <2>2
<1>9. PICK items, dirs :
        call' = [call EXCEPT ![c].pc = "export", ![c].left = Tail(@), ![c].items = items, ![c].dirs = dirs]
  BY DEF WriteNfo
<1>10. /\ DOMAIN call' = Callers /\ \A d \in Callers \ {c} : call'[d] = call[d]
       /\ DOMAIN call'[c] = DOMAIN call[c] /\ call'[c].pc = "export" /\ call'[c].req = call[c].req
       /\ call'[c].edits = call[c].edits /\ call'[c].offset = call[c].offset
       /\ call'[c].total = call[c].total /\ call'[c].left = Tail(call[c].left)
  BY <1>1, <1>2, <1>9 DEF Locals
<1>11. v \in Chosen(call[c]) => Settled(v)'
  <2>1. v \in Chosen(call[c]) => v \in DOMAIN rows
    BY SelectedFinite DEF Chosen, ReadInv
  <2> QED
    BY <1>7, <2>1
<1> QED
  BY <1>1, <1>2, <1>6, <1>8, <1>10, <1>11, NextVideoKeepsReading

\* A file is not written, and the history tells.
LEMMA WriteFailsKeepsReading ==
  ASSUME ReadInv, NEW c \in Callers, WriteFails(c)
  PROVE  ReadInv'
<1> PICK v : v = Head(call[c].left)
  OBVIOUS
<1>1. /\ DOMAIN call = Callers /\ Form(call[c], Edits) /\ Edits \in Nat
      /\ UNCHANGED <<rows, hidden, editAt>> /\ DOMAIN nfo = Videos
      /\ \A w \in Videos : nfo[w] # NULL => DOMAIN nfo[w] = Columns
  BY DEF ReadInv, Reading, WriteFails
<1>2. /\ DOMAIN call[c] = Locals /\ call[c].req \in Requests /\ call[c].left \in Seq(Videos)
      /\ call[c].pc = "write" /\ call[c].left # <<>>
  BY <1>1 DEF Form, WriteFails, At
<1>3. v \in Videos /\ DOMAIN Blank = Columns
  BY <1>2 DEF Blank
<1>4. nfo' \in {nfo, [nfo EXCEPT ![v] = Blank]} /\ late' = late \cup {v}
  BY DEF WriteFails
<1>5. /\ DOMAIN nfo' = Videos /\ \A w \in Videos \ {v} : nfo'[w] = nfo[w]
      /\ \A w \in Videos : nfo'[w] # NULL => DOMAIN nfo'[w] = Columns
  BY <1>1, <1>3, <1>4
<1>6. Settled(v)'
  BY <1>4 DEF Settled
<1>7. ASSUME NEW w \in DOMAIN rows, Settled(w)
      PROVE  Settled(w)'
  <2>1. CASE w = v
    BY <1>6, <2>1
  <2>2. CASE w # v
    <3>1. w \in Videos
      BY DEF ReadInv, RowsInv
    <3>2. nfo'[w] = nfo[w] /\ (w \in late => w \in late')
      BY <1>4, <1>5, <2>2, <3>1
    <3> QED
      BY <1>1, <1>7, <3>2 DEF Settled
  <2> QED
    BY <2>1, <2>2
<1>8. PICK dirs : call' = [call EXCEPT ![c].pc = "export", ![c].left = Tail(@), ![c].dirs = dirs]
  BY DEF WriteFails
<1>9. /\ DOMAIN call' = Callers /\ \A d \in Callers \ {c} : call'[d] = call[d]
      /\ DOMAIN call'[c] = DOMAIN call[c] /\ call'[c].pc = "export" /\ call'[c].req = call[c].req
      /\ call'[c].edits = call[c].edits /\ call'[c].offset = call[c].offset
      /\ call'[c].total = call[c].total /\ call'[c].left = Tail(call[c].left)
  BY <1>1, <1>2, <1>8 DEF Locals
<1>10. v \in Chosen(call[c]) => Settled(v)'
  BY <1>6
<1> QED
  BY <1>1, <1>2, <1>5, <1>7, <1>9, <1>10, NextVideoKeepsReading

\* After the last video in hand comes the next page, or the end; after the
\* last page, the artists.
LEMMA PageDoneKeepsReading ==
  ASSUME ReadInv, NEW c \in Callers, PageDone(c) \/ WriteArtists(c)
  PROVE  ReadInv'
<1>1. /\ DOMAIN call = Callers /\ Form(call[c], Edits) /\ Exports(call[c]) /\ Edits \in Nat /\ RowsInv
      /\ UNCHANGED <<rows, hidden, editAt, nfo, late>> /\ Edits' = Edits
  BY DEF ReadInv, Reading, PageDone, WriteArtists, files, Edits
<1>2. PICK pc :
        /\ call' = [call EXCEPT ![c].pc = pc]
        /\ \/ /\ call[c].pc = "export" /\ call[c].left = <<>>
              /\ pc = IF call[c].req.kind = "nfo job" THEN "next page" ELSE "done"
           \/ call[c].pc = "artists" /\ pc = "done"
  <2>1. CASE PageDone(c)
    <3>1. call' = [call EXCEPT ![c].pc = IF call[c].req.kind = "nfo job" THEN "next page" ELSE "done"]
      BY <2>1 DEF PageDone, Goto
    <3> QED
      BY <2>1, <3>1 DEF PageDone, At
  <2>2. CASE WriteArtists(c)
    BY <2>2 DEF WriteArtists, Goto, At
  <2> QED
    BY <2>1, <2>2
<1>3. /\ DOMAIN call[c] = Locals /\ call[c].req \in Requests
      /\ call[c].edits \in Nat /\ call[c].offset \in Nat /\ call[c].edits <= Edits
      /\ call[c].req.kind \in {"nfo request", "nfo job"}
      /\ call[c].pc = "artists" => call[c].req.kind = "nfo job"
  BY <1>1, <1>2 DEF Form
<1>4. /\ DOMAIN call' = Callers /\ \A d \in Callers \ {c} : call'[d] = call[d]
      /\ DOMAIN call'[c] = Locals /\ call'[c].pc = pc /\ call'[c].req = call[c].req
      /\ call'[c].edits = call[c].edits /\ call'[c].offset = call[c].offset
      /\ call'[c].total = call[c].total
  BY <1>1, <1>2, <1>3 DEF Locals
<1>5. Form(call[c], Edits)'
  <2>1. pc \in {"next page", "done"} /\ (pc = "next page" => call[c].req.kind = "nfo job") /\ pc \notin Kinds
    BY <1>2 DEF Kinds
  <2>2. call'[c].edits \in Nat /\ call'[c].offset \in Nat /\ call'[c].edits <= Edits' /\ Edits' \in Nat
    BY <1>1, <1>3, <1>4
  <2>3. Form(call'[c], Edits')
    BY <1>3, <1>4, <2>1, <2>2, FormHolds
  <2> QED
    BY <2>3
<1>6. Answers(call[c])'
  BY <1>3, <1>4 DEF Answers
<1>7. Exports(call[c])'
  <2> DEFINE S == Chosen(call[c])
  <2>1. Chosen(call[c])' = S /\ \A v : Settled(v)' <=> Settled(v)
    BY <1>1, <1>4 DEF Chosen, Settled
  <2> HIDE DEF S
  <2> SUFFICES ASSUME Refreshes(call[c].req), call[c].edits = Edits
               PROVE  /\ call[c].req.kind = "nfo job" => call[c].total = Cardinality(S)
                      /\ \A v \in S :
                           \/ Settled(v)
                           \/ /\ pc = "next page" /\ call[c].req.kind = "nfo job"
                              /\ Place(S, v, call[c].req.query.desc) > call[c].offset
    BY <1>1, <1>2, <1>4, <2>1 DEF Exports
  <2>2. /\ call[c].req.kind = "nfo job" => call[c].total = Cardinality(S)
        /\ \A v \in S :
             \/ Settled(v)
             \/ call[c].pc = "export" /\ \E i \in DOMAIN call[c].left : call[c].left[i] = v
             \/ /\ call[c].pc = "export" /\ call[c].req.kind = "nfo job"
                /\ Place(S, v, call[c].req.query.desc) > call[c].offset
    BY <1>1, <1>2 DEF Exports, S
  <2>3. call[c].pc = "export" => DOMAIN call[c].left = {}
    <3>1. DOMAIN <<>> = {}
      OBVIOUS
    <3> QED
      BY <1>2, <3>1
  <2> QED
    BY <1>2, <2>2, <2>3
<1> QED
  BY <1>1, <1>4, <1>5, <1>6, <1>7, CallerKeepsReading DEF Reading

\* After an edit nothing is claimed of the calls there are.
LEMMA EditKeepsReading ==
  ASSUME ReadInv, editAt \in Seq(Nat), clock \in Nat, NEW v \in Videos, Edit(v)
  PROVE  ReadInv'
<1>1. UNCHANGED <<nfo, late, call>> /\ editAt' = Append(editAt, clock)
  BY DEF Edit, files
<1>2. Edits' = Edits + 1 /\ Edits \in Nat /\ Edits' \in Nat
  BY <1>1 DEF Edits
<1>3. RowsInv'
  <2>1. CASE \E row \in Contents : rows' = WithRow(v, row) /\ rows' # rows /\ UNCHANGED hidden
    BY <2>1 DEF ReadInv, RowsInv, WithRow
  <2>2. CASE v \in DOMAIN rows /\ hidden' = (hidden \cup {v}) \ (hidden \cap {v}) /\ UNCHANGED rows
    BY <2>2 DEF ReadInv, RowsInv
  <2>3. CASE v \in hidden /\ rows' = [w \in DOMAIN rows \ {v} |-> rows[w]] /\ hidden' = hidden \ {v}
    BY <2>3 DEF ReadInv, RowsInv
  <2> QED
    BY <2>1, <2>2, <2>3 DEF Edit
<1>4. ASSUME NEW c \in Callers PROVE Reading(call[c])'
  <2>1. Form(call[c], Edits) /\ call'[c] = call[c]
    BY <1>1 DEF ReadInv, Reading
  <2>2. call[c].pc # "idle" => call[c].edits \in Nat /\ call[c].edits <= Edits
    BY <2>1 DEF Form
  <2>3. call[c].pc # "idle" => call[c].edits <= Edits' /\ call[c].edits # Edits'
    BY <1>2, <2>2
  <2>4. Form(call[c], Edits)'
    BY <2>1, <2>3 DEF Form
  <2>5. Answers(call[c])' /\ Exports(call[c])'
    BY <2>1, <2>3 DEF Answers, Exports
  <2> QED
    BY <2>4, <2>5 DEF Reading
<1> QED
  BY <1>1, <1>2, <1>3, <1>4 DEF ReadInv

LEMMA ReadInvStep == ReadInv /\ CountsInv /\ [Next]_vars => ReadInv'
<1> SUFFICES ASSUME ReadInv, CountsInv, [Next]_vars PROVE ReadInv'
  OBVIOUS
<1>1. CASE UNCHANGED <<rows, hidden, nfo, late, call, editAt>>
  <2>1. \A c \in Callers : Reading(call[c])'
    <3> TAKE c \in Callers
    <3>1. Reading(call[c])
      BY DEF ReadInv
    <3> QED
      BY <1>1, <3>1 DEF Reading, Form, Answers, Exports, Settled, Chosen, Edits
  <2> QED
    BY <1>1, <2>1 DEF ReadInv, RowsInv, Edits
<1>2. CASE ReadNext
  <2>1. CASE \E v \in Videos : Edit(v)
    BY <2>1, EditKeepsReading DEF CountsInv
  <2>2. CASE Tick
    BY <1>1, <2>2 DEF Tick, files
  <2>3. ASSUME NEW c \in Callers,
               (\E r \in Requests : Begin(c, r) \/ Pick(c, r)) \/ CallStep(c) \/ CancelJob(c) \/ Return(c)
        PROVE  ReadInv'
    <3>1. CASE \E r \in Requests : Begin(c, r) \/ Pick(c, r)
      BY <3>1, BeginKeepsReading
    <3>2. CASE CallStep(c)
      <4>1. CASE CountRows(c) \/ FetchRows(c)
        BY <4>1, ListKeepsReading
      <4>2. CASE \/ Lookup(c) \/ Compute(c) \/ ExportPlaylist(c) \/ CreateSaved(c) \/ ReadBack(c)
                 \/ DeleteSaved(c) \/ RunTask(c)
        BY <4>2, OthersStepKeepsReading
      <4>3. CASE JobCount(c) \/ NextPage(c) \/ RequestRows(c)
        BY <4>3, JobCountKeepsReading, NextPageKeepsReading, RequestRowsKeepsReading
      <4>4. CASE ReadVideo(c) \/ WriteNfo(c) \/ WriteFails(c) \/ PageDone(c) \/ WriteArtists(c)
        BY <4>4, ReadVideoKeepsReading, WriteNfoKeepsReading, WriteFailsKeepsReading, PageDoneKeepsReading
      <4> QED
        BY <3>2, <4>1, <4>2, <4>3, <4>4 DEF CallStep
    <3>3. CASE CancelJob(c) \/ Return(c)
      BY <3>3, OthersStepKeepsReading
    <3> QED
      BY <2>3, <3>1, <3>2, <3>3
  <2> QED
    BY <1>2, <2>1, <2>2, <2>3 DEF ReadNext
<1>3. CASE Crash \/ Stop
  <2>1. /\ UNCHANGED <<rows, hidden, nfo, late, editAt>> /\ call' = [c \in Callers |-> Idle]
    BY <1>3 DEF Crash, Stop, Down, files
  <2>2. \A c \in Callers : Reading(call[c])'
    BY <2>1 DEF Reading, Form, Answers, Exports, Idle, Kinds
  <2> QED
    BY <2>1, <2>2 DEF ReadInv, RowsInv, Edits
<1>4. CASE \/ Start \/ Migrate \/ StatementFails
           \/ \E b \in Backups :
                \/ \E keep \in Retentions : SubmitBackup(b, keep)
                \/ BackupStep(b) \/ BackupFails(b) \/ CancelBackup(b)
  <2>1. CASE Start \/ Migrate \/ StatementFails
    BY <2>1, <1>1 DEF Start, Migrate, RunStatement, RecordVersion, Up, StatementFails, readVars
  <2>2. ASSUME NEW b \in Backups,
               \/ \E keep \in Retentions : SubmitBackup(b, keep)
               \/ BackupStep(b) \/ BackupFails(b) \/ CancelBackup(b)
        PROVE  ReadInv'
    BY <2>2, <1>1 DEF SubmitBackup, BackupStep, StartBackup, Snapshot, OpenZip, CloseZip, CleanUp,
         BackupFails, CancelBackup, readVars
  <2> QED
    BY <1>4, <2>1, <2>2
<1> QED
  BY <1>1, <1>2, <1>3, <1>4 DEF Next, Serve, vars, readVars

LEMMA ReadInvInit == Init => ReadInv
<1> SUFFICES ASSUME Init PROVE ReadInv
  OBVIOUS
<1>1. /\ rows = FirstRows /\ hidden = {} /\ nfo = [v \in Videos |-> NULL]
      /\ call = [c \in Callers |-> Idle] /\ editAt = <<>>
  BY DEF Init, ReadInit
<1>2. RowsInv /\ Edits \in Nat
  BY <1>1, CatalogueAssumption DEF RowsInv, Edits
<1>3. \A c \in Callers : Reading(call[c])
  BY <1>1 DEF Reading, Form, Answers, Exports, Idle, Kinds
<1> QED
  BY <1>1, <1>2, <1>3 DEF ReadInv

\* A page of a list is what its query shows from the page's offset.
LEMMA PageOfQuery ==
  ASSUME NEW r \in Requests, r.kind = "list", NEW q, q = r.query, NEW size, size = r.size,
         NEW p \in Nat \ {0}, NEW o, o = Offset(p, size)
  PROVE  /\ DOMAIN q = DOMAIN NewQuery /\ q.desc \in BOOLEAN /\ size \in Nat \ {0} /\ o \in Nat
         /\ Page(r, p) = PageAt(q, size, o)
<1>1. /\ r.size \in Nat \ {0} /\ DOMAIN r.query = DOMAIN NewQuery /\ r.query.desc \in BOOLEAN
  <2>1. ~AboutSaved(r) /\ r.kind # "counts"
    BY CatalogueAssumption
  <2> QED
    BY <2>1, CatalogueAssumption
<1>2. o \in Nat
  <2>1. p - 1 \in Nat /\ size \in Nat
    BY <1>1
  <2>2. (p - 1) * size \in Nat
    BY <2>1, ProductsGrow
  <2> QED
    BY <2>2 DEF Offset
<1> QED
  BY <1>1, <1>2 DEF Page, PageAt

\* What a page of a list shows.
LEMMA PageOfList ==
  ASSUME RowsInv, NEW r \in Requests, r.kind = "list", NEW q, q = r.query,
         NEW S, S = Selected(rows, hidden, q), NEW size, size = r.size,
         NEW p \in Nat \ {0}, NEW o, o = Offset(p, size), NEW page, page = Page(r, p)
  PROVE  /\ o \in Nat /\ page \in Seq(S) /\ Cardinality(S) \in Nat
         /\ page = <<>> <=> Cardinality(S) <= o
         /\ \A i \in 1 .. Len(page) : page[i] \in S /\ Place(S, page[i], q.desc) = o + i
<1>1. /\ DOMAIN q = DOMAIN NewQuery /\ q.desc \in BOOLEAN /\ size \in Nat \ {0} /\ o \in Nat
      /\ page = PageAt(q, size, o)
  BY PageOfQuery
<1>2. page \in Seq(S) /\ Cardinality(S) \in Nat /\ (page = <<>> <=> Cardinality(S) <= o)
  BY <1>1, PageShows
<1>3. \A i \in 1 .. Len(page) : page[i] \in S /\ Place(S, page[i], q.desc) = o + i
  BY <1>1, PageShows
<1> QED
  BY <1>1, <1>2, <1>3

\* Every video of a list has a place on one of its pages.
LEMMA PlaceOnPage ==
  ASSUME RowsInv, NEW r \in Requests, r.kind = "list", NEW q, q = r.query,
         NEW S, S = Selected(rows, hidden, q), NEW v \in S,
         NEW size \in Nat \ {0}, size = r.size, NEW n \in Nat, n = Cardinality(S)
  PROVE  \E p \in Nat \ {0}, j \in 1 .. size :
           Offset(p, size) < n /\ j \in DOMAIN Page(r, p) /\ Page(r, p)[j] = v
<1>1. PICK one \in Nat \ {0} : one = 1
  OBVIOUS
<1>2. PICK i : i = Place(S, v, q.desc)
  OBVIOUS
<1>3. i \in 1 .. n
  <2>1. PICK o : o = Offset(one, size)
    OBVIOUS
  <2>2. PICK page : page = Page(r, one)
    OBVIOUS
  <2>3. /\ DOMAIN q = DOMAIN NewQuery /\ q.desc \in BOOLEAN /\ size \in Nat \ {0} /\ o \in Nat
        /\ page = PageAt(q, size, o)
    BY <2>1, <2>2, PageOfQuery
  <2>4. \A w \in S :
          /\ Place(S, w, q.desc) \in 1 .. Cardinality(S)
          /\ o < Place(S, w, q.desc) /\ Place(S, w, q.desc) <= o + size =>
               /\ Place(S, w, q.desc) - o \in 1 .. Len(page)
               /\ page[Place(S, w, q.desc) - o] = w
    BY <2>3, PageShows, SMTT(30)
  <2> QED
    BY <1>2, <2>4
<1>4. PICK p \in Nat \ {0}, j \in 1 .. size : i = Offset(p, size) + j
  <2>1. i \in Nat \ {0}
    BY <1>3
  <2>2. \A x \in Nat \ {0} : \E p \in Nat \ {0}, j \in 1 .. size : x = (p - 1) * size + j
    BY PlacesOnPages
  <2> QED
    BY <2>1, <2>2 DEF Offset
<1>5. PICK o : o = Offset(p, size)
  OBVIOUS
<1>6. PICK page : page = Page(r, p)
  OBVIOUS
<1>7. o \in Nat /\ page \in Seq(S)
  BY <1>5, <1>6, PageOfList
<1>8. o < i /\ i <= o + size /\ i - o = j /\ o < n
  BY <1>3, <1>4, <1>5, <1>7
<1>9. o < i /\ i <= o + size => i - o \in 1 .. Len(page) /\ page[i - o] = v
  <2>1. /\ DOMAIN q = DOMAIN NewQuery /\ q.desc \in BOOLEAN /\ size \in Nat \ {0} /\ o \in Nat
        /\ page = PageAt(q, size, o)
    BY <1>5, <1>6, PageOfQuery
  <2>2. \A w \in S :
          /\ Place(S, w, q.desc) \in 1 .. Cardinality(S)
          /\ o < Place(S, w, q.desc) /\ Place(S, w, q.desc) <= o + size =>
               /\ Place(S, w, q.desc) - o \in 1 .. Len(page)
               /\ page[Place(S, w, q.desc) - o] = w
    BY <2>1, PageShows, SMTT(30)
  <2>3. o < Place(S, v, q.desc) /\ Place(S, v, q.desc) <= o + size =>
          /\ Place(S, v, q.desc) - o \in 1 .. Len(page)
          /\ page[Place(S, v, q.desc) - o] = v
    BY <2>2
  <2> QED
    BY <1>2, <2>3
<1> QED
  BY <1>5, <1>6, <1>7, <1>8, <1>9

\* What a page shows is of the list, and at its place; the pages that show
\* anything are those up to the number counted.
LEMMA PagePlaces ==
  ASSUME RowsInv, NEW r \in Requests, r.kind = "list", NEW q, q = r.query,
         NEW S, S = Selected(rows, hidden, q),
         NEW size \in Nat \ {0}, size = r.size, NEW n \in Nat, n = Cardinality(S), NEW p \in Nat \ {0}
  PROVE  /\ \A i \in DOMAIN Page(r, p) :
              Page(r, p)[i] \in S /\ Place(S, Page(r, p)[i], q.desc) = Offset(p, size) + i
         /\ Page(r, p) # <<>> <=> p \in Pages(r)
         /\ p \in Pages(r) <=> Offset(p, size) < n
<1>1. PICK o : o = Offset(p, size)
  OBVIOUS
<1>2. PICK page : page = Page(r, p)
  OBVIOUS
<1>3. /\ o \in Nat /\ page \in Seq(S) /\ (page = <<>> <=> n <= o)
      /\ \A k \in 1 .. Len(page) : page[k] \in S /\ Place(S, page[k], q.desc) = o + k
  BY <1>1, <1>2, PageOfList
<1>4. DOMAIN page = 1 .. Len(page)
  BY <1>3
<1>5. p \in Pages(r) <=> o < n
  <2>1. Pages(r) = 1 .. (n + size - 1) \div size
    BY DEF Pages, Count
  <2>2. p \in 1 .. (n + size - 1) \div size <=> (p - 1) * size < n
    BY PageBegins
  <2> QED
    BY <1>1, <2>1, <2>2 DEF Offset
<1> QED
  BY <1>1, <1>2, <1>3, <1>4, <1>5

\* The places on the pages of a list, and what is there.
Shelf(r) == {x \in Pages(r) \X (1 .. r.size) : x[2] \in DOMAIN Page(r, x[1])}
OnShelf(r) == {Page(r, x[1])[x[2]] : x \in Shelf(r)}

\* The pages of a list up to the number counted show each video at one place,
\* and those behind them nothing.
LEMMA PagesShowAll ==
  ASSUME RowsInv, NEW r \in Requests, r.kind = "list"
  PROVE  /\ Cardinality(Shelf(r)) = Cardinality(Selected(rows, hidden, r.query))
         /\ OnShelf(r) = Selected(rows, hidden, r.query)
         /\ \A p \in Nat \ {0} : Page(r, p) # <<>> <=> p \in Pages(r)
<1> SUFFICES ASSUME NEW q, q = r.query, NEW S, S = Selected(rows, hidden, q),
                    NEW places, places = Shelf(r), NEW shown, shown = OnShelf(r)
             PROVE  /\ Cardinality(places) = Cardinality(S)
                    /\ shown = S
                    /\ \A p \in Nat \ {0} : Page(r, p) # <<>> <=> p \in Pages(r)
  OBVIOUS
<1>0. /\ places = {x \in Pages(r) \X (1 .. r.size) : x[2] \in DOMAIN Page(r, x[1])}
      /\ shown = {Page(r, x[1])[x[2]] : x \in places}
  BY DEF Shelf, OnShelf
<1>1. r.size \in Nat \ {0} /\ Cardinality(S) \in Nat /\ IsFiniteSet(S)
  BY SelectedFinite, FS_CardinalityType, CatalogueAssumption
<1>2. PICK size \in Nat \ {0} : size = r.size
  BY <1>1
<1>3. PICK n \in Nat : n = Cardinality(S)
  BY <1>1
<1> DEFINE g == [x \in places |-> Page(r, x[1])[x[2]]]
<1>4. Pages(r) \subseteq Nat \ {0}
  BY DEF Pages
<1>5. ASSUME NEW x \in places
      PROVE  /\ x[1] \in Nat \ {0} /\ x[2] \in 1 .. size /\ x = <<x[1], x[2]>>
             /\ x[2] \in DOMAIN Page(r, x[1])
  BY <1>0, <1>2, <1>4
<1>6. ASSUME NEW x \in places
      PROVE  g[x] \in S /\ Place(S, g[x], q.desc) = Offset(x[1], size) + x[2]
  <2>1. ASSUME NEW p \in Nat \ {0}, NEW i \in DOMAIN Page(r, p)
        PROVE  Page(r, p)[i] \in S /\ Place(S, Page(r, p)[i], q.desc) = Offset(p, size) + i
    BY <1>2, <1>3, PagePlaces
  <2>2. g[x] = Page(r, x[1])[x[2]]
    OBVIOUS
  <2> HIDE DEF g
  <2> QED
    BY <1>5, <2>1, <2>2
<1>7. ASSUME NEW x \in places, NEW y \in places, g[x] = g[y]
      PROVE  x = y
  <2> HIDE DEF g
  <2>1. Offset(x[1], size) + x[2] = Offset(y[1], size) + y[2]
    BY <1>6, <1>7
  <2>2. \A p, o \in Nat \ {0}, j, k \in 1 .. size :
          Offset(p, size) + j = Offset(o, size) + k => p = o /\ j = k
    BY PlacesOnPages DEF Offset
  <2>3. ASSUME NEW p, NEW o, NEW j, NEW k, p = x[1], o = y[1], j = x[2], k = y[2]
        PROVE  p = o /\ j = k
    <3>1. p \in Nat \ {0} /\ o \in Nat \ {0} /\ j \in 1 .. size /\ k \in 1 .. size
      BY <1>5, <2>3
    <3>2. Offset(p, size) + j = Offset(o, size) + k
      BY <2>1, <2>3
    <3> QED
      BY <2>2, <3>1, <3>2
  <2> QED
    BY <1>5, <2>3
<1>8. ASSUME NEW v \in S
      PROVE  \E x \in places : g[x] = v
  <2>1. PICK p \in Nat \ {0}, j \in 1 .. size :
          Offset(p, size) < n /\ j \in DOMAIN Page(r, p) /\ Page(r, p)[j] = v
    BY <1>2, <1>3, PlaceOnPage
  <2>2. p \in Pages(r)
    BY <1>2, <1>3, <2>1, PagePlaces
  <2>3. <<p, j>> \in places
    BY <1>0, <1>2, <2>1, <2>2
  <2>4. g[<<p, j>>] = v
    BY <2>1, <2>3
  <2> QED
    BY <2>3, <2>4
<1>9. Cardinality(places) = Cardinality(S)
  <2>1. g \in [places -> S]
    <3>1. DOMAIN g = places /\ g = [x \in places |-> g[x]]
      OBVIOUS
    <3> HIDE DEF g
    <3> QED
      BY <1>6, <3>1
  <2> HIDE DEF g
  <2>2. g \in Injection(places, S)
    BY <1>7, <2>1 DEF Injection, IsInjective
  <2>3. g \in Surjection(places, S)
    BY <1>8, <2>1 DEF Surjection
  <2> QED
    BY <1>1, <2>2, <2>3, FS_Injection
<1>10. shown = S
  <2>1. \A x \in places : Page(r, x[1])[x[2]] = g[x] /\ g[x] \in S
    BY <1>6
  <2> HIDE DEF g
  <2>2. \A v \in S : \E x \in places : Page(r, x[1])[x[2]] = v
    BY <1>8, <2>1
  <2> QED
    BY <1>0, <2>1, <2>2
<1>11. ASSUME NEW p \in Nat \ {0} PROVE Page(r, p) # <<>> <=> p \in Pages(r)
  BY <1>2, <1>3, PagePlaces
<1> QED
  BY <1>9, <1>10, <1>11

LEMMA ListsArePartitioned == ReadInv => PagesPartition
<1> SUFFICES ASSUME ReadInv, NEW c \in Callers, Done(c, "list"), call[c].edits = Edits,
                    NEW r, r = call[c].req, NEW S, S = Selected(rows, hidden, r.query)
             PROVE  /\ Cardinality(Shelf(r)) = Cardinality(S) /\ Cardinality(S) = call[c].total
                    /\ OnShelf(r) = S
                    /\ call[c].items # <<>> <=> r.page \in Pages(r)
  BY DEF PagesPartition, Shelf, OnShelf
<1>1. /\ RowsInv /\ r \in Requests /\ r.kind = "list"
      /\ call[c].total = Cardinality(S) /\ call[c].items = Page(r, r.page)
  BY DEF ReadInv, Reading, Form, Answers, Done, At, Chosen, Page
<1>2. r.page \in Nat \ {0}
  BY <1>1, CatalogueAssumption
<1> QED
  BY <1>1, <1>2, PagesShowAll

\* With no edit since an export was begun, what it has chosen is settled when
\* it is done.
LEMMA ExportsAreFresh == ReadInv => QuietExportIsFresh
<1> SUFFICES ASSUME ReadInv, NEW c \in Callers,
                    Done(c, "nfo job") \/ (Done(c, "nfo request") /\ call[c].req.overwrite),
                    call[c].edits = Edits,
                    NEW v \in Selected(rows, {}, Query(c)) \ (hidden \cup late), HasPath(rows[v])
             PROVE  nfo[v] = rows[v]
  BY DEF QuietExportIsFresh
<1>1. PICK r : r = call[c]
  OBVIOUS
<1>2. Exports(r)
  BY <1>1 DEF ReadInv, Reading
<1>3. r.pc = "done" /\ Refreshes(r.req) /\ r.edits = Edits
  BY <1>1 DEF Done, At, Refreshes
<1>4. v \in Chosen(r)
  BY <1>1 DEF Chosen, Query, Selected
<1>5. Settled(v)
  BY <1>2, <1>3, <1>4 DEF Exports
<1> QED
  BY <1>5 DEF Settled

-----------------------------------------------------------------------------
(* The rest of the types *)

FrameInv ==
  /\ phase \in {"down", "migrating", "up"} /\ pending \subseteq DOMAIN Scripts
  /\ clock <= MaxClock
  /\ \A n \in DOMAIN archive : archive[n].state \in States

\* What a step does to the archives leaves each in one of the states.
LEMMA StatesStay ==
  ASSUME BackupInv, FrameInv, [Next]_vars
  PROVE  \A n \in DOMAIN archive' : archive'[n].state \in States
<1>1. /\ \A n \in DOMAIN archive : archive[n].state \in States /\ "state" \in DOMAIN archive[n]
      /\ \A b \in Backups : Outcomes(b) \subseteq States
  BY DEF BackupInv, BackupTypes, FrameInv, Outcomes, States
<1>2. CASE UNCHANGED archive
  BY <1>1, <1>2
<1>3. ASSUME NEW b \in Backups, OpenZip(b)
      PROVE  \A n \in DOMAIN archive' : archive'[n].state \in States
  <2>1. archive' = [n \in DOMAIN archive \cup {job[b].stamp} |->
          IF n = job[b].stamp THEN [state |-> "open", by |-> b, edits |-> job[b].edits] ELSE archive[n]]
    BY <1>3 DEF OpenZip
  <2>2. "open" \in States
    BY DEF States
  <2> QED
    BY <1>1, <2>1, <2>2
<1>4. ASSUME NEW b \in Backups, CloseZip(b)
      PROVE  \A n \in DOMAIN archive' : archive'[n].state \in States
  <2>1. UNCHANGED archive \/ \E m \in DOMAIN archive, s \in States : archive' = [archive EXCEPT ![m].state = s]
    BY <1>1, <1>4 DEF CloseZip
  <2> QED
    BY <1>1, <2>1
<1>5. ASSUME NEW b \in Backups, BackupFails(b) \/ CleanUp(b)
      PROVE  \A n \in DOMAIN archive' : archive'[n].state \in States
  <2>1. UNCHANGED archive \/ \E S \in SUBSET DOMAIN archive : archive' = [n \in S |-> archive[n]]
    BY <1>5 DEF BackupFails, RemoveFile, Gone, CleanUp, Listed
  <2> QED
    BY <1>1, <2>1
<1>6. ASSUME NEW left \in States, Down(left)
      PROVE  \A n \in DOMAIN archive' : archive'[n].state \in States
  <2>1. archive' = [n \in DOMAIN archive |->
          IF \E b \in Backups : job[b].pc = "zipping" /\ job[b].stamp = n /\ archive[n].by = b
          THEN [archive[n] EXCEPT !.state = left] ELSE archive[n]]
    BY <1>6 DEF Down
  <2> QED
    BY <1>1, <2>1
<1>7. CASE Crash \/ Stop
  <2>1. "open" \in States /\ "short" \in States
    BY DEF States
  <2> QED
    BY <1>6, <1>7, <2>1 DEF Crash, Stop
<1>8. CASE \/ Start \/ Migrate \/ StatementFails \/ Serve \/ UNCHANGED vars
           \/ \E b \in Backups :
                \/ \E keep \in Retentions : SubmitBackup(b, keep)
                \/ StartBackup(b) \/ Snapshot(b) \/ CancelBackup(b)
  <2>1. UNCHANGED archive
    BY <1>8 DEF Start, Migrate, RunStatement, RecordVersion, Up, StatementFails, Serve, SubmitBackup,
         StartBackup, Snapshot, CancelBackup, backups, upVars, vars
  <2> QED
    BY <1>2, <2>1
<1> QED
  BY <1>3, <1>4, <1>5, <1>7, <1>8 DEF Next, BackupStep

\* The clock stops at its bound.
LEMMA ClockInBounds ==
  ASSUME clock \in Nat, clock <= MaxClock, [Next]_vars
  PROVE  clock' <= MaxClock
<1>1. CASE Tick
  BY <1>1, CatalogueAssumption DEF Tick
<1>2. CASE Serve /\ ~Tick
  <2>1. ReadNext
    BY <1>2 DEF Serve
  <2>2. ASSUME NEW c \in Callers, NEW r \in Requests, Begin(c, r) \/ Pick(c, r)
        PROVE  UNCHANGED clock
    BY <2>2, ZenonT(40) DEF Begin, Pick
  <2>3. ASSUME NEW c \in Callers, CallStep(c) \/ CancelJob(c) \/ Return(c)
        PROVE  UNCHANGED clock
    BY <2>3 DEF CallStep, CancelJob, Return, CountRows, FetchRows, Lookup, Compute, JobCount,
                NextPage, RequestRows, ReadVideo, WriteNfo, WriteFails, PageDone, WriteArtists,
                ExportPlaylist, CreateSaved, ReadBack, DeleteSaved, RunTask
  <2>4. ASSUME NEW v \in Videos, Edit(v)
        PROVE  UNCHANGED clock
    BY <2>4 DEF Edit
  <2> QED
    BY <1>2, <2>1, <2>2, <2>3, <2>4 DEF ReadNext
<1>3. CASE Start \/ Migrate \/ StatementFails \/ Crash \/ Stop \/ UNCHANGED vars
  BY <1>3 DEF Start, Migrate, RunStatement, RecordVersion, Up, StatementFails, Crash, Stop, Down,
       vars, readVars
<1>4. ASSUME NEW b \in Backups,
             \/ \E keep \in Retentions : SubmitBackup(b, keep)
             \/ BackupStep(b) \/ BackupFails(b) \/ CancelBackup(b)
      PROVE  clock' <= MaxClock
  BY <1>4 DEF SubmitBackup, BackupStep, StartBackup, Snapshot, OpenZip, CloseZip, CleanUp,
       BackupFails, CancelBackup, readVars
<1> QED
  BY <1>1, <1>2, <1>3, <1>4 DEF Next

LEMMA FrameInvStep == BackupInv /\ FrameInv /\ [Next]_vars => FrameInv'
<1> SUFFICES ASSUME BackupInv, FrameInv, [Next]_vars PROVE FrameInv'
  OBVIOUS
<1>1. phase' \in {"down", "migrating", "up"} /\ pending' \subseteq DOMAIN Scripts
  <2>1. phase \in {"down", "migrating", "up"} /\ pending \subseteq DOMAIN Scripts
    BY DEF FrameInv
  <2>2. CASE Start \/ Migrate \/ StatementFails \/ Crash \/ Stop \/ Serve \/ UNCHANGED vars
    BY <2>1, <2>2 DEF Start, Pending, Migrate, RunStatement, RecordVersion, Up, StatementFails, Crash,
         Stop, Down, Abandon, Serve, vars, upVars, migration
  <2>3. ASSUME NEW b \in Backups,
               \/ \E keep \in Retentions : SubmitBackup(b, keep)
               \/ BackupStep(b) \/ BackupFails(b) \/ CancelBackup(b)
        PROVE  UNCHANGED <<phase, pending>>
    BY <2>3 DEF SubmitBackup, BackupStep, StartBackup, Snapshot, OpenZip, CloseZip, CleanUp,
         BackupFails, CancelBackup, migration
  <2> QED
    BY <2>1, <2>2, <2>3 DEF Next
<1>2. clock' <= MaxClock
  BY ClockInBounds DEF FrameInv, BackupInv, BackupTypes
<1>3. \A n \in DOMAIN archive' : archive'[n].state \in States
  BY StatesStay
<1> QED
  BY <1>1, <1>2, <1>3 DEF FrameInv

LEMMA FrameInvInit == Init => FrameInv
BY CatalogueAssumption DEF Init, ReadInit, FrameInv

\* The invariants give every variable its type.
LEMMA TypesHold ==
  ASSUME SchemaInv, PickInv, BackupInv, CacheInv, ReadInv, FrameInv
  PROVE  TypeOK
<1>1. applied \subseteq Statements /\ recorded \subseteq DOMAIN Scripts
  BY DEF SchemaInv, MigrationOrder
<1>2. phase \in {"down", "migrating", "up"} /\ pending \subseteq DOMAIN Scripts
  BY DEF FrameInv
<1>3. DOMAIN archive \subseteq 0..MaxClock /\ shared \subseteq 0..MaxClock
  <2>1. 0 .. clock \subseteq 0 .. MaxClock
    BY CatalogueAssumption DEF FrameInv, BackupInv, BackupTypes
  <2> QED
    BY <2>1 DEF BackupInv, BackupTypes
<1>4. \A n \in DOMAIN archive : archive[n].state \in States
  BY DEF FrameInv
<1>5. /\ DOMAIN rows \subseteq Videos /\ hidden \subseteq DOMAIN rows
      /\ \A v \in Videos : nfo[v] # NULL => DOMAIN nfo[v] = Columns
  BY DEF ReadInv, RowsInv
<1>6. \A c \in Caches : \A k, l \in DOMAIN cache[c] : cache[c][k].place = cache[c][l].place => k = l
  BY DEF CacheInv
<1>7. \A t \in Tables : \A i \in DOMAIN saved[t] : i <= lastId[t]
  BY DEF PickInv, IdsGiven
<1> QED
  BY <1>1, <1>2, <1>3, <1>4, <1>5, <1>6, <1>7 DEF TypeOK

\* Types, the size of the method cache, the pages of every list that is done
\* and the reach of its facets (core/db/query.py, execute and count;
\* services/base.py, cached_async; core/db/repository.py, get_facets;
\* web/routes/videos.py, list_videos).
THEOREM InvCorrect == Spec => []Inv
<1>1. ASSUME SchemaInv, PickInv, BackupInv, CacheInv, ReadInv, FrameInv
      PROVE  Inv
  <2>1. TypeOK
    BY <1>1, TypesHold
  <2>2. CacheBounded
    BY <1>1 DEF CacheInv
  <2>3. PagesPartition
    BY <1>1, ListsArePartitioned
  <2>4. FacetIsReachable
    <3>1. RowsInv
      BY <1>1 DEF ReadInv
    <3>2. \A k \in Callers : Done(k, "list") => call[k].req \in Requests
      BY <1>1 DEF ReadInv, Reading, Form, Done, At
    <3> QED
      BY <3>1, <3>2, FacetsAreReachable
  <2> QED
    BY <2>1, <2>2, <2>3, <2>4 DEF Inv
<1> QED
  BY <1>1, SchemaInvInit, SchemaInvStep, PickInvInit, PickInvStep, BackupInvInit, BackupInvStep,
     CountsInvInit, CountsInvStep, CacheInvInit, CacheInvStep, ReadInvInit, ReadInvStep,
     FrameInvInit, FrameInvStep, PTL DEF Spec

\* After an export with no edit meanwhile every video it selects that has a
\* file has the .nfo its row asks for (core/db/exporter.py,
\* export_video_to_nfo; tasks/handlers.py, handle_export_nfo;
\* web/routes/exports.py, export_nfo_files).
THEOREM QuietExportIsFreshCorrect == Spec => []QuietExportIsFresh
BY ExportsAreFresh, CountsInvInit, CountsInvStep, ReadInvInit, ReadInvStep, PTL DEF Spec

=============================================================================
