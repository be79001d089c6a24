------------------------------ MODULE Migration ------------------------------
(***************************************************************************)
(* dbutils/migration.go: runs of LoadAndExecuteMigrations against one      *)
(* database, each by a process of its own that may crash anywhere.  The    *)
(* caller passes a transaction, which it commits if the call succeeds, or  *)
(* a plain connection, where every statement commits by itself.            *)
(***************************************************************************)
EXTENDS Naturals, Sequences

SE == INSTANCE SequencesExt

CONSTANTS
  Runs,          \* calls of LoadAndExecuteMigrations
  LastVersion,   \* the versions are 1 .. LastVersion
  LastText       \* a script is edited until its text is LastText

VARIABLES
  inTx,         \* the calls are given transactions
  files,        \* version -> the text of its script, or Nil
  record,       \* the table of migrations: version -> the text hashed, or Nil
  applied,      \* history: the scripts executed for good, as <<version, text>>
  pc, scripts, migrations,  \* per call: its section, scripts left, migrations read
  executed, inserted,       \* per transaction: what it has executed and recorded
  loose,        \* history: versions executed by a call that ended before the record
  overlap       \* history: a call has begun while another one was unfinished

vars == <<inTx, files, record, applied, pc, scripts, migrations, executed, inserted,
          loose, overlap>>
database == <<record, applied, loose>>

Nil == 0
Versions == 1 .. LastVersion
Texts    == 1 .. LastText
Ended(r) == pc[r] \in {"idle", "done"}

\* The script whose turn it is: they are executed in ascending order of the versions.
This(r) == CHOOSE s \in scripts[r] : \A t \in scripts[r] : s[1] <= t[1]

Init ==
  /\ inTx \in BOOLEAN
  /\ files \in [Versions -> {Nil, 1}]
  /\ record = [v \in Versions |-> Nil] /\ applied = << >>
  /\ pc = [r \in Runs |-> "idle"]
  /\ scripts = [r \in Runs |-> {}] /\ migrations = [r \in Runs |-> record]
  /\ executed = [r \in Runs |-> << >>] /\ inserted = [r \in Runs |-> {}]
  /\ loose = {} /\ overlap = FALSE

\* A developer adds a script or edits one.
EditFile(v) ==
  /\ files[v] < LastText
  /\ files' = [files EXCEPT ![v] = @ + 1]
  /\ UNCHANGED <<inTx, database, pc, scripts, migrations, executed, inserted, overlap>>

\* loadMigrationScripts
Load(r) ==
  /\ pc[r] = "idle"
  /\ scripts' = [scripts EXCEPT ![r] = {<<v, files[v]>> : v \in {u \in Versions : files[u] # Nil}}]
  /\ pc' = [pc EXCEPT ![r] = "select"]
  /\ overlap' = (overlap \/ \E q \in Runs : ~Ended(q))
  /\ UNCHANGED <<inTx, files, database, migrations, executed, inserted>>

GetMigrations(r) ==
  /\ pc[r] = "select"
  /\ migrations' = [migrations EXCEPT ![r] = record]
  /\ pc' = [pc EXCEPT ![r] = "next"]
  /\ UNCHANGED <<inTx, files, database, scripts, executed, inserted, overlap>>

\* A call that fails or crashes: its transaction is rolled back.
End(r) ==
  /\ pc' = [pc EXCEPT ![r] = "done"]
  /\ executed' = [executed EXCEPT ![r] = << >>]
  /\ inserted' = [inserted EXCEPT ![r] = {}]
  /\ loose' = IF ~inTx /\ pc[r] = "insert" THEN loose \cup {This(r)[1]} ELSE loose
  /\ UNCHANGED <<inTx, files, record, applied, scripts, migrations, overlap>>

Skip(r) ==
  /\ pc[r] = "next" /\ scripts[r] # {} /\ migrations[r][This(r)[1]] = This(r)[2]
  /\ scripts' = [scripts EXCEPT ![r] = @ \ {This(r)}]
  /\ UNCHANGED <<inTx, files, database, pc, migrations, executed, inserted, overlap>>

HashMismatch(r) ==
  /\ pc[r] = "next" /\ scripts[r] # {}
  /\ migrations[r][This(r)[1]] \notin {Nil, This(r)[2]}
  /\ End(r)

\* Mutant: the next script is recorded although it has failed.
ExecFails(r) ==
  /\ pc[r] = "next" /\ scripts[r] # {} /\ migrations[r][This(r)[1]] = Nil
  /\ pc' = [pc EXCEPT ![r] = "insert"]
  /\ UNCHANGED <<inTx, files, database, scripts, migrations, executed, inserted, overlap>>

ExecScript(r) ==
  /\ pc[r] = "next" /\ scripts[r] # {} /\ migrations[r][This(r)[1]] = Nil
  /\ pc' = [pc EXCEPT ![r] = "insert"]
  /\ IF inTx THEN executed' = [executed EXCEPT ![r] = Append(@, This(r))] /\ UNCHANGED applied
             ELSE applied' = Append(applied, This(r)) /\ UNCHANGED executed
  /\ UNCHANGED <<inTx, files, record, scripts, migrations, inserted, loose, overlap>>

\* The version is the primary key: an insert waits for a transaction that has inserted
\* the same version, and fails if it is there.
CanInsert(r) == \A q \in Runs \ {r} : This(r)[1] \notin inserted[q]

InsertRecord(r) ==
  /\ pc[r] = "insert" /\ CanInsert(r) /\ record[This(r)[1]] = Nil
  /\ IF inTx THEN inserted' = [inserted EXCEPT ![r] = @ \cup {This(r)[1]}] /\ UNCHANGED record
             ELSE record' = [record EXCEPT ![This(r)[1]] = This(r)[2]] /\ UNCHANGED inserted
  /\ scripts' = [scripts EXCEPT ![r] = @ \ {This(r)}]
  /\ pc' = [pc EXCEPT ![r] = "next"]
  /\ UNCHANGED <<inTx, files, applied, migrations, executed, loose, overlap>>

InsertFails(r) == pc[r] = "insert" /\ CanInsert(r) /\ record[This(r)[1]] # Nil /\ End(r)

\* The call returns nil, and the caller commits.
Commit(r) ==
  /\ pc[r] = "next" /\ scripts[r] = {}
  /\ applied' = applied \o executed[r]
  /\ record' = [v \in Versions |->
       IF v \in inserted[r] THEN (CHOOSE s \in SE!ToSet(executed[r]) : s[1] = v)[2] ELSE record[v]]
  /\ pc' = [pc EXCEPT ![r] = "done"]
  /\ executed' = [executed EXCEPT ![r] = << >>]
  /\ inserted' = [inserted EXCEPT ![r] = {}]
  /\ UNCHANGED <<inTx, files, scripts, migrations, loose, overlap>>

\* Also a statement or the reading of a file that fails, and a failed commit.
Crash(r) == ~Ended(r) /\ End(r)

Next ==
  \/ \E v \in Versions : EditFile(v)
  \/ \E r \in Runs : \/ Load(r) \/ GetMigrations(r) \/ Skip(r) \/ HashMismatch(r)
                     \/ ExecScript(r) \/ InsertRecord(r) \/ InsertFails(r) \/ Commit(r)
                     \/ Crash(r)

Spec == Init /\ [][Next]_vars

-----------------------------------------------------------------------------
\* Types.
TypeOK ==
  /\ files \in [Versions -> Texts \cup {Nil}] /\ record \in [Versions -> Texts \cup {Nil}]
  /\ pc \in [Runs -> {"idle", "select", "next", "insert", "done"}]
  /\ \A r \in Runs : /\ scripts[r] \cup SE!ToSet(executed[r]) \subseteq Versions \X Texts
                     /\ inserted[r] \subseteq Versions
                     /\ migrations[r] \in [Versions -> Texts \cup {Nil}]
  /\ SE!ToSet(applied) \subseteq Versions \X Texts /\ loose \subseteq Versions

\* A recorded version was executed with the recorded text.  In transactions each version
\* is executed for good at most once and exactly when it is recorded, whatever crashes,
\* fails or overlaps; on a connection that holds for the versions of which
\* no call ended between script and record, if no calls overlapped.
ScriptsOnce ==
  /\ \A v \in Versions : record[v] # Nil => <<v, record[v]>> \in SE!ToSet(applied)
  /\ \A i, j \in DOMAIN applied :
       i # j /\ applied[i][1] = applied[j][1] => ~inTx /\ (overlap \/ applied[i][1] \in loose)
  /\ \A i \in DOMAIN applied :
       LET v == applied[i][1] IN
       \/ record[v] # Nil
       \/ ~inTx /\ (v \in loose \/ \E r \in Runs : pc[r] = "insert" /\ This(r)[1] = v)
===============================================================================
