---------------------------- MODULE StructuresProofs ----------------------------
(***************************************************************************)
(* Theorems about the migrations, the IoC container, the safe queue and    *)
(* the URI trie that StructuresMC puts beside each other.                  *)
(***************************************************************************)
EXTENDS CachesProofs

LEMMA Appended ==
  ASSUME NEW S, NEW s \in Seq(S), NEW x \in S
  PROVE  /\ Append(s, x) \in Seq(S) /\ Len(s) \in Nat /\ DOMAIN s = 1 .. Len(s)
         /\ DOMAIN Append(s, x) = 1 .. Len(s) + 1
         /\ \A i \in DOMAIN s : Append(s, x)[i] = s[i]
         /\ Append(s, x)[Len(s) + 1] = x
OBVIOUS

-----------------------------------------------------------------------------
(* Migration *)

Scripts     == Migrate!Versions \X Migrate!Texts
ScriptTexts == [Migrate!Versions -> Migrate!Texts \cup {0}]

MigrationTypes ==
  /\ inTx \in BOOLEAN /\ files \in ScriptTexts /\ record \in ScriptTexts
  /\ applied \in Seq(Scripts)
  /\ pc \in [Runs -> {"idle", "select", "next", "insert", "done"}]
  /\ scripts \in [Runs -> SUBSET Scripts] /\ migrations \in [Runs -> ScriptTexts]
  /\ executed \in [Runs -> Seq(Scripts)] /\ inserted \in [Runs -> SUBSET Migrate!Versions]
  /\ loose \in SUBSET Migrate!Versions /\ overlap \in BOOLEAN

\* Version v is one of the scripts of the sequence s, or of the set.
Among(v, s) == \E i \in DOMAIN s : s[i][1] = v
Left(v, S)  == \E x \in S : x[1] = v

\* Each version once.
EachOnce(s) == \A i, j \in DOMAIN s : s[i][1] = s[j][1] => i = j
OnePer(S)   == \A x, y \in S : x[1] = y[1] => x = y

\* The version whose script is executed and not yet recorded.
At(r, v) == pc[r] = "insert" /\ Migrate!This(r)[1] = v

Loading ==
  /\ \A r \in Runs : OnePer(scripts[r])
  /\ \A r \in Runs : pc[r] = "insert" => scripts[r] # {}
  /\ \A v \in Migrate!Versions :
       record[v] # 0 => \E i \in DOMAIN applied : applied[i] = <<v, record[v]>>

\* In transactions what a call has executed it has recorded, but for the script it is at;
\* two calls record different versions, none of them recorded for good.
Transaction(r) ==
  /\ EachOnce(executed[r])
  /\ pc[r] \in {"idle", "select"} => executed[r] = << >>
  /\ \A v \in Migrate!Versions :
       /\ Among(v, executed[r]) <=> v \in inserted[r] \/ At(r, v)
       /\ Among(v, executed[r]) /\ Left(v, scripts[r]) => At(r, v)
       /\ v \in inserted[r] => record[v] = 0 /\ ~At(r, v)

InTransactions ==
  /\ EachOnce(applied)
  /\ \A v \in Migrate!Versions : Among(v, applied) => record[v] # 0
  /\ \A r \in Runs : Transaction(r)
  /\ \A r, q \in Runs : r # q => inserted[r] \cap inserted[q] = {}

\* On plain connections what was executed is recorded, left over by a call that ended, or
\* of a call that is at it.
OnConnections ==
  /\ \A r \in Runs : executed[r] = << >> /\ inserted[r] = {}
  /\ \A v \in Migrate!Versions :
       Among(v, applied) => record[v] # 0 \/ v \in loose \/ \E r \in Runs : At(r, v)
  /\ \A r \in Runs : pc[r] = "insert" => \E i \in DOMAIN applied : applied[i] = Migrate!This(r)
  /\ \A i, j \in DOMAIN applied :
       i # j /\ applied[i][1] = applied[j][1] => overlap \/ applied[i][1] \in loose

\* Unless calls have overlapped, one call is unfinished and nobody changes what it has read.
Alone ==
  ~overlap =>
       /\ \A r, q \in Runs : ~Migrate!Ended(r) /\ ~Migrate!Ended(q) => r = q
       /\ \A r \in Runs : pc[r] \in {"next", "insert"} =>
            \A v \in Migrate!Versions : Left(v, scripts[r]) => migrations[r][v] = record[v]
       /\ \A r \in Runs, v \in Migrate!Versions : At(r, v) => record[v] = 0

MigrationInv ==
  /\ MigrationTypes /\ Loading
  /\ inTx => InTransactions
  /\ ~inTx => OnConnections /\ Alone

\* The script whose turn it is.
LEMMA ThisIsLeft ==
  ASSUME MigrationTypes, NEW r \in Runs, scripts[r] # {}
  PROVE  Migrate!This(r) \in scripts[r]
<1> DEFINE T == {s[1] : s \in scripts[r]}
<1>1. scripts[r] \subseteq Scripts /\ Migrate!Versions \subseteq Nat
  BY StructuresAssumption DEF StructuresAssumption, MigrationTypes, Migrate!Versions
<1>2. T \in SUBSET Nat /\ T # {}
  BY <1>1 DEF Scripts
<1>3. PICK v \in T : \A u \in T : v <= u
  BY <1>2, LeastNumber
<1>4. \E s \in scripts[r] : \A t \in scripts[r] : s[1] <= t[1]
  BY <1>3
<1> QED
  BY <1>4 DEF Migrate!This

\* A call that keeps its section and its scripts is where it was.
LEMMA Stays ==
  ASSUME NEW r, scripts'[r] = scripts[r], pc'[r] = pc[r]
  PROVE  Migrate!This(r)' = Migrate!This(r) /\ \A v : At(r, v)' <=> At(r, v)
BY DEF At, Migrate!This

LEMMA MigrationInit == Migrate!Init => MigrationInv
<1> SUFFICES ASSUME Migrate!Init PROVE MigrationInv
  OBVIOUS
<1>1. MigrationTypes
  <2>1. {0, 1} \subseteq Migrate!Texts \cup {0}
    BY StructuresAssumption DEF StructuresAssumption, Migrate!Texts
  <2>2. files \in ScriptTexts /\ record \in ScriptTexts
    BY <2>1 DEF Migrate!Init, ScriptTexts, Migrate!Nil
  <2>3. inTx \in BOOLEAN /\ overlap \in BOOLEAN /\ loose = {}
    BY DEF Migrate!Init
  <2>4. /\ applied \in Seq(Scripts) /\ scripts \in [Runs -> SUBSET Scripts]
        /\ executed \in [Runs -> Seq(Scripts)] /\ inserted \in [Runs -> SUBSET Migrate!Versions]
    BY DEF Migrate!Init
  <2>5. /\ pc \in [Runs -> {"idle", "select", "next", "insert", "done"}]
        /\ migrations \in [Runs -> ScriptTexts]
    BY <2>2 DEF Migrate!Init
  <2> QED
    BY <2>2, <2>3, <2>4, <2>5 DEF MigrationTypes
<1>2. Loading /\ InTransactions /\ OnConnections /\ Alone
  BY DEF Migrate!Init, Loading, InTransactions, Transaction, OnConnections, Alone, EachOnce, OnePer, Among, Left, At,
         Migrate!Nil, Migrate!Ended
<1> QED
  BY <1>1, <1>2 DEF MigrationInv

\* Nothing moves but the scripts in the directory.
LEMMA EditFileStep ==
  ASSUME MigrationInv, NEW v \in Migrate!Versions, Migrate!EditFile(v)
  PROVE  MigrationInv'
<1>1. files' \in ScriptTexts
  <2>1. files \in ScriptTexts /\ files[v] < LastText /\ files' = [files EXCEPT ![v] = files[v] + 1]
    BY DEF MigrationInv, MigrationTypes, Migrate!EditFile
  <2>2. files[v] \in Migrate!Texts \cup {0}
    BY <2>1 DEF ScriptTexts
  <2>3. files[v] + 1 \in Migrate!Texts \cup {0}
    BY <2>1, <2>2, StructuresAssumption DEF StructuresAssumption, Migrate!Texts
  <2> QED
    BY <2>1, <2>3 DEF ScriptTexts
<1>2. UNCHANGED <<inTx, record, applied, pc, scripts, migrations, executed, inserted, loose, overlap>>
  BY DEF Migrate!EditFile, Migrate!database
<1>3. \A r : Migrate!This(r)' = Migrate!This(r) /\ (Migrate!Ended(r)' <=> Migrate!Ended(r))
  BY <1>2 DEF Migrate!This, Migrate!Ended
<1>4. \A r, v1 : At(r, v1)' <=> At(r, v1)
  BY <1>2, <1>3 DEF At
<1>5. MigrationTypes' /\ Loading'
  BY <1>1, <1>2 DEF MigrationInv, MigrationTypes, Loading
<1>6. inTx => InTransactions'
  BY <1>2, <1>4 DEF MigrationInv, InTransactions, Transaction
<1>7. ~inTx => OnConnections'
  BY <1>2, <1>3, <1>4 DEF MigrationInv, OnConnections
<1>8. ~inTx => Alone'
  BY <1>2, <1>3, <1>4 DEF MigrationInv, Alone
<1> QED
  BY <1>2, <1>5, <1>6, <1>7, <1>8 DEF MigrationInv

\* The calls that do not move.
OthersKept(r) ==
  \A q \in Runs \ {r} :
    /\ pc'[q] = pc[q] /\ scripts'[q] = scripts[q] /\ migrations'[q] = migrations[q]
    /\ executed'[q] = executed[q] /\ inserted'[q] = inserted[q]
    /\ \A v : At(q, v)' <=> At(q, v)
    /\ Migrate!This(q)' = Migrate!This(q) /\ (Migrate!Ended(q)' <=> Migrate!Ended(q))

LEMMA OthersStay ==
  ASSUME NEW r \in Runs,
         \A q \in Runs \ {r} : /\ pc'[q] = pc[q] /\ scripts'[q] = scripts[q]
                               /\ migrations'[q] = migrations[q]
                               /\ executed'[q] = executed[q] /\ inserted'[q] = inserted[q]
  PROVE  OthersKept(r)
BY Stays DEF OthersKept, Migrate!Ended

\* The call reads the scripts in the directory.
LEMMA LoadStep ==
  ASSUME MigrationInv, NEW r \in Runs, Migrate!Load(r)
  PROVE  MigrationInv'
<1> PICK S : S = {<<v, files[v]>> : v \in {u \in Migrate!Versions : files[u] # Migrate!Nil}}
  OBVIOUS
<1>1. MigrationTypes /\ Loading
  BY DEF MigrationInv
<1>2. /\ pc[r] = "idle" /\ pc' = [pc EXCEPT ![r] = "select"]
      /\ scripts' = [scripts EXCEPT ![r] = S]
      /\ overlap' = (overlap \/ \E q \in Runs : ~Migrate!Ended(q))
      /\ UNCHANGED <<inTx, files, record, applied, loose, migrations, executed, inserted>>
  BY DEF Migrate!Load, Migrate!database
<1>3. S \subseteq Scripts /\ OnePer(S)
  <2>1. ASSUME NEW s \in S PROVE s[2] = files[s[1]] /\ s \in Scripts /\ s = <<s[1], s[2]>>
    BY <1>1 DEF MigrationTypes, ScriptTexts, Scripts, Migrate!Nil
  <2> QED
    BY <2>1 DEF OnePer
<1>4. /\ OthersKept(r) /\ scripts'[r] = S /\ pc'[r] = "select" /\ executed'[r] = executed[r]
      /\ inserted'[r] = inserted[r]
  BY <1>1, <1>2, OthersStay DEF MigrationTypes
<1>5. \A v : ~At(r, v) /\ ~At(r, v)'
  BY <1>2, <1>4 DEF At
<1>6. MigrationTypes'
  <2>1. overlap' \in BOOLEAN
    BY <1>1, <1>2 DEF MigrationTypes
  <2>2. scripts' \in [Runs -> SUBSET Scripts]
        /\ pc' \in [Runs -> {"idle", "select", "next", "insert", "done"}]
    BY <1>1, <1>2, <1>3 DEF MigrationTypes
  <2> QED
    BY <1>1, <1>2, <2>1, <2>2 DEF MigrationTypes, ScriptTexts, Scripts, Migrate!Versions, Migrate!Texts
<1>7. Loading'
  BY <1>1, <1>2, <1>3, <1>4 DEF Loading, OthersKept
<1>8. ASSUME inTx PROVE InTransactions'
  <2>1. InTransactions /\ executed'[r] = << >>
    BY <1>2, <1>4, <1>8 DEF MigrationInv, InTransactions, Transaction
  <2> QED
    BY <1>2, <1>4, <1>5, <2>1 DEF InTransactions, Transaction, OthersKept, Among
<1>9. ASSUME ~inTx PROVE OnConnections' /\ Alone'
  <2>1. OnConnections /\ Alone
    BY <1>9 DEF MigrationInv
  <2>2. OnConnections'
    <3>1. overlap => overlap'
      BY <1>2
    <3>2. /\ UNCHANGED <<applied, record, loose>>
          /\ \A q \in Runs : \A v : At(q, v)' <=> At(q, v)
      BY <1>2, <1>4, <1>5 DEF OthersKept
    <3>3. \A q \in Runs : executed'[q] = << >> /\ inserted'[q] = {}
      BY <1>2, <2>1 DEF OnConnections
    <3>4. \A q \in Runs : pc'[q] = "insert" =>
            pc[q] = "insert" /\ Migrate!This(q)' = Migrate!This(q)
      BY <1>4 DEF OthersKept
    <3> QED
      BY <2>1, <3>1, <3>2, <3>3, <3>4 DEF OnConnections
  <2>3. ASSUME ~overlap' PROVE \A q \in Runs \ {r} : Migrate!Ended(q)'
    BY <1>2, <1>4, <2>3 DEF OthersKept
  <2>4. ASSUME ~overlap', NEW q \in Runs, pc'[q] \in {"next", "insert"} PROVE FALSE
    BY <1>4, <2>3, <2>4 DEF Migrate!Ended
  <2>5. Alone'
    BY <1>5, <2>3, <2>4 DEF Alone, At
  <2> QED
    BY <2>2, <2>5
<1> QED
  BY <1>2, <1>6, <1>7, <1>8, <1>9 DEF MigrationInv

\* The call reads the table.
LEMMA GetMigrationsStep ==
  ASSUME MigrationInv, NEW r \in Runs, Migrate!GetMigrations(r)
  PROVE  MigrationInv'
<1>1. MigrationTypes /\ Loading
  BY DEF MigrationInv
<1>2. /\ pc[r] = "select" /\ pc' = [pc EXCEPT ![r] = "next"]
      /\ migrations' = [migrations EXCEPT ![r] = record]
      /\ UNCHANGED <<inTx, files, record, applied, loose, scripts, executed, inserted, overlap>>
  BY DEF Migrate!GetMigrations, Migrate!database
<1>4. /\ OthersKept(r) /\ scripts'[r] = scripts[r] /\ pc'[r] = "next" /\ migrations'[r] = record
      /\ executed'[r] = executed[r] /\ inserted'[r] = inserted[r]
  BY <1>1, <1>2, OthersStay DEF MigrationTypes
<1>5. \A v : ~At(r, v) /\ ~At(r, v)'
  BY <1>2, <1>4 DEF At
<1>6. MigrationTypes'
  <2>1. migrations' \in [Runs -> ScriptTexts]
        /\ pc' \in [Runs -> {"idle", "select", "next", "insert", "done"}]
    BY <1>1, <1>2 DEF MigrationTypes
  <2> QED
    BY <1>1, <1>2, <2>1 DEF MigrationTypes, ScriptTexts, Scripts, Migrate!Versions, Migrate!Texts
<1>7. Loading'
  BY <1>1, <1>2, <1>4 DEF Loading, OthersKept
<1>8. ASSUME inTx PROVE InTransactions'
  <2>1. InTransactions /\ executed'[r] = << >>
    BY <1>2, <1>4, <1>8 DEF MigrationInv, InTransactions, Transaction
  <2> QED
    BY <1>2, <1>4, <1>5, <2>1 DEF InTransactions, Transaction, OthersKept, Among
<1>9. ASSUME ~inTx PROVE OnConnections' /\ Alone'
  <2>1. OnConnections /\ Alone
    BY <1>9 DEF MigrationInv
  <2>2. OnConnections'
    <3>1. /\ UNCHANGED <<applied, record, loose, overlap>>
          /\ \A q \in Runs : \A v : At(q, v)' <=> At(q, v)
      BY <1>2, <1>4, <1>5 DEF OthersKept
    <3>2. \A q \in Runs : executed'[q] = << >> /\ inserted'[q] = {}
      BY <1>2, <2>1 DEF OnConnections
    <3>3. \A q \in Runs : pc'[q] = "insert" =>
            pc[q] = "insert" /\ Migrate!This(q)' = Migrate!This(q)
      BY <1>4 DEF OthersKept
    <3> QED
      BY <2>1, <3>1, <3>2, <3>3 DEF OnConnections
  <2>3. \A q \in Runs : Migrate!Ended(q)' <=> Migrate!Ended(q)
    BY <1>2, <1>4 DEF OthersKept, Migrate!Ended
  <2>4. Alone'
    BY <1>2, <1>4, <1>5, <2>1, <2>3 DEF Alone, OthersKept
  <2> QED
    BY <2>2, <2>4
<1> QED
  BY <1>2, <1>6, <1>7, <1>8, <1>9 DEF MigrationInv

\* A script that is recorded is passed over.
LEMMA SkipStep ==
  ASSUME MigrationInv, NEW r \in Runs, Migrate!Skip(r)
  PROVE  MigrationInv'
<1> PICK S : S = scripts[r] \ {Migrate!This(r)}
  OBVIOUS
<1>1. MigrationTypes /\ Loading
  BY DEF MigrationInv
<1>2. /\ pc[r] = "next" /\ scripts' = [scripts EXCEPT ![r] = S]
      /\ UNCHANGED <<inTx, files, record, applied, loose, pc, migrations, executed, inserted, overlap>>
  BY DEF Migrate!Skip, Migrate!database
<1>4. /\ OthersKept(r) /\ scripts'[r] = S /\ pc'[r] = "next" /\ migrations'[r] = migrations[r]
      /\ executed'[r] = executed[r] /\ inserted'[r] = inserted[r]
  BY <1>1, <1>2, OthersStay DEF MigrationTypes
<1>5. /\ \A v : ~At(r, v) /\ ~At(r, v)'
      /\ \A v : Left(v, S) => Left(v, scripts[r])
  BY <1>2, <1>4 DEF At, Left
<1>6. MigrationTypes'
  <2>1. scripts' \in [Runs -> SUBSET Scripts]
    BY <1>1, <1>2 DEF MigrationTypes
  <2> QED
    BY <1>1, <1>2, <2>1 DEF MigrationTypes, ScriptTexts, Scripts, Migrate!Versions, Migrate!Texts
<1>7. Loading'
  <2>1. OnePer(S)
    BY <1>1 DEF Loading, OnePer
  <2> QED
    BY <1>1, <1>2, <1>4, <2>1 DEF Loading, OthersKept
<1>8. ASSUME inTx PROVE InTransactions'
  <2>1. InTransactions
    BY <1>8 DEF MigrationInv
  <2>2. \A q \in Runs : \A v : (At(q, v)' <=> At(q, v)) /\ (Left(v, scripts[q])' => Left(v, scripts[q]))
    BY <1>4, <1>5 DEF OthersKept
  <2> QED
    BY <1>2, <2>1, <2>2 DEF InTransactions, Transaction
<1>9. ASSUME ~inTx PROVE OnConnections' /\ Alone'
  <2>1. OnConnections /\ Alone
    BY <1>9 DEF MigrationInv
  <2>2. OnConnections'
    <3>1. /\ UNCHANGED <<applied, record, loose, overlap>>
          /\ \A q \in Runs : \A v : At(q, v)' <=> At(q, v)
      BY <1>2, <1>4, <1>5 DEF OthersKept
    <3>2. \A q \in Runs : executed'[q] = << >> /\ inserted'[q] = {}
      BY <1>2, <2>1 DEF OnConnections
    <3>3. \A q \in Runs : pc'[q] = "insert" =>
            pc[q] = "insert" /\ Migrate!This(q)' = Migrate!This(q)
      BY <1>4 DEF OthersKept
    <3> QED
      BY <2>1, <3>1, <3>2, <3>3 DEF OnConnections
  <2>3. \A q \in Runs : Migrate!Ended(q)' <=> Migrate!Ended(q)
    BY <1>2, <1>4 DEF OthersKept, Migrate!Ended
  <2>4. \A q \in Runs : \A v : (At(q, v)' <=> At(q, v)) /\ (Left(v, scripts[q])' => Left(v, scripts[q]))
    BY <1>4, <1>5 DEF OthersKept
  <2>5. Alone'
    BY <1>2, <2>1, <2>3, <2>4 DEF Alone
  <2> QED
    BY <2>2, <2>5
<1> QED
  BY <1>2, <1>6, <1>7, <1>8, <1>9 DEF MigrationInv

\* A call that fails or crashes leaves over, on a connection, the script it was at.
LEMMA EndStep ==
  ASSUME MigrationInv, NEW r \in Runs, Migrate!End(r)
  PROVE  MigrationInv'
<1>1. MigrationTypes /\ Loading
  BY DEF MigrationInv
<1>2. /\ pc' = [pc EXCEPT ![r] = "done"]
      /\ executed' = [executed EXCEPT ![r] = << >>] /\ inserted' = [inserted EXCEPT ![r] = {}]
      /\ loose' = IF ~inTx /\ pc[r] = "insert" THEN loose \cup {Migrate!This(r)[1]} ELSE loose
      /\ UNCHANGED <<inTx, files, record, applied, scripts, migrations, overlap>>
  BY DEF Migrate!End
<1>3. /\ loose' \in SUBSET Migrate!Versions /\ loose \subseteq loose'
      /\ ~inTx => \A v : At(r, v) => v \in loose'
  <2>1. CASE ~inTx /\ pc[r] = "insert"
    <3>1. Migrate!This(r) \in Scripts
      BY <1>1, <2>1, ThisIsLeft DEF Loading, MigrationTypes
    <3> QED
      BY <1>1, <1>2, <2>1, <3>1 DEF At, Scripts, MigrationTypes
  <2>2. CASE ~(~inTx /\ pc[r] = "insert")
    BY <1>1, <1>2, <2>2 DEF At, MigrationTypes
  <2> QED
    BY <2>1, <2>2
<1>4. /\ OthersKept(r) /\ scripts'[r] = scripts[r] /\ pc'[r] = "done" /\ migrations'[r] = migrations[r]
      /\ executed'[r] = << >> /\ inserted'[r] = {}
  BY <1>1, <1>2, OthersStay DEF MigrationTypes
<1>5. \A v : ~At(r, v)'
  BY <1>4 DEF At
<1>6. MigrationTypes'
  <2>1. /\ pc' \in [Runs -> {"idle", "select", "next", "insert", "done"}]
        /\ executed' \in [Runs -> Seq(Scripts)] /\ inserted' \in [Runs -> SUBSET Migrate!Versions]
    BY <1>1, <1>2 DEF MigrationTypes
  <2> QED
    BY <1>1, <1>2, <1>3, <2>1 DEF MigrationTypes, ScriptTexts, Scripts, Migrate!Versions, Migrate!Texts
<1>7. Loading'
  BY <1>1, <1>2, <1>4 DEF Loading, OthersKept
<1>8. ASSUME inTx PROVE InTransactions'
  <2>1. InTransactions
    BY <1>8 DEF MigrationInv
  <2> QED
    BY <1>2, <1>4, <1>5, <2>1 DEF InTransactions, Transaction, OthersKept, Among, EachOnce
<1>9. ASSUME ~inTx PROVE OnConnections' /\ Alone'
  <2>1. OnConnections /\ Alone
    BY <1>9 DEF MigrationInv
  <2>2. OnConnections'
    <3>1. /\ UNCHANGED <<applied, record, overlap>>
          /\ \A q \in Runs : \A v : At(q, v) => At(q, v)' \/ v \in loose'
      BY <1>2, <1>3, <1>4, <1>9 DEF OthersKept
    <3>2. \A q \in Runs : executed'[q] = << >> /\ inserted'[q] = {}
      BY <1>4, <2>1 DEF OnConnections, OthersKept
    <3>3. \A q \in Runs : pc'[q] = "insert" =>
            pc[q] = "insert" /\ Migrate!This(q)' = Migrate!This(q)
      BY <1>4 DEF OthersKept
    <3> QED
      BY <1>3, <2>1, <3>1, <3>2, <3>3 DEF OnConnections
  <2>3. \A q \in Runs : Migrate!Ended(q) => Migrate!Ended(q)'
    BY <1>4 DEF OthersKept, Migrate!Ended
  <2>4. Alone'
    BY <1>2, <1>4, <1>5, <2>1, <2>3 DEF Alone, OthersKept
  <2> QED
    BY <2>2, <2>4
<1> QED
  BY <1>2, <1>6, <1>7, <1>8, <1>9 DEF MigrationInv

\* The script joins what the call, or everybody, has executed.
LEMMA ExecScriptStep ==
  ASSUME MigrationInv, NEW r \in Runs, Migrate!ExecScript(r)
  PROVE  MigrationInv'
<1> PICK t : t = Migrate!This(r)
  OBVIOUS
<1>1. MigrationTypes /\ Loading
  BY DEF MigrationInv
<1>2. /\ pc[r] = "next" /\ scripts[r] # {} /\ migrations[r][t[1]] = 0
      /\ pc' = [pc EXCEPT ![r] = "insert"]
      /\ inTx => executed' = [executed EXCEPT ![r] = Append(executed[r], t)] /\ UNCHANGED applied
      /\ ~inTx => applied' = Append(applied, t) /\ UNCHANGED executed
      /\ UNCHANGED <<inTx, files, record, scripts, migrations, inserted, loose, overlap>>
  BY DEF Migrate!ExecScript, Migrate!Nil
<1>3. t \in scripts[r] /\ t \in Scripts /\ t[1] \in Migrate!Versions /\ Left(t[1], scripts[r])
  BY <1>1, <1>2, ThisIsLeft DEF MigrationTypes, Scripts, Left
<1>4. /\ OthersKept(r) /\ scripts'[r] = scripts[r] /\ pc'[r] = "insert"
      /\ migrations'[r] = migrations[r] /\ inserted'[r] = inserted[r]
  BY <1>1, <1>2, OthersStay DEF MigrationTypes
<1>5. /\ Migrate!This(r)' = t /\ Migrate!This(r) = t
      /\ \A v : ~At(r, v) /\ (At(r, v)' <=> v = t[1])
  BY <1>2, <1>4 DEF At, Migrate!This
<1>6. MigrationTypes'
  <2>1. pc' \in [Runs -> {"idle", "select", "next", "insert", "done"}]
    BY <1>1, <1>2 DEF MigrationTypes
  <2>2. executed' \in [Runs -> Seq(Scripts)] /\ applied' \in Seq(Scripts)
    <3>1. /\ executed \in [Runs -> Seq(Scripts)] /\ applied \in Seq(Scripts)
          /\ executed[r] \in Seq(Scripts)
      BY <1>1 DEF MigrationTypes
    <3>2. Append(executed[r], t) \in Seq(Scripts) /\ Append(applied, t) \in Seq(Scripts)
      BY <1>3, <3>1, Appended
    <3> QED
      BY <1>2, <3>1, <3>2
  <2> QED
    BY <1>1, <1>2, <2>1, <2>2 DEF MigrationTypes, ScriptTexts, Scripts, Migrate!Versions, Migrate!Texts
<1>7. Loading'
  <2>1. \A i \in DOMAIN applied : i \in DOMAIN applied' /\ applied'[i] = applied[i]
    <3>1. applied \in Seq(Scripts) /\ (applied' = applied \/ applied' = Append(applied, t))
      BY <1>1, <1>2 DEF MigrationTypes
    <3> QED
      BY <1>3, <3>1, Appended
  <2>2. \A v \in Migrate!Versions :
          record[v] # 0 => \E i \in DOMAIN applied' : applied'[i] = <<v, record[v]>>
    BY <1>1, <1>2, <2>1 DEF Loading, MigrationTypes
  <2> QED
    BY <1>1, <1>2, <1>4, <2>2 DEF Loading, OthersKept
<1>8. ASSUME inTx PROVE InTransactions'
  <2>1. InTransactions
    BY <1>8 DEF MigrationInv
  <2> PICK e : e = executed[r]
    OBVIOUS
  <2>2. e \in Seq(Scripts) /\ executed'[r] = Append(e, t)
    BY <1>1, <1>2, <1>8 DEF MigrationTypes
  <2>3. /\ DOMAIN Append(e, t) = 1 .. Len(e) + 1 /\ DOMAIN e = 1 .. Len(e)
        /\ \A i \in DOMAIN e : Append(e, t)[i] = e[i]
        /\ Append(e, t)[Len(e) + 1] = t /\ Len(e) \in Nat
    BY <1>3, <2>2
  <2>4. \A v : Among(v, Append(e, t)) <=> Among(v, e) \/ v = t[1]
    BY <2>3 DEF Among
  <2>5. ~Among(t[1], e) /\ t[1] \notin inserted[r]
    BY <1>3, <1>5, <2>1 DEF InTransactions, Transaction
  <2>6. EachOnce(Append(e, t))
    <3>1. EachOnce(e)
      BY <2>1 DEF InTransactions, Transaction
    <3>2. \A i \in DOMAIN e : e[i][1] # t[1]
      BY <2>5 DEF Among
    <3> QED
      BY <2>3, <3>1, <3>2 DEF EachOnce
  <2>7. /\ EachOnce(executed'[r]) /\ pc'[r] \notin {"idle", "select"}
        /\ \A v \in Migrate!Versions :
             /\ Among(v, executed'[r]) <=> v \in inserted'[r] \/ At(r, v)'
             /\ Among(v, executed'[r]) /\ Left(v, scripts'[r]) => At(r, v)'
             /\ v \in inserted'[r] => record'[v] = 0 /\ ~At(r, v)'
    BY <1>2, <1>4, <1>5, <2>1, <2>2, <2>4, <2>5, <2>6 DEF InTransactions, Transaction
  <2> QED
    BY <1>2, <1>4, <1>8, <2>1, <2>7 DEF InTransactions, Transaction, OthersKept
<1>9. ASSUME ~inTx PROVE OnConnections' /\ Alone'
  <2>1. OnConnections /\ Alone
    BY <1>9 DEF MigrationInv
  <2>2. /\ applied \in Seq(Scripts) /\ Len(applied) \in Nat /\ DOMAIN applied = 1 .. Len(applied)
        /\ DOMAIN applied' = 1 .. Len(applied) + 1
        /\ \A i \in DOMAIN applied : applied'[i] = applied[i]
        /\ applied'[Len(applied) + 1] = t
    <3>1. applied \in Seq(Scripts) /\ applied' = Append(applied, t)
      BY <1>1, <1>2, <1>9 DEF MigrationTypes
    <3> QED
      BY <1>3, <3>1, Appended
  <2>3. ~overlap => ~Among(t[1], applied) \/ t[1] \in loose
    <3>1. ASSUME ~overlap, Among(t[1], applied), t[1] \notin loose PROVE FALSE
      <4>1. record[t[1]] = 0
        BY <1>2, <1>3, <2>1, <3>1 DEF Alone
      <4>2. PICK q \in Runs : At(q, t[1])
        BY <1>3, <2>1, <3>1, <4>1 DEF OnConnections
      <4>3. q = r
        BY <1>2, <2>1, <3>1, <4>2 DEF Alone, At, Migrate!Ended
      <4> QED
        BY <1>5, <4>2, <4>3
    <3> QED
      BY <3>1
  <2>4. ASSUME NEW i \in DOMAIN applied', NEW j \in DOMAIN applied', i # j,
               applied'[i][1] = applied'[j][1]
        PROVE  overlap \/ applied'[i][1] \in loose
    <3>1. CASE i \in DOMAIN applied /\ j \in DOMAIN applied
      BY <2>1, <2>2, <2>4, <3>1 DEF OnConnections
    <3>2. CASE i \in DOMAIN applied /\ j = Len(applied) + 1
      BY <2>2, <2>3, <2>4, <3>2 DEF Among
    <3>3. CASE i = Len(applied) + 1 /\ j \in DOMAIN applied
      BY <2>2, <2>3, <2>4, <3>3 DEF Among
    <3> QED
      BY <2>2, <2>4, <3>1, <3>2, <3>3
  <2>5. \A v : Among(v, applied)' => Among(v, applied) \/ v = t[1]
    BY <2>2 DEF Among
  <2>6. \A q \in Runs : \A v : At(q, v)' <=> At(q, v) \/ (q = r /\ v = t[1])
    BY <1>4, <1>5 DEF OthersKept
  <2>7. \A q \in Runs : pc'[q] = "insert" =>
          \E i \in DOMAIN applied' : applied'[i] = Migrate!This(q)'
    BY <1>4, <1>5, <2>1, <2>2 DEF OthersKept, OnConnections
  <2>8. OnConnections'
    <3>1. \A q \in Runs : executed'[q] = << >> /\ inserted'[q] = {}
      BY <1>2, <1>9, <2>1 DEF OnConnections
    <3>2. \A v \in Migrate!Versions :
            Among(v, applied)' => record[v] # 0 \/ v \in loose \/ \E q \in Runs : At(q, v)'
      BY <2>1, <2>5, <2>6 DEF OnConnections
    <3> QED
      BY <1>2, <2>4, <2>7, <3>1, <3>2 DEF OnConnections
  <2>9. \A q \in Runs : Migrate!Ended(q)' <=> Migrate!Ended(q)
    BY <1>2, <1>4 DEF OthersKept, Migrate!Ended
  <2>10. Alone'
    <3>1. ASSUME ~overlap PROVE record[t[1]] = 0
      BY <1>2, <1>3, <2>1, <3>1 DEF Alone
    <3> QED
      BY <1>2, <1>4, <2>1, <2>6, <2>9, <3>1 DEF Alone, OthersKept
  <2> QED
    BY <2>8, <2>10
<1> QED
  BY <1>2, <1>6, <1>7, <1>8, <1>9 DEF MigrationInv

\* The version is recorded, for the transaction or for everybody.
LEMMA InsertRecordStep ==
  ASSUME MigrationInv, NEW r \in Runs, Migrate!InsertRecord(r)
  PROVE  MigrationInv'
<1> PICK t, S : t = Migrate!This(r) /\ S = scripts[r] \ {t}
  OBVIOUS
<1>1. MigrationTypes /\ Loading
  BY DEF MigrationInv
<1>2. /\ pc[r] = "insert" /\ record[t[1]] = 0
      /\ \A q \in Runs \ {r} : t[1] \notin inserted[q]
      /\ pc' = [pc EXCEPT ![r] = "next"] /\ scripts' = [scripts EXCEPT ![r] = S]
      /\ inTx => inserted' = [inserted EXCEPT ![r] = inserted[r] \cup {t[1]}] /\ UNCHANGED record
      /\ ~inTx => record' = [record EXCEPT ![t[1]] = t[2]] /\ UNCHANGED inserted
      /\ UNCHANGED <<inTx, files, applied, migrations, executed, loose, overlap>>
  BY DEF Migrate!InsertRecord, Migrate!CanInsert, Migrate!Nil
<1>3. /\ t \in scripts[r] /\ t \in Scripts /\ t = <<t[1], t[2]>>
      /\ t[1] \in Migrate!Versions /\ t[2] \in Migrate!Texts
      /\ \A v : Left(v, S) => Left(v, scripts[r]) /\ v # t[1]
  <2>1. t \in scripts[r] /\ scripts[r] \subseteq Scripts /\ OnePer(scripts[r])
    BY <1>1, <1>2, ThisIsLeft DEF Loading, MigrationTypes
  <2> QED
    BY <2>1 DEF Scripts, Left, OnePer
<1>4. /\ OthersKept(r) /\ scripts'[r] = S /\ pc'[r] = "next"
      /\ migrations'[r] = migrations[r] /\ executed'[r] = executed[r]
  BY <1>1, <1>2, OthersStay DEF MigrationTypes
<1>5. \A v : ~At(r, v)' /\ (At(r, v) <=> v = t[1])
  BY <1>2, <1>4 DEF At
<1>6. MigrationTypes'
  <2>1. pc' \in [Runs -> {"idle", "select", "next", "insert", "done"}]
        /\ scripts' \in [Runs -> SUBSET Scripts]
    BY <1>1, <1>2 DEF MigrationTypes
  <2>2. inserted' \in [Runs -> SUBSET Migrate!Versions] /\ record' \in ScriptTexts
    <3>1. inserted[r] \cup {t[1]} \in SUBSET Migrate!Versions
      BY <1>1, <1>3 DEF MigrationTypes
    <3>2. inserted' \in [Runs -> SUBSET Migrate!Versions]
      BY <1>1, <1>2, <3>1 DEF MigrationTypes
    <3>3. record' \in ScriptTexts
      BY <1>1, <1>2, <1>3 DEF MigrationTypes, ScriptTexts
    <3> QED
      BY <3>2, <3>3
  <2> QED
    BY <1>1, <1>2, <2>1, <2>2 DEF MigrationTypes, ScriptTexts, Scripts, Migrate!Versions, Migrate!Texts
<1>7. Loading'
  <2>1. ASSUME NEW v \in Migrate!Versions, record'[v] # 0
        PROVE  \E i \in DOMAIN applied : applied[i] = <<v, record'[v]>>
    <3>1. CASE record'[v] = record[v]
      BY <1>1, <2>1, <3>1 DEF Loading
    <3>2. CASE record'[v] # record[v]
      <4>1. ~inTx /\ v = t[1] /\ record'[v] = t[2]
        BY <1>1, <1>2, <3>2 DEF MigrationTypes, ScriptTexts
      <4> QED
        BY <1>2, <1>3, <4>1 DEF MigrationInv, OnConnections
    <3> QED
      BY <3>1, <3>2
  <2>2. OnePer(S)
    BY <1>1 DEF Loading, OnePer
  <2> QED
    BY <1>1, <1>2, <1>4, <2>1, <2>2 DEF Loading, OthersKept
<1>8. ASSUME inTx PROVE InTransactions'
  <2>1. InTransactions
    BY <1>8 DEF MigrationInv
  <2>2. inserted'[r] = inserted[r] \cup {t[1]} /\ record' = record
    BY <1>1, <1>2, <1>8 DEF MigrationTypes
  <2>3. Transaction(r)'
    <3>1. \A v \in Migrate!Versions :
            /\ Among(v, executed[r]) <=> v \in inserted[r] \/ v = t[1]
            /\ Among(v, executed[r]) /\ Left(v, scripts[r]) => v = t[1]
            /\ v \in inserted[r] => record[v] = 0
      BY <1>5, <2>1 DEF InTransactions, Transaction
    <3>2. EachOnce(executed'[r]) /\ pc'[r] \notin {"idle", "select"}
      BY <1>4, <2>1 DEF InTransactions, Transaction
    <3>3. ASSUME NEW v \in Migrate!Versions
          PROVE  /\ Among(v, executed'[r]) <=> v \in inserted'[r]
                 /\ ~(Among(v, executed'[r]) /\ Left(v, scripts'[r]))
                 /\ v \in inserted'[r] => record'[v] = 0
      <4>1. /\ Among(v, executed[r]) <=> v \in inserted[r] \/ v = t[1]
            /\ Among(v, executed[r]) /\ Left(v, scripts[r]) => v = t[1]
            /\ v \in inserted[r] => record[v] = 0
        BY <3>1
      <4>2. Left(v, S) => Left(v, scripts[r]) /\ v # t[1]
        BY <1>3
      <4> QED
        BY <1>2, <1>4, <2>2, <4>1, <4>2
    <3> QED
      BY <1>5, <3>2, <3>3 DEF Transaction
  <2>4. \A q \in Runs \ {r} : inserted'[q] \cap inserted'[r] = {}
    BY <1>2, <1>4, <2>1, <2>2 DEF InTransactions, OthersKept
  <2>5. ASSUME NEW q \in Runs, q # r PROVE Transaction(q)'
    <3>1. Transaction(q) /\ record' = record
      BY <2>1, <2>2 DEF InTransactions
    <3>2. /\ pc'[q] = pc[q] /\ scripts'[q] = scripts[q] /\ executed'[q] = executed[q]
          /\ inserted'[q] = inserted[q] /\ \A v : At(q, v)' <=> At(q, v)
      BY <1>4, <2>5 DEF OthersKept
    <3> QED
      BY <3>1, <3>2 DEF Transaction
  <2>6. \A q, p \in Runs : q # p => inserted'[q] \cap inserted'[p] = {}
    BY <1>4, <2>1, <2>4 DEF InTransactions, OthersKept
  <2> QED
    BY <1>2, <2>1, <2>2, <2>3, <2>5, <2>6 DEF InTransactions
<1>9. ASSUME ~inTx PROVE OnConnections' /\ Alone'
  <2>1. OnConnections /\ Alone
    BY <1>9 DEF MigrationInv
  <2>2. /\ record'[t[1]] = t[2] /\ t[2] # 0 /\ UNCHANGED inserted
        /\ \A v \in Migrate!Versions : v # t[1] => record'[v] = record[v]
    BY <1>1, <1>2, <1>3, <1>9 DEF MigrationTypes, ScriptTexts, Migrate!Texts
  <2>3. OnConnections'
    <3>1. \A q \in Runs : \A v : At(q, v) => At(q, v)' \/ v = t[1]
      BY <1>4, <1>5 DEF OthersKept
    <3>2. \A v \in Migrate!Versions :
            Among(v, applied) => record'[v] # 0 \/ v \in loose \/ \E q \in Runs : At(q, v)'
      BY <2>1, <2>2, <3>1 DEF OnConnections
    <3>3. \A q \in Runs : pc'[q] = "insert" =>
            pc[q] = "insert" /\ Migrate!This(q)' = Migrate!This(q)
      BY <1>4 DEF OthersKept
    <3>4. \A q \in Runs : executed'[q] = << >> /\ inserted'[q] = {}
      BY <1>2, <2>1, <2>2 DEF OnConnections
    <3> QED
      BY <1>2, <2>1, <3>2, <3>3, <3>4 DEF OnConnections
  <2>4. \A q \in Runs : Migrate!Ended(q)' <=> Migrate!Ended(q)
    BY <1>2, <1>4 DEF OthersKept, Migrate!Ended
  <2>5. ASSUME ~overlap, NEW q \in Runs, q # r PROVE pc'[q] \in {"idle", "done"}
    BY <1>2, <1>4, <2>1, <2>5 DEF Alone, OthersKept, Migrate!Ended
  <2>6. Alone'
    <3>1. ASSUME ~overlap, NEW v \in Migrate!Versions, Left(v, S) PROVE migrations[r][v] = record'[v]
      BY <1>2, <1>3, <2>1, <2>2, <3>1 DEF Alone
    <3>2. ~overlap => \A q \in Runs, v \in Migrate!Versions : ~At(q, v)'
      BY <1>5, <2>5 DEF At
    <3>3. ASSUME ~overlap, NEW q \in Runs, pc'[q] \in {"next", "insert"},
                 NEW v \in Migrate!Versions, Left(v, scripts'[q])
          PROVE  migrations'[q][v] = record'[v]
      <4>1. q = r
        BY <2>5, <3>3
      <4> QED
        BY <1>4, <3>1, <3>3, <4>1
    <3>4. ~overlap => \A p, q \in Runs : ~Migrate!Ended(p)' /\ ~Migrate!Ended(q)' => p = q
      BY <2>1, <2>4 DEF Alone
    <3> QED
      BY <1>2, <3>2, <3>3, <3>4 DEF Alone
  <2> QED
    BY <2>3, <2>6
<1> QED
  BY <1>2, <1>6, <1>7, <1>8, <1>9 DEF MigrationInv

LEMMA Concatenated ==
  ASSUME NEW S, NEW s \in Seq(S), NEW e \in Seq(S)
  PROVE  /\ s \o e \in Seq(S) /\ Len(s) \in Nat /\ Len(e) \in Nat
         /\ DOMAIN s = 1 .. Len(s) /\ DOMAIN e = 1 .. Len(e)
         /\ DOMAIN (s \o e) = 1 .. Len(s) + Len(e)
         /\ \A i \in DOMAIN s : (s \o e)[i] = s[i]
         /\ \A i \in DOMAIN e : (s \o e)[Len(s) + i] = e[i]
OBVIOUS

\* What the transaction has executed and recorded is for good.
LEMMA CommitStep ==
  ASSUME MigrationInv, NEW r \in Runs, Migrate!Commit(r)
  PROVE  MigrationInv'
<1> PICK e, N : e = executed[r] /\ N = inserted[r]
  OBVIOUS
<1>1. MigrationTypes /\ Loading /\ e \in Seq(Scripts) /\ N \subseteq Migrate!Versions
      /\ applied \in Seq(Scripts)
  BY DEF MigrationInv, MigrationTypes
<1>2. /\ pc[r] = "next" /\ scripts[r] = {}
      /\ applied' = applied \o e
      /\ record' = [v \in Migrate!Versions |->
           IF v \in N THEN (CHOOSE s \in Migrate!SE!ToSet(e) : s[1] = v)[2] ELSE record[v]]
      /\ pc' = [pc EXCEPT ![r] = "done"]
      /\ executed' = [executed EXCEPT ![r] = << >>] /\ inserted' = [inserted EXCEPT ![r] = {}]
      /\ UNCHANGED <<inTx, files, scripts, migrations, loose, overlap>>
  BY DEF Migrate!Commit
<1>3. /\ applied' \in Seq(Scripts) /\ Len(applied) \in Nat /\ Len(e) \in Nat
      /\ DOMAIN applied = 1 .. Len(applied) /\ DOMAIN e = 1 .. Len(e)
      /\ DOMAIN applied' = 1 .. Len(applied) + Len(e)
      /\ \A i \in DOMAIN applied : applied'[i] = applied[i]
      /\ \A i \in DOMAIN e : applied'[Len(applied) + i] = e[i]
  BY <1>1, <1>2, Concatenated
<1>4. /\ OthersKept(r) /\ scripts'[r] = {} /\ pc'[r] = "done" /\ executed'[r] = << >>
      /\ inserted'[r] = {}
  BY <1>1, <1>2, OthersStay DEF MigrationTypes
<1>5. \A v : ~At(r, v)' /\ ~At(r, v)
  BY <1>2, <1>4 DEF At
<1>6. \A v \in N : Among(v, e)
  <2>1. CASE inTx
    BY <1>1, <2>1 DEF MigrationInv, InTransactions, Transaction
  <2>2. CASE ~inTx
    BY <2>2 DEF MigrationInv, OnConnections
  <2> QED
    BY <1>1, <2>1, <2>2 DEF MigrationTypes
<1>7. /\ \A v \in Migrate!Versions \ N : record'[v] = record[v]
      /\ \A v \in N : \E i \in DOMAIN e : e[i] = <<v, record'[v]>> /\ record'[v] \in Migrate!Texts
  <2>1. ASSUME NEW v \in N PROVE \E i \in DOMAIN e : e[i] = <<v, record'[v]>> /\ record'[v] \in Migrate!Texts
    <3>1. PICK s : s = (CHOOSE x \in Migrate!SE!ToSet(e) : x[1] = v)
      OBVIOUS
    <3>2. s \in Migrate!SE!ToSet(e) /\ s[1] = v
      BY <1>6, <3>1 DEF Among, Migrate!SE!ToSet
    <3>3. PICK i \in DOMAIN e : e[i] = s
      BY <3>2 DEF Migrate!SE!ToSet
    <3>4. s = <<v, s[2]>> /\ s[2] \in Migrate!Texts
      BY <1>1, <3>2, <3>3 DEF Scripts
    <3>5. record'[v] = s[2]
      BY <1>1, <1>2, <3>1
    <3> QED
      BY <3>3, <3>4, <3>5
  <2> QED
    BY <1>2, <2>1
<1>8. MigrationTypes'
  <2>1. record' \in ScriptTexts
    <3>1. \A v \in Migrate!Versions : record'[v] \in Migrate!Texts \cup {0}
      BY <1>1, <1>7 DEF MigrationTypes, ScriptTexts
    <3> QED
      BY <1>2, <3>1 DEF ScriptTexts
  <2>2. /\ pc' \in [Runs -> {"idle", "select", "next", "insert", "done"}]
        /\ executed' \in [Runs -> Seq(Scripts)] /\ inserted' \in [Runs -> SUBSET Migrate!Versions]
    BY <1>1, <1>2 DEF MigrationTypes
  <2> QED
    BY <1>1, <1>2, <1>3, <2>1, <2>2 DEF MigrationTypes, ScriptTexts, Scripts, Migrate!Versions, Migrate!Texts
<1>9. Loading'
  <2>1. ASSUME NEW v \in Migrate!Versions, record'[v] # 0
        PROVE  \E i \in DOMAIN applied' : applied'[i] = <<v, record'[v]>>
    <3>1. CASE v \in N
      <4>1. PICK i \in DOMAIN e : e[i] = <<v, record'[v]>>
        BY <1>7, <3>1
      <4>2. Len(applied) + i \in DOMAIN applied' /\ applied'[Len(applied) + i] = e[i]
        BY <1>3, <4>1
      <4> QED
        BY <4>1, <4>2
    <3>2. CASE v \notin N
      <4>1. PICK i \in DOMAIN applied : applied[i] = <<v, record'[v]>>
        BY <1>1, <1>7, <2>1, <3>2 DEF Loading
      <4> QED
        BY <1>3, <4>1
    <3> QED
      BY <3>1, <3>2
  <2> QED
    BY <1>1, <1>2, <1>4, <2>1 DEF Loading, OthersKept
<1>10. ASSUME inTx PROVE InTransactions'
  <2>1. InTransactions
    BY <1>10 DEF MigrationInv
  <2>2. \A v \in Migrate!Versions : (Among(v, e) <=> v \in N) /\ (v \in N => record[v] = 0)
    BY <1>5, <2>1 DEF InTransactions, Transaction
  <2>3. \A i \in DOMAIN applied, j \in DOMAIN e : applied[i][1] # e[j][1]
    <3>1. ASSUME NEW i \in DOMAIN applied, NEW j \in DOMAIN e, applied[i][1] = e[j][1] PROVE FALSE
      <4>1. e[j][1] \in Migrate!Versions /\ Among(e[j][1], e) /\ Among(e[j][1], applied)
        BY <1>1, <3>1 DEF Among, Scripts
      <4> QED
        BY <2>1, <2>2, <4>1 DEF InTransactions, Transaction
    <3> QED
      BY <3>1
  <2>4. \A i \in DOMAIN applied' :
          i \in DOMAIN applied \/ \E j \in DOMAIN e : i = Len(applied) + j
    <3>1. ASSUME NEW i \in DOMAIN applied', i \notin DOMAIN applied
          PROVE  i - Len(applied) \in DOMAIN e /\ i = Len(applied) + (i - Len(applied))
      BY <1>3, <3>1
    <3> QED
      BY <3>1
  <2>5. EachOnce(applied')
    <3> SUFFICES ASSUME NEW i \in DOMAIN applied', NEW j \in DOMAIN applied',
                        applied'[i][1] = applied'[j][1]
                 PROVE  i = j
      BY DEF EachOnce
    <3>1. EachOnce(applied) /\ EachOnce(e)
      BY <2>1 DEF InTransactions, Transaction
    <3>2. CASE i \in DOMAIN applied /\ j \in DOMAIN applied
      BY <1>3, <3>1, <3>2 DEF EachOnce
    <3>3. CASE i \in DOMAIN applied /\ j \notin DOMAIN applied
      <4>1. PICK k \in DOMAIN e : j = Len(applied) + k
        BY <2>4, <3>3
      <4>2. applied'[i] = applied[i] /\ applied'[j] = e[k]
        BY <1>3, <3>3, <4>1
      <4> QED
        BY <2>3, <3>3, <4>2
    <3>4. CASE i \notin DOMAIN applied /\ j \in DOMAIN applied
      <4>1. PICK k \in DOMAIN e : i = Len(applied) + k
        BY <2>4, <3>4
      <4>2. applied'[j] = applied[j] /\ applied'[i] = e[k]
        BY <1>3, <3>4, <4>1
      <4> QED
        BY <2>3, <3>4, <4>2
    <3>5. CASE i \notin DOMAIN applied /\ j \notin DOMAIN applied
      <4>1. PICK k \in DOMAIN e, l \in DOMAIN e : i = Len(applied) + k /\ j = Len(applied) + l
        BY <2>4, <3>5
      <4>2. applied'[i] = e[k] /\ applied'[j] = e[l]
        BY <1>3, <4>1
      <4> QED
        BY <3>1, <4>1, <4>2 DEF EachOnce
    <3> QED
      BY <3>2, <3>3, <3>4, <3>5
  <2>6. \A v : Among(v, applied)' => Among(v, applied) \/ Among(v, e)
    BY <1>3, <2>4 DEF Among
  <2>7. \A v \in Migrate!Versions : Among(v, applied)' => record'[v] # 0
    <3>1. ASSUME NEW v \in Migrate!Versions, v \in N PROVE record'[v] # 0
      BY <1>7, <3>1 DEF Migrate!Texts
    <3> QED
      BY <1>7, <2>1, <2>2, <2>6, <3>1 DEF InTransactions, Transaction
  <2>8. ASSUME NEW q \in Runs, q # r, NEW v \in Migrate!Versions, v \in inserted[q]
        PROVE  record'[v] = 0
    BY <1>7, <2>1, <2>8 DEF InTransactions, Transaction
  <2>9. EachOnce(<< >>) /\ \A v : ~Among(v, << >>)
    BY DEF EachOnce, Among
  <2> QED
    BY <1>4, <1>5, <2>1, <2>5, <2>7, <2>8, <2>9 DEF InTransactions, Transaction, OthersKept
<1>11. ASSUME ~inTx PROVE OnConnections' /\ Alone'
  <2>1. OnConnections /\ Alone /\ e = << >> /\ N = {}
    BY <1>11 DEF MigrationInv, OnConnections
  <2>2. applied' = applied
    <3>1. Len(e) = 0
      BY <2>1
    <3>2. \A s \in Seq(Scripts) : s \o << >> = s
      OBVIOUS
    <3> QED
      BY <1>1, <1>2, <2>1, <3>2
  <2>3. \A v \in Migrate!Versions : record'[v] = record[v]
    BY <1>7, <2>1
  <2>4. OnConnections'
    <3>1. \A q \in Runs : \A v : At(q, v)' <=> At(q, v)
      BY <1>4, <1>5 DEF OthersKept
    <3>2. \A q \in Runs : executed'[q] = << >> /\ inserted'[q] = {}
      BY <1>4, <2>1 DEF OnConnections, OthersKept
    <3>3. \A q \in Runs : pc'[q] = "insert" =>
            pc[q] = "insert" /\ Migrate!This(q)' = Migrate!This(q)
      BY <1>4 DEF OthersKept
    <3> QED
      BY <1>2, <2>1, <2>2, <2>3, <3>1, <3>2, <3>3 DEF OnConnections
  <2>5. \A q \in Runs : Migrate!Ended(q) => Migrate!Ended(q)'
    BY <1>4 DEF OthersKept, Migrate!Ended
  <2>6. Alone'
    BY <1>2, <1>4, <1>5, <2>1, <2>3, <2>5 DEF Alone, OthersKept
  <2> QED
    BY <2>4, <2>6
<1> QED
  BY <1>2, <1>8, <1>9, <1>10, <1>11 DEF MigrationInv

LEMMA MigrationStep == MigrationInv /\ [Migrate!Next]_migrationVars => MigrationInv'
<1> SUFFICES ASSUME MigrationInv, [Migrate!Next]_migrationVars PROVE MigrationInv'
  OBVIOUS
<1>1. CASE UNCHANGED migrationVars
  <2>1. \A r : (Migrate!This(r)' = Migrate!This(r)) /\ (Migrate!Ended(r)' <=> Migrate!Ended(r))
    BY <1>1 DEF migrationVars, Migrate!This, Migrate!Ended
  <2>2. \A r, v : At(r, v)' <=> At(r, v)
    BY <1>1, <2>1 DEF migrationVars, At
  <2>3. MigrationTypes' /\ Loading'
    BY <1>1 DEF migrationVars, MigrationInv, MigrationTypes, Loading
  <2>4. inTx => InTransactions'
    <3>1. \A r \in Runs : Transaction(r) => Transaction(r)'
      BY <1>1, <2>2 DEF migrationVars, Transaction
    <3> QED
      BY <1>1, <3>1 DEF migrationVars, MigrationInv, InTransactions
  <2>5. ~inTx => OnConnections' /\ Alone'
    BY <1>1, <2>1, <2>2 DEF migrationVars, MigrationInv, OnConnections, Alone
  <2> QED
    BY <1>1, <2>3, <2>4, <2>5 DEF MigrationInv, migrationVars
<1>2. ASSUME NEW r \in Runs, Migrate!HashMismatch(r) \/ Migrate!InsertFails(r) \/ Migrate!Crash(r)
      PROVE  MigrationInv'
  BY <1>2, EndStep DEF Migrate!HashMismatch, Migrate!InsertFails, Migrate!Crash
<1> QED
  BY <1>1, <1>2, EditFileStep, LoadStep, GetMigrationsStep, SkipStep, ExecScriptStep,
     InsertRecordStep, CommitStep DEF Migrate!Next

LEMMA ExecutedOnce == MigrationInv => Migrate!ScriptsOnce /\ Migrate!TypeOK
<1> SUFFICES ASSUME MigrationInv PROVE Migrate!ScriptsOnce /\ Migrate!TypeOK
  OBVIOUS
<1> USE DEF Migrate!SE!ToSet, Migrate!Nil
<1>1. MigrationTypes /\ Loading
  BY DEF MigrationInv
<1>2. \A v \in Migrate!Versions : record[v] # 0 => <<v, record[v]>> \in Migrate!SE!ToSet(applied)
  BY <1>1 DEF Loading
<1>3. \A i, j \in DOMAIN applied :
        i # j /\ applied[i][1] = applied[j][1] => ~inTx /\ (overlap \/ applied[i][1] \in loose)
  <2>1. CASE inTx
    BY <2>1 DEF MigrationInv, InTransactions, Transaction, EachOnce
  <2>2. CASE ~inTx
    BY <2>2 DEF MigrationInv, OnConnections
  <2> QED
    BY <1>1, <2>1, <2>2 DEF MigrationTypes
<1>4. ASSUME NEW i \in DOMAIN applied
      PROVE  \/ record[applied[i][1]] # 0
             \/ ~inTx /\ (applied[i][1] \in loose \/ \E r \in Runs : At(r, applied[i][1]))
  <2>1. applied[i][1] \in Migrate!Versions /\ Among(applied[i][1], applied)
    BY <1>1 DEF MigrationTypes, Scripts, Among
  <2>2. CASE inTx
    BY <2>1, <2>2 DEF MigrationInv, InTransactions, Transaction
  <2>3. CASE ~inTx
    BY <2>1, <2>3 DEF MigrationInv, OnConnections
  <2> QED
    BY <1>1, <2>2, <2>3 DEF MigrationTypes
<1>5. Migrate!ScriptsOnce
  BY <1>2, <1>3, <1>4 DEF Migrate!ScriptsOnce, At
<1>6. Migrate!TypeOK
  <2>1. \A s \in Seq(Scripts) : Migrate!SE!ToSet(s) \subseteq Scripts
    OBVIOUS
  <2> QED
    BY <1>1, <2>1 DEF MigrationTypes, Migrate!TypeOK, Scripts, ScriptTexts
<1> QED
  BY <1>5, <1>6

-----------------------------------------------------------------------------
(* Container *)

Bindings  == [resolver : Resolvers \cup {"none"}, instance : Nat]
Calls     == [key : Ioc!AllKeys \cup {"request"}, wants : Seq(Ioc!AllKeys), args : Seq(Nat)]
Instances == [resolver : Resolvers, args : Seq(Nat)]

ContainerTypes ==
  /\ binding \in [Ioc!AllKeys -> Bindings] /\ stack \in Seq(Calls)
  /\ made \in Seq(Instances) /\ retired \subseteq 1 .. Len(made)

\* A key has an instance of the resolver that is bound to it.
HasInstances ==
  \A k \in Ioc!AllKeys :
    /\ binding[k].instance \in 0 .. Len(made)
    /\ binding[k].instance # 0 => made[binding[k].instance].resolver = binding[k].resolver
    /\ Ioc!Bound(k) => binding[k].resolver \in Resolvers

\* What instance n was given are the instances of what its resolver takes.
GivenArgs(n) ==
  LET takes == Ins[made[n].resolver] IN
  /\ Len(made[n].args) = Len(takes)
  /\ \A i \in DOMAIN made[n].args :
       /\ made[n].args[i] \in 1 .. Len(made) /\ Ioc!Fits(made[n].args[i], takes[i])
       /\ made[n].args[i] \in retired \/ binding[takes[i]].instance = made[n].args[i]

\* A call of resolve is for a key without an instance, has the instances of the first of
\* what the resolver takes, and wants the rest; b is binding, m the number of instances.
CallIn(f, b, m) ==
  LET takes == Ins[b[f.key].resolver] IN
  /\ \A i \in DOMAIN f.args : f.args[i] <= m
  /\ f.key # "request" =>
       /\ b[f.key] # Ioc!Unbound /\ b[f.key].instance = 0
       /\ Len(f.args) + Len(f.wants) = Len(takes)
       /\ \A i \in DOMAIN f.wants : f.wants[i] = takes[Len(f.args) + i]
       /\ \A i \in DOMAIN f.args : f.args[i] # 0 => b[takes[i]].instance = f.args[i]

CallOK(f) == CallIn(f, binding, Len(made))

\* The request is the first call, and every other one is for what the call below it
\* wants next.
Nested ==
  \A i \in DOMAIN stack :
    /\ i = 1 <=> stack[i].key = "request"
    /\ i + 1 \in DOMAIN stack =>
         stack[i].wants # << >> /\ Head(stack[i].wants) = stack[i + 1].key

ContainerInv ==
  /\ ContainerTypes /\ HasInstances /\ Nested
  /\ \A n \in DOMAIN made : GivenArgs(n)
  /\ \A i \in DOMAIN stack : CallOK(stack[i])

LEMMA ContainerInit == Ioc!New => ContainerInv
BY DEF Ioc!New, ContainerInv, ContainerTypes, HasInstances, Nested, GivenArgs, CallOK, CallIn,
       Ioc!Bound, Ioc!Unbound, Ioc!Nil, Bindings

\* Between requests a binding may change: its instance, if it has one, is retired.
LEMMA RebindStep ==
  ASSUME ContainerInv, NEW keys, NEW to \in Bindings, Ioc!Rebind(keys, to),
         to.instance = 0, to # Ioc!Unbound => to.resolver \in Resolvers,
         keys \subseteq Ioc!AllKeys
  PROVE  ContainerInv'
<1> USE DEF ContainerInv, Ioc!Nil
<1>1. /\ stack = << >> /\ stack' = stack /\ made' = made
      /\ binding' = [k \in Ioc!AllKeys |-> IF k \in keys THEN to ELSE binding[k]]
      /\ retired' = (retired \cup {binding[k].instance : k \in keys}) \ {0}
  BY DEF Ioc!Rebind
<1>2. \A k \in Ioc!AllKeys : binding'[k] = IF k \in keys THEN to ELSE binding[k]
  BY <1>1
<1>3. ContainerTypes' /\ HasInstances'
  <2>1. binding' \in [Ioc!AllKeys -> Bindings]
    BY <1>1 DEF ContainerTypes
  <2>2. \A k \in Ioc!AllKeys : binding[k].instance \in 0 .. Len(made)
    BY DEF HasInstances
  <2>3. ASSUME NEW d \in retired' PROVE d \in 1 .. Len(made)
    <3>1. CASE d \in retired
      BY <3>1 DEF ContainerTypes
    <3>2. CASE d \notin retired
      <4>1. d # 0 /\ \E k \in keys : d = binding[k].instance
        BY <1>1, <3>2
      <4> QED
        BY <2>2, <4>1 DEF ContainerTypes
    <3> QED
      BY <3>1, <3>2
  <2>4. HasInstances'
    BY <1>1, <1>2 DEF HasInstances, ContainerTypes, Ioc!Bound
  <2>5. retired' \subseteq 1 .. Len(made)
    BY <2>3
  <2> QED
    BY <1>1, <2>1, <2>4, <2>5 DEF ContainerTypes
<1>4. Nested' /\ \A i \in DOMAIN stack' : CallOK(stack[i])'
  BY <1>1 DEF Nested
<1>5. ASSUME NEW n \in DOMAIN made PROVE GivenArgs(n)'
  <2>1. GivenArgs(n) /\ made[n] \in Instances
    BY DEF ContainerTypes
  <2>2. ASSUME NEW i \in DOMAIN made[n].args
        PROVE  LET d == made[n].args[i]  t == Ins[made[n].resolver][i] IN
               Ioc!Fits(d, t)' /\ (d \in retired' \/ binding'[t].instance = d)
    <3> DEFINE d == made[n].args[i]  t == Ins[made[n].resolver][i]
    <3>1. d \in 1 .. Len(made) /\ Ioc!Fits(d, t) /\ (d \in retired \/ binding[t].instance = d)
      BY <2>1 DEF GivenArgs
    <3>2. t \in Ioc!AllKeys
      BY <2>1, StructuresAssumption DEF GivenArgs, Instances, Ioc!AllKeys
    <3>3. Ioc!Fits(d, t)'
      BY <1>1, <3>1 DEF Ioc!Fits
    <3> QED
      BY <1>1, <1>2, <3>1, <3>2, <3>3
  <2> QED
    BY <1>1, <2>1, <2>2 DEF GivenArgs
<1> QED
  BY <1>1, <1>3, <1>4, <1>5

\* A request that ends, or that panics, leaves no call.
LEMMA NoCall ==
  ASSUME ContainerInv, stack' = << >>, UNCHANGED <<binding, made, retired>>
  PROVE  ContainerInv'
<1> USE DEF ContainerInv
<1>1. ContainerTypes' /\ HasInstances' /\ Nested'
  BY DEF ContainerTypes, HasInstances, Nested, Ioc!Bound
<1>2. ASSUME NEW n \in DOMAIN made PROVE GivenArgs(n)'
  BY DEF GivenArgs, Ioc!Fits
<1> QED
  BY <1>1, <1>2

LEMMA RequestStep ==
  ASSUME ContainerInv, NEW keys \in Requests, Ioc!Request(keys)
  PROVE  ContainerInv'
<1> USE DEF ContainerInv
<1>1. /\ stack' = <<[key |-> "request", wants |-> keys, args |-> << >>]>>
      /\ UNCHANGED <<binding, made, retired>>
  BY DEF Ioc!Request, Ioc!Frame, Ioc!Root
<1>2. keys \in Seq(Ioc!AllKeys)
  BY StructuresAssumption DEF Ioc!AllKeys
<1>3. [key |-> "request", wants |-> keys, args |-> << >>] \in Calls
  BY <1>2 DEF Calls
<1>4. stack' \in Seq(Calls) /\ DOMAIN stack' = {1}
  BY <1>1, <1>3
<1>5. ContainerTypes' /\ HasInstances'
  BY <1>1, <1>4 DEF ContainerTypes, HasInstances, Ioc!Bound
<1>6. Nested'
  BY <1>1, <1>4 DEF Nested
<1>7. ASSUME NEW n \in DOMAIN made' PROVE GivenArgs(n)'
  BY <1>1 DEF GivenArgs, Ioc!Fits
<1>8. ASSUME NEW i \in DOMAIN stack' PROVE CallOK(stack[i])'
  <2>1. stack[i]'.key = "request" /\ stack[i]'.args = << >>
    BY <1>1, <1>4
  <2>2. DOMAIN stack[i]'.args = {}
    BY <2>1
  <2> QED
    BY <2>1, <2>2 DEF CallOK, CallIn
<1> QED
  BY <1>5, <1>6, <1>7, <1>8

\* The call below gets instance n for the first of what it wants.
LEMMA Returning ==
  ASSUME NEW s \in Seq(Calls), s # << >>, s[Len(s)].wants # << >>, NEW n \in Nat
  PROVE  /\ Ioc!Returned(s, n) \in Seq(Calls) /\ Len(Ioc!Returned(s, n)) = Len(s)
         /\ DOMAIN Ioc!Returned(s, n) = DOMAIN s
         /\ \A i \in DOMAIN s : i # Len(s) => Ioc!Returned(s, n)[i] = s[i]
         /\ Ioc!Returned(s, n)[Len(s)] =
              [key |-> s[Len(s)].key, wants |-> Tail(s[Len(s)].wants),
               args |-> Append(s[Len(s)].args, n)]
<1>1. PICK f \in Calls : f = s[Len(s)]
  OBVIOUS
<1>2. PICK g : g = [f EXCEPT !.wants = Tail(f.wants), !.args = Append(f.args, n)]
  OBVIOUS
<1>3. g = [key |-> f.key, wants |-> Tail(f.wants), args |-> Append(f.args, n)]
  BY <1>2 DEF Calls
<1>4. g \in Calls
  BY <1>1, <1>3 DEF Calls
<1>5. Ioc!Returned(s, n) = [s EXCEPT ![Len(s)] = g]
  BY <1>1, <1>2 DEF Ioc!Returned
<1>6. /\ [s EXCEPT ![Len(s)] = g] \in Seq(Calls) /\ Len([s EXCEPT ![Len(s)] = g]) = Len(s)
      /\ DOMAIN [s EXCEPT ![Len(s)] = g] = DOMAIN s
      /\ \A i \in DOMAIN s : i # Len(s) => [s EXCEPT ![Len(s)] = g][i] = s[i]
      /\ [s EXCEPT ![Len(s)] = g][Len(s)] = g
  BY <1>4
<1> QED
  BY <1>1, <1>3, <1>5, <1>6

\* The call that got what it wanted first keeps what CallOK says.
LEMMA GotWanted ==
  ASSUME NEW b, NEW m \in Nat, NEW f \in Calls, f.wants # << >>, CallIn(f, b, m),
         NEW n \in 0 .. m, n # 0 => b[Head(f.wants)].instance = n
  PROVE  CallIn([key |-> f.key, wants |-> Tail(f.wants), args |-> Append(f.args, n)], b, m)
<1> DEFINE takes == Ins[b[f.key].resolver]
<1>0. PICK g : g = [key |-> f.key, wants |-> Tail(f.wants), args |-> Append(f.args, n)]
  OBVIOUS
<1>1. f.args \in Seq(Nat) /\ f.wants \in Seq(Ioc!AllKeys)
  BY DEF Calls
<1>2. /\ Len(g.args) = Len(f.args) + 1 /\ Len(g.wants) = Len(f.wants) - 1
      /\ \A i \in DOMAIN f.args : g.args[i] = f.args[i]
      /\ g.args[Len(f.args) + 1] = n
      /\ DOMAIN g.args = 1 .. Len(f.args) + 1 /\ DOMAIN f.args = 1 .. Len(f.args)
      /\ DOMAIN f.wants = 1 .. Len(f.wants) /\ Len(f.wants) > 0
      /\ DOMAIN g.wants = 1 .. Len(f.wants) - 1
      /\ \A i \in 1 .. Len(f.wants) - 1 : g.wants[i] = f.wants[i + 1]
      /\ Head(f.wants) = f.wants[1] /\ Len(f.args) \in Nat /\ Len(f.wants) \in Nat
      /\ g.key = f.key
  BY <1>0, <1>1
<1>3. \A i \in DOMAIN g.args : g.args[i] <= m
  BY <1>2 DEF CallIn
<1>4. ASSUME f.key # "request"
      PROVE  /\ b[f.key] # Ioc!Unbound /\ b[f.key].instance = 0
             /\ Len(g.args) + Len(g.wants) = Len(takes)
             /\ \A i \in DOMAIN g.wants : g.wants[i] = takes[Len(g.args) + i]
             /\ \A i \in DOMAIN g.args : g.args[i] # 0 => b[takes[i]].instance = g.args[i]
  <2>1. /\ b[f.key] # Ioc!Unbound /\ b[f.key].instance = 0
        /\ Len(f.args) + Len(f.wants) = Len(takes)
        /\ \A i \in DOMAIN f.wants : f.wants[i] = takes[Len(f.args) + i]
        /\ \A i \in DOMAIN f.args : f.args[i] # 0 => b[takes[i]].instance = f.args[i]
    BY <1>4 DEF CallIn
  <2>2. \A i \in DOMAIN g.wants : g.wants[i] = takes[Len(g.args) + i]
    <3> SUFFICES ASSUME NEW i \in 1 .. Len(f.wants) - 1 PROVE g.wants[i] = takes[Len(g.args) + i]
      BY <1>2
    <3> PICK a \in Nat, w \in Nat : a = Len(f.args) /\ w = Len(f.wants)
      BY <1>2
    <3>1. i + 1 \in 1 .. w /\ a + (i + 1) = (a + 1) + i
      OBVIOUS
    <3>2. i + 1 \in DOMAIN f.wants /\ Len(f.args) + (i + 1) = Len(g.args) + i
      BY <1>2, <3>1
    <3> QED
      BY <1>2, <2>1, <3>2
  <2>3. ASSUME NEW i \in DOMAIN g.args, g.args[i] # 0
        PROVE  b[takes[i]].instance = g.args[i]
    <3>1. CASE i \in DOMAIN f.args
      BY <1>2, <2>1, <2>3, <3>1
    <3>2. CASE i = Len(f.args) + 1
      <4>1. 1 \in DOMAIN f.wants /\ takes[i] = Head(f.wants)
        BY <1>2, <2>1, <3>2
      <4> QED
        BY <1>2, <2>3, <3>2, <4>1
    <3> QED
      BY <1>2, <3>1, <3>2
  <2>4. Len(g.args) + Len(g.wants) = Len(f.args) + Len(f.wants)
    <3>1. \A a, w \in Nat : (a + 1) + (w - 1) = a + w
      OBVIOUS
    <3> QED
      BY <1>2, <3>1
  <2> QED
    BY <2>1, <2>2, <2>3, <2>4
<1>5. CallIn(g, b, m)
  <2>1. g.key = f.key
    BY <1>2
  <2> QED
    BY <1>3, <1>4, <2>1 DEF CallIn
<1> QED
  BY <1>0, <1>5

\* What the call on top wants: the instance there is, or a call for it.
LEMMA ResolveStep ==
  ASSUME ContainerInv, Ioc!Resolve
  PROVE  ContainerInv'
<1> USE DEF ContainerInv, Ioc!Nil
<1> PICK f : f = stack[Len(stack)]
  OBVIOUS
<1> PICK k : k = Head(f.wants)
  OBVIOUS
<1>1. /\ stack # << >> /\ f.wants # << >> /\ Ioc!Bound(k)
      /\ UNCHANGED <<binding, made, retired>>
  BY DEF Ioc!Resolve, Ioc!Wanting, Ioc!Top
<1>2. /\ Len(stack) \in DOMAIN stack /\ f \in Calls /\ CallOK(f) /\ stack \in Seq(Calls)
      /\ DOMAIN stack = 1 .. Len(stack) /\ Len(stack) \in Nat
  BY <1>1 DEF ContainerTypes
<1>3. k \in Ioc!AllKeys
  BY <1>1, <1>2 DEF Calls
<1>4. \/ binding[k].instance # 0 /\ stack' = Ioc!Returned(stack, binding[k].instance)
      \/ /\ binding[k].instance = 0
         /\ stack' = Append(stack, Ioc!Frame(k, Ins[binding[k].resolver]))
  BY DEF Ioc!Resolve, Ioc!Top
<1>5. ASSUME NEW n \in DOMAIN made' PROVE GivenArgs(n)'
  BY <1>1 DEF GivenArgs, Ioc!Fits
<1>6. HasInstances'
  BY <1>1 DEF HasInstances, Ioc!Bound
<1>7. CASE binding[k].instance # 0
  <2> PICK n : n = binding[k].instance
    OBVIOUS
  <2>1. n \in 0 .. Len(made)
    BY <1>3 DEF HasInstances
  <2>2. n \in Nat /\ stack' = Ioc!Returned(stack, n)
    BY <1>4, <1>7, <2>1
  <2> PICK g : g = [key |-> f.key, wants |-> Tail(f.wants), args |-> Append(f.args, n)]
    OBVIOUS
  <2>3. /\ stack' \in Seq(Calls) /\ Len(stack') = Len(stack)
        /\ DOMAIN stack' = DOMAIN stack
        /\ \A i \in DOMAIN stack : i # Len(stack) => stack'[i] = stack[i]
        /\ stack'[Len(stack)] = g
    BY <1>1, <1>2, <2>2, Returning
  <2>4. CallOK(g)
    <3>1. Len(made) \in Nat /\ CallIn(f, binding, Len(made))
      BY <1>2 DEF ContainerTypes, CallOK
    <3> QED
      BY <1>1, <1>2, <2>1, <3>1, GotWanted DEF CallOK
  <2>5. ContainerTypes'
    BY <1>1, <2>3 DEF ContainerTypes
  <2>6. ASSUME NEW i \in DOMAIN stack' PROVE CallOK(stack[i])'
    <3>1. CallOK(stack[i]')
      BY <2>3, <2>4
    <3> QED
      BY <1>1, <3>1 DEF CallOK, CallIn, Ioc!Bound
  <2>7. Nested'
    <3>1. g.key = f.key
      OBVIOUS
    <3>2. \A i \in DOMAIN stack : stack'[i].key = stack[i].key
      BY <2>3, <3>1
    <3> QED
      BY <1>2, <2>3, <3>2 DEF Nested
  <2> QED
    BY <1>5, <1>6, <2>5, <2>6, <2>7
<1>8. CASE binding[k].instance = 0
  <2> PICK takes : takes = Ins[binding[k].resolver]
    OBVIOUS
  <2> PICK g : g = [key |-> k, wants |-> takes, args |-> << >>]
    OBVIOUS
  <2>1. stack' = Append(stack, g)
    BY <1>4, <1>8 DEF Ioc!Frame
  <2>2. takes \in Seq(Types)
    BY <1>1, <1>3, StructuresAssumption DEF HasInstances
  <2>3. g \in Calls /\ g.key = k /\ k # "request"
    BY <1>3, <2>2, StructuresAssumption DEF Calls, Ioc!AllKeys
  <2>4. /\ stack' \in Seq(Calls) /\ DOMAIN stack' = 1 .. Len(stack) + 1
        /\ \A i \in DOMAIN stack : stack'[i] = stack[i]
        /\ stack'[Len(stack) + 1] = g
    BY <1>2, <2>1, <2>3, Appended
  <2>5. CallOK(g)
    <3>1. g.args = << >> /\ g.wants = takes /\ Len(takes) \in Nat
      BY <2>2
    <3>2. Len(g.args) = 0 /\ DOMAIN g.args = {} /\ DOMAIN g.wants = 1 .. Len(takes)
      BY <2>2, <3>1
    <3>3. \A i \in DOMAIN g.wants : g.wants[i] = takes[Len(g.args) + i]
      BY <3>1, <3>2
    <3>4. Len(g.args) + Len(g.wants) = Len(takes)
      BY <3>1, <3>2
    <3> QED
      BY <1>1, <1>8, <2>3, <3>2, <3>3, <3>4 DEF CallOK, CallIn, Ioc!Bound
  <2>6. ContainerTypes'
    BY <1>1, <2>4 DEF ContainerTypes
  <2>7. ASSUME NEW i \in DOMAIN stack' PROVE CallOK(stack[i])'
    <3>1. CallOK(stack[i]')
      BY <1>2, <2>4, <2>5
    <3> QED
      BY <1>1, <3>1 DEF CallOK, CallIn, Ioc!Bound
  <2>8. Nested'
    <3> SUFFICES ASSUME NEW i \in DOMAIN stack'
                 PROVE  /\ i = 1 <=> stack'[i].key = "request"
                        /\ i + 1 \in DOMAIN stack' =>
                             stack'[i].wants # << >> /\ Head(stack'[i].wants) = stack'[i + 1].key
      BY DEF Nested
    <3>1. CASE i = Len(stack) + 1
      BY <1>1, <1>2, <2>3, <2>4, <3>1
    <3>2. CASE i = Len(stack)
      BY <1>1, <1>2, <2>3, <2>4, <3>2 DEF Nested
    <3>3. CASE i # Len(stack) /\ i # Len(stack) + 1
      <4>1. i \in DOMAIN stack /\ i + 1 \in DOMAIN stack
        BY <1>2, <2>4, <3>3
      <4> QED
        BY <2>4, <4>1 DEF Nested
    <3> QED
      BY <3>1, <3>2, <3>3
  <2> QED
    BY <1>5, <1>6, <2>6, <2>7, <2>8
<1> QED
  BY <1>7, <1>8

\* A key whose resolver can be called is on the stack once: a call for it below would
\* have wanted what it was given, and the key above has no instance.
LEMMA CalledOnce ==
  ASSUME ContainerInv, stack # << >>, Ioc!Top.key # "request", Ioc!Top.wants = << >>,
         Ioc!CanCall, NEW i \in DOMAIN stack, i # Len(stack)
  PROVE  stack[i].key # Ioc!Top.key
<1> SUFFICES ASSUME stack[i].key = Ioc!Top.key PROVE FALSE
  OBVIOUS
<1> USE DEF ContainerInv, Ioc!Nil
<1> PICK f : f = Ioc!Top
  OBVIOUS
<1> PICK c : c = stack[i]
  OBVIOUS
<1> PICK h : h = stack[i + 1].key
  OBVIOUS
<1> PICK takes : takes = Ins[binding[f.key].resolver]
  OBVIOUS
<1>1. /\ Len(stack) \in DOMAIN stack /\ f \in Calls /\ CallOK(f) /\ stack \in Seq(Calls)
      /\ i + 1 \in DOMAIN stack /\ i + 1 # 1 /\ c \in Calls /\ CallOK(c)
  BY DEF ContainerTypes, Ioc!Top
<1>2. c.key = f.key /\ f.key # "request" /\ h # "request" /\ c.wants # << >> /\ Head(c.wants) = h
  BY <1>1 DEF Nested
<1>3. binding[h].instance = 0
  BY <1>1, <1>2 DEF CallOK, CallIn
<1>4. /\ Len(c.args) + Len(c.wants) = Len(takes)
      /\ \A j \in DOMAIN c.wants : c.wants[j] = takes[Len(c.args) + j]
  <2>1. c.key # "request" /\ takes = Ins[binding[c.key].resolver]
    BY <1>2
  <2>2. CallOK(c)
    BY <1>1
  <2> QED
    BY <2>1, <2>2 DEF CallOK, CallIn
<1>5. /\ Len(f.args) + Len(f.wants) = Len(takes)
      /\ \A j \in DOMAIN f.args : f.args[j] # 0 => binding[takes[j]].instance = f.args[j]
  BY <1>1, <1>2 DEF CallOK, CallIn
<1>6. /\ c.args \in Seq(Nat) /\ c.wants \in Seq(Ioc!AllKeys) /\ f.args \in Seq(Nat)
      /\ f.wants = << >>
  BY <1>1 DEF Calls
<1>7. /\ Len(c.args) \in Nat /\ Len(c.wants) \in Nat /\ Len(c.wants) > 0 /\ 1 \in DOMAIN c.wants
      /\ Head(c.wants) = c.wants[1] /\ DOMAIN f.args = 1 .. Len(f.args) /\ Len(f.wants) = 0
      /\ Len(f.args) \in Nat
  BY <1>2, <1>6
<1> PICK j \in Nat : j = Len(c.args) + 1
  BY <1>7
<1>8. takes[j] = h
  BY <1>2, <1>4, <1>7
<1>9. j \in DOMAIN f.args
  <2>1. \A a, w, b \in Nat : a + w = b + 0 /\ w > 0 => a + 1 \in 1 .. b
    OBVIOUS
  <2>2. Len(c.args) + Len(c.wants) = Len(f.args) + 0
    BY <1>4, <1>5, <1>7
  <2> QED
    BY <1>7, <2>1, <2>2
<1>10. f.args[j] # 0
  BY <1>7, <1>9 DEF Ioc!CanCall, Ioc!Fits
<1> QED
  BY <1>3, <1>5, <1>8, <1>9, <1>10

\* The resolver gets the instances it takes, and its key the instance it makes.
LEMMA InvokeStep ==
  ASSUME ContainerInv, Ioc!Invoke
  PROVE  ContainerInv'
<1> USE DEF ContainerInv, Ioc!Nil
<1> PICK f : f = Ioc!Top
  OBVIOUS
<1> PICK r : r = binding[f.key].resolver
  OBVIOUS
<1> PICK n : n = IF r \in ReturnsNil THEN 0 ELSE Len(made) + 1
  OBVIOUS
<1> PICK x : x = [resolver |-> r, args |-> f.args]
  OBVIOUS
<1> PICK s : s = Ioc!SE!Front(stack)
  OBVIOUS
<1>1. /\ stack # << >> /\ f.wants = << >> /\ f.key # "request" /\ Ioc!CanCall
      /\ made' = IF n = 0 THEN made ELSE Append(made, x)
      /\ binding' = [binding EXCEPT ![f.key].instance = n]
      /\ stack' = Ioc!Returned(s, n) /\ retired' = retired
  BY DEF Ioc!Invoke, Ioc!Done, Ioc!Root
<1>2. /\ stack \in Seq(Calls) /\ Len(stack) \in Nat /\ DOMAIN stack = 1 .. Len(stack)
      /\ Len(stack) \in DOMAIN stack /\ f = stack[Len(stack)] /\ f \in Calls /\ CallOK(f)
      /\ made \in Seq(Instances) /\ Len(made) \in Nat /\ DOMAIN made = 1 .. Len(made)
  BY <1>1 DEF ContainerTypes, Ioc!Top
<1>3. /\ f.key \in Ioc!AllKeys /\ Ioc!Bound(f.key) /\ binding[f.key].instance = 0
      /\ r \in Resolvers
  <2>1. f.key \in Ioc!AllKeys /\ Ioc!Bound(f.key) /\ binding[f.key].instance = 0
    BY <1>1, <1>2 DEF CallOK, CallIn, Calls, Ioc!Bound
  <2> QED
    BY <2>1 DEF HasInstances
<1>4. /\ x \in Instances /\ x.resolver = r /\ x.args = f.args
  BY <1>2, <1>3 DEF Instances, Calls
<1>5. /\ made' \in Seq(Instances) /\ Len(made') \in Nat /\ Len(made) <= Len(made')
      /\ n \in 0 .. Len(made') /\ DOMAIN made' = 1 .. Len(made')
      /\ \A m \in DOMAIN made : made'[m] = made[m]
      /\ \A m \in DOMAIN made' : m \notin DOMAIN made => m = n /\ made'[m] = x
      /\ n # 0 => n \in DOMAIN made' /\ made'[n] = x
  <2>1. CASE n = 0
    BY <1>1, <1>2, <2>1
  <2>2. CASE n # 0
    <3>1. n = Len(made) + 1 /\ made' = Append(made, x)
      BY <1>1, <2>2
    <3>2. /\ Append(made, x) \in Seq(Instances)
          /\ DOMAIN Append(made, x) = 1 .. Len(made) + 1
          /\ \A i \in DOMAIN made : Append(made, x)[i] = made[i]
          /\ Append(made, x)[Len(made) + 1] = x
      BY <1>2, <1>4, Appended
    <3>3. Len(made') = Len(made) + 1
      BY <1>2, <1>4, <3>1
    <3> PICK a \in Nat : a = Len(made)
      BY <1>2
    <3>4. /\ DOMAIN made = 1 .. a /\ DOMAIN made' = 1 .. a + 1 /\ n = a + 1 /\ Len(made') = a + 1
          /\ \A i \in 1 .. a : made'[i] = made[i]
          /\ made'[a + 1] = x /\ made' \in Seq(Instances)
      BY <1>2, <3>1, <3>2, <3>3
    <3>5. a + 1 \in Nat /\ a <= a + 1 /\ \A i \in 1 .. a + 1 : i \notin 1 .. a => i = a + 1
      OBVIOUS
    <3> QED
      BY <3>4, <3>5
  <2> QED
    BY <2>1, <2>2
<1>6. /\ binding' \in [Ioc!AllKeys -> Bindings]
      /\ \A k \in Ioc!AllKeys : k # f.key => binding'[k] = binding[k]
      /\ binding'[f.key].instance = n /\ binding'[f.key].resolver = r
  <2>1. binding \in [Ioc!AllKeys -> Bindings] /\ n \in Nat
    BY <1>5 DEF ContainerTypes
  <2> QED
    BY <1>1, <1>3, <2>1 DEF Bindings
<1> PICK l : l = Len(stack) - 1
  OBVIOUS
<1>7. /\ l \in Nat /\ l >= 1 /\ Len(stack) = l + 1 /\ l \in DOMAIN stack
      /\ stack[l].wants # << >> /\ Head(stack[l].wants) = f.key
  <2>1. Len(stack) # 1
    BY <1>1, <1>2 DEF Nested
  <2>2. l \in Nat /\ l >= 1 /\ Len(stack) = l + 1 /\ l \in DOMAIN stack
    BY <1>2, <2>1
  <2> QED
    BY <1>2, <2>2 DEF Nested
<1>8. /\ s \in Seq(Calls) /\ Len(s) = l /\ DOMAIN s = 1 .. l
      /\ \A i \in 1 .. l : s[i] = stack[i]
  BY <1>2, <1>7 DEF Ioc!SE!Front
<1> PICK g : g = [key |-> stack[l].key, wants |-> Tail(stack[l].wants),
                 args |-> Append(stack[l].args, n)]
  OBVIOUS
<1>9. /\ stack' \in Seq(Calls) /\ DOMAIN stack' = 1 .. l /\ Len(stack') = l
      /\ \A i \in 1 .. l : i # l => stack'[i] = stack[i]
      /\ stack'[l] = g
  <2>1. s # << >> /\ s[Len(s)] = stack[l] /\ n \in Nat /\ l \in 1 .. l
    BY <1>5, <1>7, <1>8
  <2>2. /\ Ioc!Returned(s, n) \in Seq(Calls) /\ Len(Ioc!Returned(s, n)) = Len(s)
        /\ DOMAIN Ioc!Returned(s, n) = DOMAIN s
        /\ \A i \in DOMAIN s : i # Len(s) => Ioc!Returned(s, n)[i] = s[i]
        /\ Ioc!Returned(s, n)[Len(s)] =
              [key |-> s[Len(s)].key, wants |-> Tail(s[Len(s)].wants),
               args |-> Append(s[Len(s)].args, n)]
    BY <1>7, <1>8, <2>1, Returning
  <2> QED
    BY <1>1, <1>8, <2>1, <2>2
<1>10. ContainerTypes' /\ HasInstances'
  <2>1. retired' \subseteq 1 .. Len(made')
    BY <1>1, <1>2, <1>5 DEF ContainerTypes
  <2>2. ASSUME NEW k \in Ioc!AllKeys
        PROVE  /\ binding'[k].instance \in 0 .. Len(made')
               /\ binding'[k].instance # 0 =>
                    made'[binding'[k].instance].resolver = binding'[k].resolver
               /\ binding'[k] # Ioc!Unbound => binding'[k].resolver \in Resolvers
    <3>1. CASE k = f.key
      BY <1>3, <1>4, <1>5, <1>6, <3>1
    <3>2. CASE k # f.key
      <4>1. binding'[k] = binding[k] /\ binding[k].instance \in 0 .. Len(made)
        BY <1>6, <3>2 DEF HasInstances
      <4>2. binding[k].instance # 0 => binding[k].instance \in DOMAIN made
        BY <1>2, <4>1
      <4> QED
        BY <1>2, <1>5, <4>1, <4>2 DEF HasInstances, Ioc!Bound
    <3> QED
      BY <3>1, <3>2
  <2>3. HasInstances'
    BY <2>2 DEF HasInstances, Ioc!Bound
  <2> QED
    BY <1>5, <1>6, <1>9, <2>1, <2>3 DEF ContainerTypes
\* What the new instance changes for a call below that is for another key.
<1>11. ASSUME NEW d \in Calls, d.key # f.key, CallOK(d) PROVE CallIn(d, binding', Len(made'))
  <2> PICK takes : takes = Ins[binding[d.key].resolver]
    OBVIOUS
  <2>1. \A j \in DOMAIN d.args : d.args[j] <= Len(made) /\ d.args[j] \in Nat
    BY <1>11 DEF CallOK, CallIn, Calls
  <2>2. \A j \in DOMAIN d.args : d.args[j] <= Len(made')
    BY <1>2, <1>5, <2>1
  <2>3. ASSUME d.key # "request"
        PROVE  /\ binding'[d.key] # Ioc!Unbound /\ binding'[d.key].instance = 0
               /\ Ins[binding'[d.key].resolver] = takes
               /\ Len(d.args) + Len(d.wants) = Len(takes)
               /\ \A j \in DOMAIN d.wants : d.wants[j] = takes[Len(d.args) + j]
               /\ \A j \in DOMAIN d.args :
                    d.args[j] # 0 => binding'[takes[j]].instance = d.args[j]
    <3>1. d.key \in Ioc!AllKeys
      BY <2>3 DEF Calls
    <3>2. binding'[d.key] = binding[d.key]
      BY <1>6, <1>11, <3>1
    <3>3. /\ Ioc!Bound(d.key) /\ binding[d.key].instance = 0
          /\ Len(d.args) + Len(d.wants) = Len(takes)
          /\ \A j \in DOMAIN d.wants : d.wants[j] = takes[Len(d.args) + j]
          /\ \A j \in DOMAIN d.args : d.args[j] # 0 => binding[takes[j]].instance = d.args[j]
      BY <1>11, <2>3 DEF CallOK, CallIn, Ioc!Bound
    <3>4. ASSUME NEW j \in DOMAIN d.args, d.args[j] # 0
          PROVE  binding'[takes[j]].instance = d.args[j]
      <4>1. takes \in Seq(Ioc!AllKeys)
        BY <3>1, <3>3, StructuresAssumption DEF HasInstances, Ioc!AllKeys
      <4>2. j \in DOMAIN takes
        <5>1. d.args \in Seq(Nat) /\ d.wants \in Seq(Ioc!AllKeys)
          BY DEF Calls
        <5>2. Len(d.args) \in Nat /\ Len(d.wants) \in Nat /\ j \in 1 .. Len(d.args)
          BY <3>4, <5>1
        <5>4. DOMAIN takes = 1 .. Len(takes)
          BY <4>1
        <5>3. \A a, w \in Nat : j \in 1 .. a => j \in 1 .. a + w
          OBVIOUS
        <5> QED
          BY <3>3, <5>2, <5>3, <5>4
      <4>3. takes[j] \in Ioc!AllKeys /\ takes[j] # f.key
        BY <1>3, <3>3, <3>4, <4>1, <4>2
      <4> QED
        BY <1>6, <3>3, <3>4, <4>3
    <3> QED
      BY <3>2, <3>3, <3>4 DEF Ioc!Bound
  <2> QED
    BY <2>2, <2>3 DEF CallIn
<1>12. ASSUME NEW i \in DOMAIN stack' PROVE CallOK(stack[i])'
  <2> PICK c : c = stack[i]
    OBVIOUS
  <2>1. i \in DOMAIN stack /\ i # Len(stack) /\ i \in 1 .. l
    BY <1>2, <1>7, <1>9
  <2>2. c \in Calls /\ CallOK(c) /\ c.key # f.key
    BY <1>1, <1>2, <2>1, CalledOnce
  <2>3. CallIn(c, binding', Len(made'))
    BY <1>11, <2>2
  <2>4. CallIn(stack'[i], binding', Len(made'))
    <3>1. CASE i # l
      BY <1>9, <2>1, <2>3, <3>1
    <3>2. CASE i = l
      <4>1. c.wants # << >> /\ Head(c.wants) = f.key /\ binding'[Head(c.wants)].instance = n
        BY <1>6, <1>7, <3>2
      <4> PICK b : b = binding'
        OBVIOUS
      <4> PICK m \in Nat : m = Len(made')
        BY <1>5
      <4>2. n \in 0 .. m /\ CallIn(c, b, m) /\ (n # 0 => b[Head(c.wants)].instance = n)
        BY <1>5, <2>3, <4>1
      <4>3. CallIn([key |-> c.key, wants |-> Tail(c.wants), args |-> Append(c.args, n)], b, m)
        BY <2>2, <4>1, <4>2, GotWanted
      <4> QED
        BY <1>9, <3>2, <4>3
    <3> QED
      BY <3>1, <3>2
  <2> QED
    BY <2>4 DEF CallOK
<1>13. Nested'
  <2>1. g.key = stack[l].key
    OBVIOUS
  <2>2. \A i \in 1 .. l : stack'[i].key = stack[i].key
    BY <1>9, <2>1
  <2> SUFFICES ASSUME NEW i \in 1 .. l
               PROVE  /\ i = 1 <=> stack'[i].key = "request"
                      /\ i + 1 \in 1 .. l =>
                           stack'[i].wants # << >> /\ Head(stack'[i].wants) = stack'[i + 1].key
    BY <1>9 DEF Nested
  <2>3. i \in DOMAIN stack
    BY <1>2, <1>7
  <2>4. i + 1 \in 1 .. l => i + 1 \in DOMAIN stack /\ i # l
    BY <1>2, <1>7
  <2> QED
    BY <1>9, <2>2, <2>3, <2>4 DEF Nested
<1>14. ASSUME NEW m \in DOMAIN made' PROVE GivenArgs(m)'
  <2>1. CASE m \in DOMAIN made
    <3>1. made'[m] = made[m] /\ made[m] \in Instances /\ GivenArgs(m)
      BY <1>2, <1>5, <2>1
    <3>2. ASSUME NEW i \in DOMAIN made[m].args
          PROVE  LET d == made[m].args[i]  t == Ins[made[m].resolver][i] IN
                 /\ d \in 1 .. Len(made') /\ d # 0 /\ Head(Outs[made'[d].resolver]) = t
                 /\ d \in retired' \/ binding'[t].instance = d
      <4> PICK d, t : d = made[m].args[i] /\ t = Ins[made[m].resolver][i]
        OBVIOUS
      <4>1. d \in 1 .. Len(made) /\ Ioc!Fits(d, t) /\ (d \in retired \/ binding[t].instance = d)
        BY <3>1 DEF GivenArgs
      <4>2. d \in DOMAIN made /\ made'[d] = made[d] /\ d \in 1 .. Len(made') /\ d # 0
        BY <1>2, <1>5, <4>1
      <4>3. t \in Ioc!AllKeys
        BY <3>1, StructuresAssumption DEF GivenArgs, Instances, Ioc!AllKeys
      <4>4. binding[t].instance = d => binding'[t].instance = d
        BY <1>3, <1>6, <4>2, <4>3
      <4>5. d # 0 /\ Head(Outs[made'[d].resolver]) = t
        BY <4>1, <4>2 DEF Ioc!Fits
      <4> QED
        BY <1>1, <4>1, <4>2, <4>4, <4>5
    <3> QED
      BY <3>1, <3>2, Zenon DEF GivenArgs, Ioc!Fits
  <2>2. CASE m \notin DOMAIN made
    <3> PICK takes : takes = Ins[r]
      OBVIOUS
    <3>1. made'[m] = x /\ takes \in Seq(Types)
      BY <1>3, <1>5, <2>2, StructuresAssumption
    <3>2. /\ Len(f.args) + Len(f.wants) = Len(takes)
          /\ \A i \in DOMAIN f.args : f.args[i] # 0 => binding[takes[i]].instance = f.args[i]
          /\ \A i \in DOMAIN f.args : f.args[i] <= Len(made)
      BY <1>1, <1>2 DEF CallOK, CallIn
    <3>3. /\ f.args \in Seq(Nat) /\ Len(f.wants) = 0 /\ Len(f.args) \in Nat
          /\ DOMAIN f.args = 1 .. Len(f.args)
      BY <1>1, <1>2 DEF Calls
    <3>4. Len(f.args) = Len(takes) /\ DOMAIN takes = DOMAIN f.args
      BY <3>1, <3>2, <3>3
    <3>5. ASSUME NEW i \in DOMAIN f.args
          PROVE  LET d == f.args[i]  t == takes[i] IN
                 /\ d \in 1 .. Len(made') /\ d # 0 /\ Head(Outs[made'[d].resolver]) = t
                 /\ d \in retired' \/ binding'[t].instance = d
      <4> PICK d, t : d = f.args[i] /\ t = takes[i]
        OBVIOUS
      <4>1. Ioc!Fits(d, t)
        BY <1>1, <3>3 DEF Ioc!CanCall
      <4>2. d # 0 /\ d <= Len(made) /\ binding[t].instance = d
        BY <3>2, <4>1 DEF Ioc!Fits
      <4>7. d \in Nat
        BY <3>3
      <4>8. d \in DOMAIN made /\ d \in 1 .. Len(made')
        <5>1. \A a, b \in Nat : d <= a /\ a <= b => d \in 1 .. a /\ d \in 1 .. b
          BY <4>2, <4>7
        <5> QED
          BY <1>2, <1>5, <4>2, <5>1
      <4>3. d \in DOMAIN made /\ made'[d] = made[d] /\ d \in 1 .. Len(made')
        BY <1>5, <4>8
      <4>4. t \in Ioc!AllKeys
        BY <3>1, <3>4 DEF Ioc!AllKeys
      <4>5. binding'[t].instance = d
        BY <1>3, <1>6, <4>2, <4>4
      <4>6. d # 0 /\ Head(Outs[made'[d].resolver]) = t
        BY <4>1, <4>3 DEF Ioc!Fits
      <4> QED
        BY <4>3, <4>5, <4>6
    <3>6. made'[m].args = f.args /\ Ins[made'[m].resolver] = takes
      BY <1>4, <3>1
    <3> QED
      BY <3>4, <3>5, <3>6 DEF GivenArgs, Ioc!Fits
  <2> QED
    BY <2>1, <2>2
<1> QED
  BY <1>10, <1>12, <1>13, <1>14

LEMMA ContainerStep ==
  ASSUME ContainerInv, [Ioc!Next]_containerVars
  PROVE  ContainerInv'
<1>1. Ioc!Unbound \in Bindings /\ Ioc!Unbound.instance = 0
  BY DEF Bindings, Ioc!Unbound, Ioc!Nil
<1>2. ASSUME NEW r \in Resolvers
      PROVE  LET to == [resolver |-> r, instance |-> 0] IN
             to \in Bindings /\ to.instance = 0 /\ to.resolver \in Resolvers
  BY DEF Bindings
<1>3. ASSUME NEW r \in Resolvers, Ioc!Singleton(r) PROVE ContainerInv'
  <2>1. Ioc!SE!ToSet(Outs[r]) \subseteq Ioc!AllKeys
    BY StructuresAssumption DEF Ioc!SE!ToSet, Ioc!AllKeys
  <2> QED
    BY <1>2, <1>3, <2>1, RebindStep DEF Ioc!Singleton, Ioc!Nil
<1>4. ASSUME NEW r \in Resolvers, NEW id \in Ids, Ioc!RegisterSingleton(id, r)
      PROVE  ContainerInv'
  BY <1>2, <1>4, RebindStep DEF Ioc!RegisterSingleton, Ioc!Nil, Ioc!AllKeys
<1>5. ASSUME NEW t \in Types, Ioc!RemoveByType(t) PROVE ContainerInv'
  BY <1>1, <1>5, RebindStep DEF Ioc!RemoveByType, Ioc!AllKeys
<1>6. ASSUME Ioc!Reset PROVE ContainerInv'
  BY <1>1, <1>6, RebindStep DEF Ioc!Reset
<1>7. ASSUME NEW keys \in Requests, Ioc!Request(keys) PROVE ContainerInv'
  BY <1>7, RequestStep
<1>8. ASSUME Ioc!NotFound \/ Ioc!Panic \/ Ioc!Return PROVE ContainerInv'
  BY <1>8, NoCall DEF Ioc!NotFound, Ioc!Panic, Ioc!Return
<1>9. ASSUME Ioc!Resolve PROVE ContainerInv'
  BY <1>9, ResolveStep
<1>10. ASSUME Ioc!Invoke PROVE ContainerInv'
  BY <1>10, InvokeStep
<1>11. ASSUME UNCHANGED containerVars PROVE ContainerInv'
  <2>1. UNCHANGED <<binding, stack, made, retired>>
    BY <1>11 DEF containerVars
  <2>2. ContainerTypes' /\ HasInstances' /\ Nested'
    BY <2>1 DEF ContainerInv, ContainerTypes, HasInstances, Nested, Ioc!Bound
  <2>3. ASSUME NEW n \in DOMAIN made' PROVE GivenArgs(n)'
    BY <2>1 DEF ContainerInv, GivenArgs, Ioc!Fits
  <2>4. ASSUME NEW i \in DOMAIN stack' PROVE CallOK(stack[i])'
    BY <2>1 DEF ContainerInv, CallOK, CallIn
  <2> QED
    BY <2>2, <2>3, <2>4 DEF ContainerInv
<1> QED
  BY <1>3, <1>4, <1>5, <1>6, <1>7, <1>8, <1>9, <1>10, <1>11 DEF Ioc!Next

\* What an instance was given, and the instance of a key, are as OneInstance says.
LEMMA SharesInstances == ContainerInv => Ioc!OneInstance /\ Ioc!TypeOK
<1> SUFFICES ASSUME ContainerInv PROVE Ioc!OneInstance /\ Ioc!TypeOK
  OBVIOUS
<1> USE DEF ContainerInv, Ioc!Nil
<1>1. /\ made \in Seq(Instances) /\ stack \in Seq(Calls)
      /\ DOMAIN made = 1 .. Len(made) /\ DOMAIN stack = 1 .. Len(stack)
  BY DEF ContainerTypes
<1>2. Ioc!OneInstance
  BY <1>1 DEF GivenArgs, HasInstances, Ioc!OneInstance
<1>3. ASSUME NEW i \in 1 .. Len(stack)
      PROVE  /\ stack[i].key \in Ioc!AllKeys \cup {Ioc!Root}
             /\ Ioc!SE!ToSet(stack[i].wants) \subseteq Ioc!AllKeys
             /\ Ioc!SE!ToSet(stack[i].args) \subseteq 0 .. Len(made)
  <2> PICK f \in Calls : f = stack[i]
    BY <1>1
  <2>1. f.key \in Ioc!AllKeys \cup {"request"} /\ f.wants \in Seq(Ioc!AllKeys) /\ f.args \in Seq(Nat)
    BY DEF Calls
  <2>2. \A j \in DOMAIN f.args : f.args[j] <= Len(made)
    BY <1>1 DEF CallOK, CallIn
  <2>3. Len(made) \in Nat
    BY <1>1
  <2>4. Ioc!SE!ToSet(f.args) \subseteq 0 .. Len(made)
    BY <2>1, <2>2, <2>3 DEF Ioc!SE!ToSet
  <2>5. Ioc!SE!ToSet(f.wants) \subseteq Ioc!AllKeys
    BY <2>1 DEF Ioc!SE!ToSet
  <2> QED
    BY <2>1, <2>4, <2>5 DEF Ioc!Root
<1>4. Ioc!TypeOK
  BY <1>3 DEF ContainerTypes, HasInstances, Ioc!TypeOK
<1> QED
  BY <1>2, <1>4

-----------------------------------------------------------------------------
(* SafeQueue *)

Amounts == {"idle", "+1", "-1", "dead"}
Idle    == \A c \in Callers : queuePc[c] = "idle"

QueueTypes ==
  /\ head \in Nat /\ tail \in Nat /\ added \in 0 .. MaxElements
  /\ next \in [Queue!Elements -> Nat] /\ queueSize \in Int
  /\ queuePc \in [Callers -> Amounts] /\ held \in BOOLEAN
  /\ taken \in Seq(Nat) /\ overlapped \in BOOLEAN

\* Whatever overlaps: the tail is the last element, a node is linked to the element after
\* it if to any, and what was taken went in before the head.
Forward ==
  /\ tail = added /\ head <= added
  /\ \A e \in Queue!Elements : next[e] # 0 => next[e] = e + 1 /\ e + 1 <= added
  /\ \A i \in DOMAIN taken : 1 <= taken[i] /\ taken[i] <= added /\ (head # 0 => taken[i] < head)
  /\ \A i, j \in DOMAIN taken : i < j => taken[i] < taken[j]

\* Without overlapping calls: the elements that are not taken are linked from the head on,
\* and the size is theirs but for the call in progress.
InTurn ==
  /\ ~held /\ \A c \in Callers : queuePc[c] # "dead"
  /\ \A c, d \in Callers : queuePc[c] # "idle" /\ queuePc[d] # "idle" => c = d
  /\ \A i \in DOMAIN taken : taken[i] = i
  /\ Len(taken) <= added
  /\ Len(taken) < added => head = Len(taken) + 1
  /\ \A e \in Queue!Elements : Len(taken) < e /\ e < added => next[e] = e + 1
  /\ Idle => queueSize = added - Len(taken)
  /\ \A c \in Callers : queuePc[c] = "+1" => queueSize + 1 = added - Len(taken)
  /\ \A c \in Callers : queuePc[c] = "-1" => queueSize - 1 = added - Len(taken)

QueueInv == QueueTypes /\ Forward /\ (~overlapped => InTurn)

LEMMA QueueInit == Queue!NewSafeQueue => QueueInv
<1> SUFFICES ASSUME Queue!NewSafeQueue PROVE QueueInv
  OBVIOUS
<1>1. /\ head = 0 /\ tail = 0 /\ queueSize = 0 /\ added = 0 /\ taken = << >>
      /\ next = [e \in Queue!Elements |-> 0] /\ queuePc = [c \in Callers |-> "idle"]
  BY DEF Queue!NewSafeQueue, Queue!Nil
<1>6. held \in BOOLEAN /\ overlapped \in BOOLEAN /\ ~held
  BY Zenon DEF Queue!NewSafeQueue
<1>2. DOMAIN taken = {} /\ Len(taken) = 0 /\ taken \in Seq(Nat)
  BY <1>1
<1>3. QueueTypes
  <2>1. next \in [Queue!Elements -> Nat] /\ queuePc \in [Callers -> Amounts]
    BY <1>1 DEF Amounts
  <2>2. added \in 0 .. MaxElements
    BY <1>1, StructuresAssumption
  <2> QED
    BY <1>1, <1>2, <1>6, <2>1, <2>2 DEF QueueTypes
<1>4. Forward
  BY <1>1, <1>2 DEF Forward
<1>5. InTurn
  <2>1. \A c \in Callers : queuePc[c] = "idle"
    BY <1>1
  <2>2. \A e \in Queue!Elements : e > 0 /\ e \in Int
    BY DEF Queue!Elements
  <2>3. added = 0 /\ queueSize = 0 - 0 /\ Len(taken) = 0 /\ DOMAIN taken = {}
    BY <1>1, <1>2
  <2>4. ~held
    BY <1>6
  <2> QED
    BY <2>1, <2>2, <2>3, <2>4 DEF InTurn, Idle
<1> QED
  BY <1>3, <1>4, <1>5 DEF QueueInv

\* What Begin says of the call.
LEMMA Begins ==
  ASSUME QueueInv, NEW c \in Callers, NEW a \in Amounts \ {"idle"}, Queue!Begin(c, a)
  PROVE  /\ queuePc' \in [Callers -> Amounts] /\ queuePc'[c] = a /\ overlapped' \in BOOLEAN
         /\ \A d \in Callers : d # c => queuePc'[d] = queuePc[d]
         /\ ~overlapped' => ~overlapped /\ InTurn /\ Idle /\ queueSize = added - Len(taken)
<1>1. queuePc' = [queuePc EXCEPT ![c] = a]
  BY DEF Queue!Begin
<1>2. queuePc' \in [Callers -> Amounts] /\ queuePc'[c] = a
  BY <1>1 DEF QueueInv, QueueTypes
<1>3. \A d \in Callers : d # c => queuePc'[d] = queuePc[d]
  BY <1>1 DEF QueueInv, QueueTypes
<1>4. overlapped' = (overlapped \/ \E d \in Callers : queuePc[d] # "idle")
  BY DEF Queue!Begin
<1>5. overlapped' \in BOOLEAN
  BY <1>4, Zenon
<1>6. ~overlapped' => ~overlapped /\ Idle
  BY <1>4, Zenon DEF Idle
<1>7. ~overlapped' => InTurn
  BY <1>6, Zenon DEF QueueInv
<1>8. InTurn /\ Idle => queueSize = added - Len(taken)
  BY DEF InTurn
<1> QED
  BY <1>2, <1>3, <1>5, <1>6, <1>7, <1>8, Zenon

LEMMA EnqueueStep ==
  ASSUME QueueInv, NEW c \in Callers, Queue!Enqueue(c)
  PROVE  QueueInv'
<1> PICK e : e = added + 1
  OBVIOUS
<1> PICK n : n = Len(taken)
  OBVIOUS
<1>1. /\ queuePc' \in [Callers -> Amounts] /\ queuePc'[c] = "+1" /\ overlapped' \in BOOLEAN
      /\ \A d \in Callers : d # c => queuePc'[d] = queuePc[d]
      /\ ~overlapped' => ~overlapped /\ InTurn /\ Idle /\ queueSize = added - n
  BY Begins DEF Queue!Enqueue, Amounts
<1>2. /\ added < MaxElements /\ added' = e /\ tail' = e
      /\ \/ queueSize = 0 /\ head' = e /\ next' = next
         \/ queueSize # 0 /\ next' = [next EXCEPT ![tail] = e] /\ head' = head
      /\ UNCHANGED <<queueSize, held, taken>>
  BY DEF Queue!Enqueue
<1>3. /\ added \in Nat /\ e \in Nat /\ e = added + 1 /\ e <= MaxElements /\ MaxElements \in Nat
      /\ head \in Nat /\ next \in [Queue!Elements -> Nat] /\ n \in Nat /\ queueSize \in Int
  BY <1>2, StructuresAssumption DEF QueueInv, QueueTypes
<1>4. next' \in [Queue!Elements -> Nat]
  BY <1>2, <1>3
<1>5. QueueTypes'
  BY <1>1, <1>2, <1>3, <1>4 DEF QueueInv, QueueTypes
<1>6. Forward'
  <2>1. tail = added /\ head <= added
    BY DEF QueueInv, Forward
  <2>2. \A i \in DOMAIN taken : 1 <= taken[i] /\ taken[i] <= added /\ (head # 0 => taken[i] < head)
    BY DEF QueueInv, Forward
  <2>3. \A i, j \in DOMAIN taken : i < j => taken[i] < taken[j]
    BY DEF QueueInv, Forward
  <2>4. \A i \in DOMAIN taken : taken[i] \in Nat
    BY DEF QueueInv, QueueTypes
  <2>5. \A i \in DOMAIN taken' :
          1 <= taken'[i] /\ taken'[i] <= added' /\ (head' # 0 => taken'[i] < head')
    BY <1>2, <1>3, <2>2, <2>4
  <2>6. ASSUME NEW x \in Queue!Elements, next'[x] # 0
        PROVE  next'[x] = x + 1 /\ x + 1 <= added'
    <3>1. next[x] # 0 => next[x] = x + 1 /\ x + 1 <= added
      BY DEF QueueInv, Forward
    <3>2. CASE next'[x] = next[x]
      BY <1>2, <1>3, <2>6, <3>1, <3>2 DEF Queue!Elements
    <3>3. CASE next'[x] # next[x]
      BY <1>2, <1>3, <2>1, <3>3 DEF Queue!Elements
    <3> QED
      BY <3>2, <3>3
  <2> QED
    BY <1>2, <1>3, <2>1, <2>3, <2>5, <2>6 DEF Forward
<1>7. ASSUME ~overlapped' PROVE InTurn'
  <2>1. InTurn /\ Idle /\ queueSize = added - n
    BY <1>1, <1>7
  <2>2. n <= added /\ (n < added => head = n + 1)
    BY <2>1 DEF InTurn
  <2>3. ~held' /\ \A d \in Callers : d # c => queuePc'[d] = "idle"
    BY <1>1, <1>2, <2>1 DEF InTurn, Idle
  <2>4. n < e /\ (queueSize = 0 => added = n) /\ (queueSize # 0 => n < added)
    BY <1>3, <2>1, <2>2
  <2>5. head' = n + 1
    BY <1>2, <2>2, <2>4
  <2>6. ASSUME NEW x \in Queue!Elements, n < x, x < e PROVE next'[x] = x + 1
    <3>1. CASE x < added
      <4>1. next[x] = x + 1
        BY <2>1, <2>6, <3>1 DEF InTurn
      <4>2. tail = added /\ x # added
        BY <1>3, <3>1 DEF QueueInv, Forward, Queue!Elements
      <4> QED
        BY <1>2, <1>3, <4>1, <4>2
    <3>2. CASE x = added
      <4>1. tail = added /\ queueSize # 0
        BY <1>3, <2>1, <2>6, <3>2 DEF QueueInv, Forward
      <4> QED
        BY <1>2, <1>3, <3>2, <4>1
    <3> QED
      BY <1>3, <2>6, <3>1, <3>2 DEF Queue!Elements
  <2>7. queueSize + 1 = e - n
    BY <1>3, <2>1
  <2>8. ~Idle'
    BY <1>1 DEF Idle
  <2>9. \A d \in Callers : queuePc'[d] \notin {"dead", "-1"}
    BY <1>1, <2>3
  <2>10. \A i \in DOMAIN taken' : taken'[i] = i
    BY <1>2, <2>1 DEF InTurn
  <2>11. \A d1, d2 \in Callers : queuePc'[d1] # "idle" /\ queuePc'[d2] # "idle" => d1 = d2
    BY <2>3
  <2>12. Len(taken') = n /\ added' = e /\ queueSize' = queueSize /\ n <= e
    BY <1>2, <1>3, <2>4
  <2> QED
    BY <2>3, <2>5, <2>6, <2>7, <2>8, <2>9, <2>10, <2>11, <2>12 DEF InTurn
<1> QED
  BY <1>5, <1>6, <1>7 DEF QueueInv

LEMMA DequeueStep ==
  ASSUME QueueInv, NEW c \in Callers, Queue!Dequeue(c)
  PROVE  QueueInv'
<1> PICK h : h = head
  OBVIOUS
<1> PICK n : n = Len(taken)
  OBVIOUS
<1>1. /\ queuePc' \in [Callers -> Amounts] /\ queuePc'[c] = "-1" /\ overlapped' \in BOOLEAN
      /\ \A d \in Callers : d # c => queuePc'[d] = queuePc[d]
      /\ ~overlapped' => ~overlapped /\ InTurn /\ Idle /\ queueSize = added - n
  BY Begins DEF Queue!Dequeue, Amounts
<1>2. /\ queueSize # 0 /\ h # 0 /\ taken' = Append(taken, h) /\ head' = next[h]
      /\ UNCHANGED <<tail, next, queueSize, held, added>>
  BY DEF Queue!Dequeue, Queue!Nil
<1>3. /\ tail = added /\ h <= added
      /\ \A x \in Queue!Elements : next[x] # 0 => next[x] = x + 1 /\ x + 1 <= added
      /\ \A i \in DOMAIN taken : 1 <= taken[i] /\ taken[i] <= added /\ taken[i] < h
      /\ \A i, j \in DOMAIN taken : i < j => taken[i] < taken[j]
  BY <1>2 DEF QueueInv, Forward
<1>4. /\ added \in Nat /\ h \in Nat /\ added <= MaxElements /\ MaxElements \in Nat
      /\ next \in [Queue!Elements -> Nat] /\ queueSize \in Int
      /\ taken \in Seq(Nat)
  BY StructuresAssumption DEF QueueInv, QueueTypes
<1>5. /\ taken' \in Seq(Nat) /\ n \in Nat /\ DOMAIN taken = 1 .. n /\ DOMAIN taken' = 1 .. n + 1
      /\ \A i \in DOMAIN taken : taken'[i] = taken[i]
      /\ taken'[n + 1] = h
  BY <1>2, <1>4, Appended
<1>6. Len(taken') = n + 1
  BY <1>2, <1>4
<1>7. h \in Queue!Elements
  BY <1>2, <1>3, <1>4 DEF Queue!Elements
<1>8. head' \in Nat /\ (head' # 0 => head' = h + 1 /\ h + 1 <= added)
  BY <1>2, <1>3, <1>4, <1>7
<1>9. QueueTypes'
  BY <1>1, <1>2, <1>5, <1>8 DEF QueueInv, QueueTypes
<1>10. Forward'
  <2>1. head' <= added
    BY <1>4, <1>8
  <2>2. ASSUME NEW i \in 1 .. n + 1
        PROVE  1 <= taken'[i] /\ taken'[i] <= added /\ (head' # 0 => taken'[i] < head')
    <3>1. CASE i = n + 1
      BY <1>2, <1>3, <1>4, <1>5, <1>8, <3>1
    <3>2. CASE i # n + 1
      <4>1. i \in DOMAIN taken /\ taken'[i] = taken[i] /\ taken[i] \in Nat
        BY <1>4, <1>5, <3>2
      <4> QED
        BY <1>3, <1>4, <1>8, <4>1
    <3> QED
      BY <3>1, <3>2
  <2>3. ASSUME NEW i \in 1 .. n + 1, NEW j \in 1 .. n + 1, i < j
        PROVE  taken'[i] < taken'[j]
    <3>1. i \in DOMAIN taken /\ taken'[i] = taken[i]
      BY <1>5, <2>3
    <3>2. CASE j = n + 1
      BY <1>3, <1>5, <3>1, <3>2
    <3>3. CASE j # n + 1
      <4>1. j \in DOMAIN taken /\ taken'[j] = taken[j]
        BY <1>5, <3>3
      <4> QED
        BY <1>3, <2>3, <3>1, <4>1
    <3> QED
      BY <3>2, <3>3
  <2> QED
    BY <1>2, <1>3, <1>5, <2>1, <2>2, <2>3 DEF Forward
<1>11. ASSUME ~overlapped' PROVE InTurn'
  <2>1. InTurn /\ Idle /\ queueSize = added - n
    BY <1>1, <1>11
  <2>2. n < added /\ h = n + 1
    BY <1>2, <1>4, <1>5, <2>1 DEF InTurn
  <2>3. ~held' /\ \A d \in Callers : d # c => queuePc'[d] = "idle"
    BY <1>1, <1>2, <2>1 DEF InTurn, Idle
  <2>4. \A i \in DOMAIN taken' : taken'[i] = i
    BY <1>5, <2>1, <2>2 DEF InTurn
  <2>5. n + 1 <= added /\ (n + 1 < added => head' = (n + 1) + 1)
    <3>1. n + 1 < added => next[h] = h + 1
      BY <1>4, <1>5, <1>7, <2>1, <2>2 DEF InTurn
    <3> QED
      BY <1>2, <1>4, <1>5, <2>2, <3>1
  <2>6. \A x \in Queue!Elements : n + 1 < x /\ x < added => next[x] = x + 1
    BY <1>5, <2>1 DEF InTurn, Queue!Elements
  <2>7. queueSize - 1 = added - (n + 1)
    BY <1>4, <1>5, <2>1
  <2>8. ~Idle'
    BY <1>1 DEF Idle
  <2>9. \A d \in Callers : queuePc'[d] \notin {"dead", "+1"}
    BY <1>1, <2>3
  <2>10. \A d1, d2 \in Callers : queuePc'[d1] # "idle" /\ queuePc'[d2] # "idle" => d1 = d2
    BY <2>3
  <2> QED
    BY <1>2, <1>6, <2>3, <2>4, <2>5, <2>6, <2>7, <2>8, <2>9, <2>10 DEF InTurn
<1> QED
  BY <1>9, <1>10, <1>11 DEF QueueInv

LEMMA DequeuePanicsStep ==
  ASSUME QueueInv, NEW c \in Callers, Queue!DequeuePanics(c)
  PROVE  QueueInv'
<1>1. /\ queuePc' \in [Callers -> Amounts] /\ overlapped' \in BOOLEAN
      /\ ~overlapped' => InTurn /\ queueSize = added - Len(taken)
  BY Begins DEF Queue!DequeuePanics, Amounts
<1>2. /\ queueSize # 0 /\ head = 0 /\ held' = TRUE
      /\ UNCHANGED <<head, tail, next, queueSize, added, taken>>
  BY DEF Queue!DequeuePanics, Queue!Nil
<1>3. QueueTypes'
  BY <1>1, <1>2 DEF QueueInv, QueueTypes
<1>4. Forward'
  BY <1>2 DEF QueueInv, Forward
<1>5. overlapped'
  <2> SUFFICES ASSUME ~overlapped' PROVE FALSE
    OBVIOUS
  <2>1. /\ Len(taken) <= added /\ (Len(taken) < added => head = Len(taken) + 1)
        /\ queueSize = added - Len(taken)
    BY <1>1 DEF InTurn
  <2>2. Len(taken) \in Nat /\ added \in Nat
    BY DEF QueueInv, QueueTypes
  <2> QED
    BY <1>2, <2>1, <2>2
<1> QED
  BY <1>3, <1>4, <1>5 DEF QueueInv

LEMMA IncrSizeByStep ==
  ASSUME QueueInv, NEW c \in Callers, Queue!IncrSizeBy(c)
  PROVE  QueueInv'
<1>1. /\ queuePc[c] \in {"+1", "-1"}
      /\ queueSize' = IF queuePc[c] = "+1" THEN queueSize + 1 ELSE queueSize - 1
      /\ queuePc' = [queuePc EXCEPT ![c] = "idle"]
      /\ UNCHANGED <<head, tail, next, held, added, taken, overlapped>>
  BY DEF Queue!IncrSizeBy
<1>2. queuePc \in [Callers -> Amounts] /\ queueSize \in Int
  BY DEF QueueInv, QueueTypes
<1>3. queuePc' \in [Callers -> Amounts] /\ queueSize' \in Int
  BY <1>1, <1>2 DEF Amounts
<1>4. QueueTypes'
  BY <1>1, <1>3 DEF QueueInv, QueueTypes
<1>5. Forward'
  BY <1>1 DEF QueueInv, Forward
<1>6. ASSUME InTurn PROVE InTurn'
  <2>1. \A d \in Callers : queuePc'[d] = "idle"
    BY <1>1, <1>2, <1>6 DEF InTurn
  <2>2. queueSize' = added - Len(taken)
    BY <1>1, <1>6 DEF InTurn
  <2> QED
    BY <1>1, <1>6, <2>1, <2>2 DEF InTurn
<1> QED
  BY <1>1, <1>4, <1>5, <1>6, Zenon DEF QueueInv

LEMMA QueueStep ==
  ASSUME QueueInv, [Queue!Next]_queueVars
  PROVE  QueueInv'
<1>1. CASE Queue!Next
  BY <1>1, EnqueueStep, DequeueStep, DequeuePanicsStep, IncrSizeByStep DEF Queue!Next
<1>2. CASE UNCHANGED queueVars
  <2>1. UNCHANGED <<head, tail, next, queueSize, queuePc, held, added, taken, overlapped>>
    BY <1>2 DEF queueVars
  <2>2. QueueTypes' /\ Forward'
    BY <2>1 DEF QueueInv, QueueTypes, Forward
  <2>3. InTurn => InTurn'
    BY <2>1 DEF InTurn, Idle
  <2> QED
    BY <2>1, <2>2, <2>3, Zenon DEF QueueInv
<1> QED
  BY <1>1, <1>2

LEMMA TakenInOrder == QueueInv => Queue!FirstInFirstOut /\ Queue!TypeOK
<1> SUFFICES ASSUME QueueInv PROVE Queue!FirstInFirstOut /\ Queue!TypeOK
  OBVIOUS
<1>1. Queue!FirstInFirstOut
  <2>1. ASSUME ~overlapped
        PROVE  /\ ~held /\ \A i \in DOMAIN taken : taken[i] = i
               /\ (\A c \in Callers : queuePc[c] = "idle") =>
                    queueSize = added - Len(taken) /\ (queueSize > 0 => head = Len(taken) + 1)
    <3>1. InTurn
      BY <2>1, Zenon DEF QueueInv
    <3>2. Len(taken) \in Nat /\ added \in Nat
      BY DEF QueueInv, QueueTypes
    <3> QED
      BY <3>1, <3>2 DEF InTurn, Idle
  <2>2. \A i, j \in DOMAIN taken : i < j => taken[i] < taken[j]
    BY DEF QueueInv, Forward
  <2> QED
    BY <2>1, <2>2 DEF Queue!FirstInFirstOut
<1>2. Queue!TypeOK
  <2>1. \A x \in Nat : x <= added => x \in Queue!Elements \cup {0}
    BY StructuresAssumption DEF QueueInv, QueueTypes, Queue!Elements
  <2>2. head \in Queue!Elements \cup {0} /\ tail \in Queue!Elements \cup {0}
    BY <2>1 DEF QueueInv, QueueTypes, Forward
  <2>3. \A e \in Queue!Elements : next[e] \in Queue!Elements \cup {0}
    BY <2>1 DEF QueueInv, QueueTypes, Forward
  <2>4. taken \in Seq(Queue!Elements)
    <3>1. \A i \in DOMAIN taken : taken[i] \in Queue!Elements
      BY <2>1 DEF QueueInv, QueueTypes, Forward
    <3> QED
      BY <3>1 DEF QueueInv, QueueTypes
  <2> QED
    BY <2>2, <2>3, <2>4 DEF QueueInv, QueueTypes, Queue!TypeOK, Queue!Nil, Amounts
<1> QED
  BY <1>1, <1>2

-----------------------------------------------------------------------------
(* The containers beside each other *)

\* A step of AllNext is, for each container, one of its own or none.
LEMMA OneContainer ==
  ASSUME [AllNext]_<<cacheVars, structureVars>>
  PROVE  [Queue!Next]_queueVars /\ [Ioc!Next]_containerVars /\ [Migrate!Next]_migrationVars
<1>1. \/ UNCHANGED <<queueVars, containerVars, migrationVars>>
      \/ InQueue /\ \E c \in Callers : \/ Queue!Enqueue(c) \/ Queue!Dequeue(c)
                                       \/ Queue!DequeuePanics(c) \/ Queue!IncrSizeBy(c)
      \/ /\ InIoc
         /\ \/ \E r \in Resolvers : Ioc!Singleton(r) \/ \E id \in Ids : Ioc!RegisterSingleton(id, r)
            \/ \E t \in Types : Ioc!RemoveByType(t)
            \/ Ioc!Reset
            \/ \E keys \in Requests : Ioc!Request(keys)
            \/ Ioc!NotFound \/ Ioc!Resolve \/ Ioc!Invoke \/ Ioc!Panic \/ Ioc!Return
      \/ /\ InMigration
         /\ \/ \E v \in 1 .. LastVersion : Migrate!EditFile(v)
            \/ \E r \in Runs : \/ Migrate!Load(r) \/ Migrate!GetMigrations(r) \/ Migrate!Skip(r)
                               \/ Migrate!HashMismatch(r) \/ Migrate!ExecScript(r)
                               \/ Migrate!InsertRecord(r) \/ Migrate!InsertFails(r)
                               \/ Migrate!Commit(r) \/ Migrate!Crash(r)
  <2>1. CASE UNCHANGED <<cacheVars, structureVars>>
    BY <2>1 DEF structureVars
  <2>2. CASE CacheNext /\ UNCHANGED structureVars
    BY <2>2 DEF structureVars
  <2>3. CASE AllNext /\ ~(CacheNext /\ UNCHANGED structureVars)
    BY <2>3, Zenon DEF AllNext, InTrie, InList, InSlice
  <2> QED
    BY <2>1, <2>2, <2>3
<1>2. CASE UNCHANGED <<queueVars, containerVars, migrationVars>>
  BY <1>2
<1>3. CASE InQueue /\ \E c \in Callers : \/ Queue!Enqueue(c) \/ Queue!Dequeue(c)
                                         \/ Queue!DequeuePanics(c) \/ Queue!IncrSizeBy(c)
  <2>1. Queue!Next
    BY <1>3, Zenon DEF Queue!Next
  <2> QED
    BY <1>3, <2>1 DEF InQueue
<1>4. CASE /\ InIoc
           /\ \/ \E r \in Resolvers : Ioc!Singleton(r) \/ \E id \in Ids : Ioc!RegisterSingleton(id, r)
              \/ \E t \in Types : Ioc!RemoveByType(t)
              \/ Ioc!Reset
              \/ \E keys \in Requests : Ioc!Request(keys)
              \/ Ioc!NotFound \/ Ioc!Resolve \/ Ioc!Invoke \/ Ioc!Panic \/ Ioc!Return
  <2>1. Ioc!Next
    BY <1>4, Zenon DEF Ioc!Next
  <2> QED
    BY <1>4, <2>1 DEF InIoc
<1>5. CASE /\ InMigration
           /\ \/ \E v \in 1 .. LastVersion : Migrate!EditFile(v)
              \/ \E r \in Runs : \/ Migrate!Load(r) \/ Migrate!GetMigrations(r) \/ Migrate!Skip(r)
                                 \/ Migrate!HashMismatch(r) \/ Migrate!ExecScript(r)
                                 \/ Migrate!InsertRecord(r) \/ Migrate!InsertFails(r)
                                 \/ Migrate!Commit(r) \/ Migrate!Crash(r)
  <2>1. Migrate!Next
    BY <1>5, Zenon DEF Migrate!Next, Migrate!Versions
  <2> QED
    BY <1>5, <2>1 DEF InMigration
<1> QED
  BY <1>1, <1>2, <1>3, <1>4, <1>5, Zenon

ContainersInv == QueueInv /\ ContainerInv /\ MigrationInv

\* The invariants of the container, the safe queue and the migrations.
THEOREM Invariant == AllSpec => []ContainersInv
<1>1. AllInit => ContainersInv
  BY QueueInit, ContainerInit, MigrationInit DEF AllInit, ContainersInv
<1>2. ContainersInv /\ [AllNext]_<<cacheVars, structureVars>> => ContainersInv'
  BY OneContainer, QueueStep, ContainerStep, MigrationStep DEF ContainersInv
<1> QED
  BY <1>1, <1>2, PTL DEF AllSpec

\* A recorded version was executed with the recorded text, and in transactions at most
\* once: for any number of calls of the migrations, versions and edits of their files.
THEOREM ExecutedOnceEach == AllSpec => []ScriptsOnce
<1>1. ContainersInv => ScriptsOnce
  BY ExecutedOnce DEF ContainersInv, ScriptsOnce
<1> QED
  BY <1>1, Invariant, PTL

\* One instance per binding of the container, shared by everything that depends on it:
\* for any types, resolvers and requests.
THEOREM InstancesShared == AllSpec => []OneInstance
<1>1. ContainersInv => OneInstance
  BY SharesInstances DEF ContainersInv, OneInstance
<1> QED
  BY <1>1, Invariant, PTL

\* Elements leave the safe queue at most once and in the order they went in, whatever
\* overlaps, and all of them in turn when no calls do: for any number of callers.
THEOREM QueueInOrder == AllSpec => []Queue!FirstInFirstOut
<1>1. ContainersInv => Queue!FirstInFirstOut
  BY TakenInOrder DEF ContainersInv
<1> QED
  BY <1>1, Invariant, PTL

-----------------------------------------------------------------------------
(* UriTrie *)

TableOf == [p \in Patterns |-> IF p \in DOMAIN trie THEN trie[p] ELSE None]

\* A pattern is a prefix of itself.
LEMMA PrefixOfItself ==
  ASSUME NEW p \in Patterns
  PROVE  Trie!SE!IsPrefix(p, p)
<1>1. Len(p) \in Nat
  BY StructuresAssumption
<1> QED
  BY <1>1 DEF Trie!SE!IsPrefix

\* Each call of the trie is the call of the table, or leaves the table as it is.
LEMMA TableStep ==
  ASSUME [Trie!Next]_trieVars
  PROVE  [Trie!Table!Next]_<<TableOf, trieSize>>
<1>1. ASSUME NEW p \in Patterns, NEW v \in Values, NEW override \in BOOLEAN, Trie!Add(p, v, override)
      PROVE  Trie!Table!Add(p, v)
  <2> DEFINE grown == Trie!Grown(Trie!Walked(p))
  <2>1. p \in DOMAIN grown /\ DOMAIN grown = DOMAIN trie \cup Trie!Walked(p)
    BY <1>1 DEF Trie!Add, Trie!Grown
  <2>2. trie' = [grown EXCEPT ![p] = v] /\ trieSize' = IF grown[p] = None THEN trieSize + 1 ELSE trieSize
    BY <1>1 DEF Trie!Add
  <2>3. \A q \in Patterns : (IF q \in DOMAIN trie' THEN trie'[q] ELSE None)
                            = IF q = p THEN v ELSE IF q \in DOMAIN trie THEN trie[q] ELSE None
    BY <2>1, <2>2 DEF Trie!Grown
  <2>4. (IF p \in DOMAIN trie THEN trie[p] ELSE None) = grown[p]
    BY <2>1 DEF Trie!Grown
  <2> HIDE DEF grown
  <2> QED
    BY <2>2, <2>3, <2>4 DEF Trie!Table!Add
<1>2. ASSUME NEW p \in Patterns, Trie!AddRefused(p)
      PROVE  UNCHANGED <<TableOf, trieSize>>
  BY <1>2 DEF Trie!AddRefused, Trie!Grown, TableOf
<1>3. ASSUME NEW p \in Patterns, Trie!Remove(p)
      PROVE  Trie!Table!Remove(p)
  <2>1. /\ p \in DOMAIN trie /\ trie[p] # None /\ trieSize' = trieSize - 1
        /\ trie' = [n \in DOMAIN trie \ Trie!Pruned(p) |-> IF n = p THEN None ELSE trie[n]]
    BY <1>3 DEF Trie!Remove
  <2>2. \A q \in Patterns : q \in Trie!Pruned(p) => q = p \/ trie[q] = None
    BY PrefixOfItself DEF Trie!Pruned
  <2>3. \A q \in Patterns : (IF q \in DOMAIN trie' THEN trie'[q] ELSE None)
                            = IF q = p THEN None ELSE IF q \in DOMAIN trie THEN trie[q] ELSE None
    BY <2>1, <2>2
  <2> QED
    BY <2>1, <2>3 DEF Trie!Table!Remove
<1>4. ASSUME Trie!RemoveAll
      PROVE  Trie!Table!RemoveAll
  <2>1. trieSize' = 0 /\ \A q \in DOMAIN trie' : trie'[q] = None
    BY <1>4 DEF Trie!RemoveAll
  <2> QED
    BY <2>1 DEF Trie!Table!RemoveAll
<1>5. CASE UNCHANGED trieVars
  BY <1>5 DEF trieVars, TableOf
<1> QED
  BY <1>1, <1>2, <1>3, <1>4, <1>5 DEF Trie!Next, Trie!Table!Next

LEMMA TableInit == Trie!Init => Trie!Table!Init
BY DEF Trie!Init, Trie!Table!Init

\* PrefixOf, and the node above a node.
LEMMA PrefixOf ==
  ASSUME NEW m \in Seq(Token), NEW n \in Seq(Token)
  PROVE  Trie!SE!IsPrefix(m, n) <=> Len(m) <= Len(n) /\ \A i \in 1 .. Len(m) : m[i] = n[i]
<1>1. /\ SubSeq(m, 1, Len(m)) \in Seq(Token) /\ Len(SubSeq(m, 1, Len(m))) = Len(m)
      /\ \A i \in 1 .. Len(m) : SubSeq(m, 1, Len(m))[i] = m[i]
  OBVIOUS
<1>2. ASSUME Len(m) <= Len(n)
      PROVE  /\ SubSeq(n, 1, Len(m)) \in Seq(Token) /\ Len(SubSeq(n, 1, Len(m))) = Len(m)
             /\ \A i \in 1 .. Len(m) : SubSeq(n, 1, Len(m))[i] = n[i]
  BY <1>2
<1>3. ASSUME Len(m) <= Len(n), \A i \in 1 .. Len(m) : m[i] = n[i]
      PROVE  SubSeq(m, 1, Len(m)) = SubSeq(n, 1, Len(m))
  BY <1>1, <1>2, <1>3
<1> QED
  BY <1>1, <1>2, <1>3 DEF Trie!SE!IsPrefix

LEMMA Above ==
  ASSUME NEW n \in Seq(Token), n # << >>
  PROVE  /\ Trie!SE!Front(n) \in Seq(Token) /\ Len(n) \in Nat \ {0}
         /\ Len(Trie!SE!Front(n)) = Len(n) - 1
         /\ \A i \in 1 .. Len(n) - 1 : Trie!SE!Front(n)[i] = n[i]
         /\ Trie!SE!Last(n) = n[Len(n)] /\ n[Len(n)] \in Token
         /\ n = Append(Trie!SE!Front(n), n[Len(n)])
<1>1. Len(n) \in Nat \ {0}
  OBVIOUS
<1>2. /\ Trie!SE!Front(n) \in Seq(Token) /\ Len(Trie!SE!Front(n)) = Len(n) - 1
      /\ \A i \in 1 .. Len(n) - 1 : Trie!SE!Front(n)[i] = n[i]
  <2>1. Len(n) - 1 \in 0 .. Len(n)
    BY <1>1
  <2>2. /\ SubSeq(n, 1, Len(n) - 1) \in Seq(Token) /\ Len(SubSeq(n, 1, Len(n) - 1)) = Len(n) - 1
        /\ \A i \in 1 .. Len(n) - 1 : SubSeq(n, 1, Len(n) - 1)[i] = n[i]
    <3> PICK k \in 0 .. Len(n) : k = Len(n) - 1
      BY <2>1
    <3>1. SubSeq(n, 1, k) \in Seq(Token) /\ Len(SubSeq(n, 1, k)) = k
          /\ \A i \in 1 .. k : SubSeq(n, 1, k)[i] = n[i]
      OBVIOUS
    <3> QED
      BY <3>1
  <2> QED
    BY <2>2 DEF Trie!SE!Front
<1>3. n = Append(Trie!SE!Front(n), n[Len(n)])
  BY <1>1, <1>2
<1> QED
  BY <1>1, <1>2, <1>3 DEF Trie!SE!Last

LEMMA Cuts ==
  ASSUME NEW p \in Seq(Token), NEW i \in 0 .. Len(p)
  PROVE  /\ SubSeq(p, 1, i) \in Seq(Token) /\ Len(SubSeq(p, 1, i)) = i
         /\ \A j \in 1 .. i : SubSeq(p, 1, i)[j] = p[j]
         /\ Trie!SE!IsPrefix(SubSeq(p, 1, i), p)
         /\ i > 0 => /\ Trie!SE!Front(SubSeq(p, 1, i)) = SubSeq(p, 1, i - 1)
                     /\ Trie!SE!Last(SubSeq(p, 1, i)) = p[i]
         /\ i < Len(p) => SubSeq(p, 1, i + 1) = Append(SubSeq(p, 1, i), p[i + 1])
         /\ i = Len(p) => SubSeq(p, 1, i) = p
<1>1. /\ SubSeq(p, 1, i) \in Seq(Token) /\ Len(SubSeq(p, 1, i)) = i
      /\ \A j \in 1 .. i : SubSeq(p, 1, i)[j] = p[j]
  OBVIOUS
<1>2. Trie!SE!IsPrefix(SubSeq(p, 1, i), p)
  <2> PICK c \in Seq(Token) : c = SubSeq(p, 1, i)
    BY <1>1
  <2>1. Len(c) <= Len(p) /\ \A j \in 1 .. Len(c) : c[j] = p[j]
    BY <1>1
  <2> QED
    BY <2>1, PrefixOf
<1>3. ASSUME i > 0
      PROVE  /\ Trie!SE!Front(SubSeq(p, 1, i)) = SubSeq(p, 1, i - 1)
             /\ Trie!SE!Last(SubSeq(p, 1, i)) = p[i]
  <2>1. SubSeq(SubSeq(p, 1, i), 1, i - 1) = SubSeq(p, 1, i - 1)
    BY <1>1, <1>3
  <2> QED
    BY <1>1, <1>3, <2>1 DEF Trie!SE!Front, Trie!SE!Last
<1>4. i < Len(p) => SubSeq(p, 1, i + 1) = Append(SubSeq(p, 1, i), p[i + 1])
  BY <1>1
<1>5. i = Len(p) => SubSeq(p, 1, i) = p
  OBVIOUS
<1> QED
  BY <1>1, <1>2, <1>3, <1>4, <1>5

FrontOf(n) == Trie!SE!Front(n)
LastOf(n)  == Trie!SE!Last(n)
Tree(D)  == /\ << >> \in D /\ D \subseteq Seq(Token)
            /\ \A n \in D : n # << >> => FrontOf(n) \in D

\* A node has at most one child that is a parameter or a wildcard.
OneVariable(D) ==
  \A m, n \in D \ {<< >>} :
    FrontOf(m) = FrontOf(n) /\ LastOf(m)[1] # "C" /\ LastOf(n)[1] # "C" => m = n

LEMMA WalkedNodes ==
  ASSUME NEW p \in Patterns, NEW n \in Trie!Walked(p)
  PROVE  \E i \in 0 .. Len(p) :
           /\ n = SubSeq(p, 1, i) /\ n \in Seq(Token) /\ Len(n) = i /\ Trie!SE!IsPrefix(n, p)
           /\ i = 0 => n = << >>
           /\ i > 0 => /\ FrontOf(n) = SubSeq(p, 1, i - 1) /\ LastOf(n) = p[i] /\ ~Trie!Refuses(p, i)
                       /\ FrontOf(n) \in Trie!Walked(p)
<1>1. PICK i \in 0 .. Len(p) : n = SubSeq(p, 1, i) /\ \A j \in 1 .. i : ~Trie!Refuses(p, j)
  BY DEF Trie!Walked
<1>2. p \in Seq(Token) /\ Len(p) \in Nat
  BY StructuresAssumption
<1>3. ASSUME i > 0
      PROVE  SubSeq(p, 1, i - 1) \in Trie!Walked(p)
  <2>1. i - 1 \in 0 .. Len(p) /\ \A j \in 1 .. i - 1 : j \in 1 .. i
    BY <1>2, <1>3
  <2> QED
    BY <1>1, <2>1 DEF Trie!Walked
<1>4. i > 0 => i \in 1 .. i
  OBVIOUS
<1>5. /\ n \in Seq(Token) /\ Len(n) = i /\ Trie!SE!IsPrefix(n, p)
      /\ i = 0 => n = << >>
      /\ i > 0 => FrontOf(n) = SubSeq(p, 1, i - 1) /\ LastOf(n) = p[i]
  BY <1>1, <1>2, Cuts DEF FrontOf, LastOf
<1>6. i > 0 => ~Trie!Refuses(p, i) /\ FrontOf(n) \in Trie!Walked(p)
  BY <1>1, <1>3, <1>4, <1>5
<1> QED
  BY <1>1, <1>5, <1>6

LEMMA ChildOf ==
  ASSUME NEW m \in DOMAIN trie \ {<< >>}, m \in Seq(Token)
  PROVE  LastOf(m)[2] \in Trie!ChildNames(FrontOf(m), LastOf(m)[1])
BY DEF Trie!ChildNames, FrontOf, LastOf, Trie!SE!Last, Trie!RootNode

LEMMA GrownTree ==
  ASSUME Tree(DOMAIN trie), OneVariable(DOMAIN trie), NEW p \in Patterns
  PROVE  Tree(DOMAIN trie \cup Trie!Walked(p)) /\ OneVariable(DOMAIN trie \cup Trie!Walked(p))
<1> DEFINE D == DOMAIN trie
           E == Trie!Walked(p)
<1>1. Tree(D \cup E)
  <2>1. \A n \in E : n \in Seq(Token) /\ (n # << >> => FrontOf(n) \in E)
    BY WalkedNodes
  <2> HIDE DEF E
  <2> QED
    BY <2>1 DEF Tree
<1>2. p \in Seq(Token) /\ Len(p) \in Nat
  BY StructuresAssumption
<1>3. ASSUME NEW m \in D \ {<< >>}, NEW n \in E \ {<< >>},
             FrontOf(m) = FrontOf(n), LastOf(m)[1] # "C", LastOf(n)[1] # "C"
      PROVE  m = n
  <2>1. PICK i \in 1 .. Len(p) : /\ n \in Seq(Token) /\ FrontOf(n) = SubSeq(p, 1, i - 1)
                                /\ LastOf(n) = p[i] /\ ~Trie!Refuses(p, i)
    BY WalkedNodes, <1>2
  <2>2. m \in Seq(Token) /\ LastOf(m)[2] \in Trie!ChildNames(SubSeq(p, 1, i - 1), LastOf(m)[1])
    BY <1>3, <2>1, ChildOf DEF Tree
  <2>3. LastOf(m) \in Token /\ LastOf(n) \in Token /\ m = Append(FrontOf(m), LastOf(m)) /\ n = Append(FrontOf(n), LastOf(n))
    BY <2>1, <2>2, Above DEF FrontOf, LastOf
  <2>4. LastOf(m)[1] \in {"P", "W"} /\ p[i][1] \in {"P", "W"}
    BY <1>3, <2>1, <2>3 DEF Token
  <2>5. LastOf(m)[1] = p[i][1] /\ LastOf(m)[2] = p[i][2]
    BY <2>1, <2>2, <2>4 DEF Trie!Refuses
  <2>6. LastOf(m) = LastOf(n)
    <3>1. \A s, t \in Token : s[1] = t[1] /\ s[2] = t[2] => s = t
      BY DEF Token
    <3> QED
      BY <2>1, <2>3, <2>5, <3>1
  <2> QED
    BY <1>3, <2>3, <2>6
<1>4. ASSUME NEW m \in E \ {<< >>}, NEW n \in E \ {<< >>}, FrontOf(m) = FrontOf(n)
      PROVE  m = n
  <2>1. PICK i \in 1 .. Len(p) : m \in Seq(Token) /\ Len(m) = i /\ m = SubSeq(p, 1, i)
    BY WalkedNodes, <1>2
  <2>2. PICK j \in 1 .. Len(p) : n \in Seq(Token) /\ Len(n) = j /\ n = SubSeq(p, 1, j)
    BY WalkedNodes, <1>2
  <2>3. i - 1 = j - 1
    BY <1>4, <2>1, <2>2, Above DEF FrontOf
  <2> QED
    BY <2>1, <2>2, <2>3
<1>5. OneVariable(D \cup E)
  <2>1. \A m, n \in D \ {<< >>} : FrontOf(m) = FrontOf(n) /\ LastOf(m)[1] # "C" /\ LastOf(n)[1] # "C" => m = n
    BY DEF OneVariable
  <2> HIDE DEF D, E
  <2> QED
    BY <1>3, <1>4, <2>1 DEF OneVariable
<1> QED
  BY <1>1, <1>5

LEMMA PrefixThrough ==
  ASSUME NEW l \in Seq(Token), NEW m \in Seq(Token), NEW n \in Seq(Token),
         Trie!SE!IsPrefix(l, m), Trie!SE!IsPrefix(m, n)
  PROVE  Trie!SE!IsPrefix(l, n)
<1>1. Len(l) <= Len(m) /\ \A i \in 1 .. Len(l) : l[i] = m[i]
  BY PrefixOf
<1>2. Len(m) <= Len(n) /\ \A i \in 1 .. Len(m) : m[i] = n[i]
  BY PrefixOf
<1>3. Len(l) \in Nat /\ Len(m) \in Nat /\ Len(n) \in Nat
  OBVIOUS
<1>4. Len(l) <= Len(n) /\ \A i \in 1 .. Len(l) : l[i] = n[i]
  BY <1>1, <1>2, <1>3
<1> QED
  BY <1>4, PrefixOf

LEMMA FrontIsPrefix ==
  ASSUME NEW n \in Seq(Token), n # << >>
  PROVE  FrontOf(n) \in Seq(Token) /\ Trie!SE!IsPrefix(FrontOf(n), n) /\ Trie!SE!IsPrefix(n, n)
<1>1. /\ FrontOf(n) \in Seq(Token) /\ Len(n) \in Nat \ {0} /\ Len(FrontOf(n)) = Len(n) - 1
      /\ \A i \in 1 .. Len(n) - 1 : FrontOf(n)[i] = n[i]
  BY Above DEF FrontOf
<1>2. Len(FrontOf(n)) <= Len(n) /\ \A i \in 1 .. Len(FrontOf(n)) : FrontOf(n)[i] = n[i]
  BY <1>1
<1>3. Trie!SE!IsPrefix(FrontOf(n), n)
  BY <1>1, <1>2, PrefixOf
<1>4. Trie!SE!IsPrefix(n, n)
  BY <1>1, PrefixOf
<1> QED
  BY <1>1, <1>3, <1>4

LEMMA PrunedTree ==
  ASSUME Tree(DOMAIN trie), NEW p \in Patterns
  PROVE  Tree(DOMAIN trie \ Trie!Pruned(p))
<1>1. << >> \notin Trie!Pruned(p)
  BY DEF Trie!Pruned, Trie!RootNode
<1>2. ASSUME NEW n \in DOMAIN trie, n # << >>, FrontOf(n) \in Trie!Pruned(p)
      PROVE  n \in Trie!Pruned(p)
  <2>1. n \in Seq(Token) /\ p \in Seq(Token) /\ DOMAIN trie \subseteq Seq(Token)
    BY StructuresAssumption DEF Tree
  <2>2. FrontOf(n) \in Seq(Token) /\ Trie!SE!IsPrefix(FrontOf(n), n) /\ Trie!SE!IsPrefix(n, n)
    BY <1>2, <2>1, FrontIsPrefix
  <2>3. \A m \in DOMAIN trie : Trie!SE!IsPrefix(FrontOf(n), m) =>
          Trie!SE!IsPrefix(m, p) /\ (m = p \/ trie[m] = None)
    BY <1>2 DEF Trie!Pruned
  <2>4. \A m \in DOMAIN trie : Trie!SE!IsPrefix(n, m) => Trie!SE!IsPrefix(FrontOf(n), m)
    BY <2>1, <2>2, PrefixThrough
  <2> QED
    BY <1>2, <2>2, <2>3, <2>4 DEF Trie!Pruned, Trie!RootNode
<1>3. \A n \in DOMAIN trie \ Trie!Pruned(p) : n \in DOMAIN trie
  OBVIOUS
<1> QED
  BY <1>1, <1>2, <1>3 DEF Tree

HasValue(p) == p \in DOMAIN trie /\ trie[p] # None

\* Every node leads to a pattern that has a value, or whose Add was given up; what Size
\* returns is how many patterns have one.
TrieNodes ==
  /\ Tree(DOMAIN trie) /\ OneVariable(DOMAIN trie)
  /\ \A n \in DOMAIN trie : /\ trie[n] \in Values \cup {None}
                            /\ trie[n] # None => n \in Patterns
  /\ refused \subseteq Patterns
TrieLeaves ==
  \A n \in DOMAIN trie \ {<< >>} :
    \E p \in Patterns : Trie!SE!IsPrefix(n, p) /\ (p \in refused \/ HasValue(p))
WithValues == {p \in Patterns : HasValue(p)}
TrieSize == IsFiniteSet(WithValues) /\ trieSize = Cardinality(WithValues)
TrieInv  == TrieNodes /\ TrieLeaves /\ TrieSize

LEMMA TrieInit == Trie!Init => TrieInv
<1> SUFFICES ASSUME Trie!Init PROVE TrieInv
  OBVIOUS
<1>1. DOMAIN trie = {<< >>} /\ trie[<< >>] = None /\ trieSize = 0 /\ refused = {}
  BY DEF Trie!Init, Trie!RootNode
<1>2. WithValues = {}
  BY <1>1 DEF WithValues, HasValue
<1>3. << >> \in Seq(Token)
  OBVIOUS
<1> QED
  BY <1>1, <1>2, <1>3, FS_EmptySet DEF TrieInv, TrieNodes, TrieLeaves, TrieSize, Tree, OneVariable

LEMMA AddStep ==
  ASSUME TrieInv, NEW p \in Patterns, NEW v \in Values, NEW override \in BOOLEAN,
         Trie!Add(p, v, override)
  PROVE  TrieInv'
<1>1. /\ p \in DOMAIN trie' /\ DOMAIN trie' = DOMAIN trie \cup Trie!Walked(p)
      /\ trie'[p] = v /\ refused' = refused
      /\ \A n \in DOMAIN trie' \ {p} : trie'[n] = IF n \in DOMAIN trie THEN trie[n] ELSE None
      /\ trieSize' = IF HasValue(p) THEN trieSize ELSE trieSize + 1
  <2> DEFINE grown == Trie!Grown(Trie!Walked(p))
  <2>1. /\ p \in DOMAIN grown /\ DOMAIN grown = DOMAIN trie \cup Trie!Walked(p)
        /\ \A n \in DOMAIN grown : grown[n] = IF n \in DOMAIN trie THEN trie[n] ELSE None
    BY DEF Trie!Add, Trie!Grown
  <2>2. trie' = [grown EXCEPT ![p] = v] /\ trieSize' = IF grown[p] = None THEN trieSize + 1 ELSE trieSize
    BY DEF Trie!Add
  <2>3. refused' = refused
    BY DEF Trie!Add
  <2> HIDE DEF grown
  <2> QED
    BY <2>1, <2>2, <2>3 DEF HasValue
<1>2. v # None
  BY LruAssumption
<1>3. TrieNodes'
  <2>1. Tree(DOMAIN trie)' /\ OneVariable(DOMAIN trie)'
    BY <1>1, GrownTree DEF TrieInv, TrieNodes, Tree, OneVariable
  <2> QED
    BY <1>1, <2>1 DEF TrieInv, TrieNodes
<1>4. \A q \in Patterns : HasValue(q)' <=> q = p \/ HasValue(q)
  BY <1>1, <1>2 DEF HasValue
<1>5. TrieLeaves'
  <2> SUFFICES ASSUME NEW n \in DOMAIN trie' \ {<< >>}
               PROVE  \E q \in Patterns : Trie!SE!IsPrefix(n, q) /\ (q \in refused \/ q = p \/ HasValue(q))
    BY <1>1, <1>4 DEF TrieLeaves
  <2>1. n \in Trie!Walked(p) => Trie!SE!IsPrefix(n, p)
    BY WalkedNodes
  <2> QED
    BY <1>1, <2>1 DEF TrieInv, TrieLeaves
<1>6. TrieSize'
  <2>1. WithValues' = WithValues \cup {p}
    BY <1>4 DEF WithValues
  <2>2. p \in WithValues <=> HasValue(p)
    BY DEF WithValues
  <2> QED
    BY <1>1, <2>1, <2>2, FS_AddElement DEF TrieInv, TrieSize
<1> QED
  BY <1>3, <1>5, <1>6 DEF TrieInv

LEMMA AddRefusedStep ==
  ASSUME TrieInv, NEW p \in Patterns, Trie!AddRefused(p)
  PROVE  TrieInv'
<1>1. /\ DOMAIN trie' = DOMAIN trie \cup Trie!Walked(p)
      /\ refused' = refused \cup {p} /\ trieSize' = trieSize
      /\ \A n \in DOMAIN trie' : trie'[n] = IF n \in DOMAIN trie THEN trie[n] ELSE None
  BY DEF Trie!AddRefused, Trie!Grown
<1>2. TrieNodes'
  <2>1. Tree(DOMAIN trie)' /\ OneVariable(DOMAIN trie)'
    BY <1>1, GrownTree DEF TrieInv, TrieNodes, Tree, OneVariable
  <2> QED
    BY <1>1, <2>1 DEF TrieInv, TrieNodes
<1>3. \A q \in Patterns : HasValue(q)' <=> HasValue(q)
  BY <1>1 DEF HasValue
<1>4. TrieLeaves'
  <2> SUFFICES ASSUME NEW n \in DOMAIN trie' \ {<< >>}
               PROVE  \E q \in Patterns : Trie!SE!IsPrefix(n, q) /\ (q \in refused \/ q = p \/ HasValue(q))
    BY <1>1, <1>3 DEF TrieLeaves
  <2>1. n \in Trie!Walked(p) => Trie!SE!IsPrefix(n, p)
    BY WalkedNodes
  <2> QED
    BY <1>1, <2>1 DEF TrieInv, TrieLeaves
<1>5. WithValues' = WithValues
  BY <1>3 DEF WithValues
<1> QED
  BY <1>1, <1>2, <1>4, <1>5 DEF TrieInv, TrieSize

LEMMA RemoveStep ==
  ASSUME TrieInv, NEW p \in Patterns, Trie!Remove(p)
  PROVE  TrieInv'
<1>1. /\ HasValue(p) /\ DOMAIN trie' = DOMAIN trie \ Trie!Pruned(p)
      /\ refused' = refused /\ trieSize' = trieSize - 1
      /\ \A n \in DOMAIN trie' : trie'[n] = IF n = p THEN None ELSE trie[n]
  BY DEF Trie!Remove, HasValue
<1>2. \A q \in Patterns : q \in Trie!Pruned(p) => q = p \/ trie[q] = None
  BY PrefixOfItself DEF Trie!Pruned
<1>3. TrieNodes'
  <2>1. Tree(DOMAIN trie)' /\ OneVariable(DOMAIN trie)'
    BY <1>1, PrunedTree DEF TrieInv, TrieNodes, Tree, OneVariable
  <2> QED
    BY <1>1, <2>1 DEF TrieInv, TrieNodes
<1>4. \A q \in Patterns : HasValue(q)' <=> q # p /\ HasValue(q)
  BY <1>1, <1>2 DEF HasValue
<1>5. TrieLeaves'
  <2> SUFFICES ASSUME NEW n \in DOMAIN trie \ {<< >>}, n \notin Trie!Pruned(p)
               PROVE  \E q \in Patterns : Trie!SE!IsPrefix(n, q) /\ (q \in refused \/ (q # p /\ HasValue(q)))
    BY <1>1, <1>4 DEF TrieLeaves
  <2>1. PICK q \in Patterns : Trie!SE!IsPrefix(n, q) /\ (q \in refused \/ HasValue(q))
    BY DEF TrieInv, TrieLeaves
  <2>2. CASE q \in refused \/ q # p
    BY <2>1, <2>2
  <2>3. CASE q = p
    <3>1. PICK m \in DOMAIN trie : /\ Trie!SE!IsPrefix(n, m)
                                  /\ ~ (Trie!SE!IsPrefix(m, p) /\ (m = p \/ trie[m] = None))
      BY <2>1, <2>3 DEF Trie!Pruned, Trie!RootNode
    <3>2. n \in Seq(Token) /\ m \in Seq(Token) /\ m # << >>
      <4>1. n \in Seq(Token) /\ m \in Seq(Token)
        BY DEF TrieInv, TrieNodes, Tree
      <4>2. Len(n) # 0 /\ Len(n) \in Nat /\ Len(m) \in Nat
        BY <4>1
      <4> QED
        BY <3>1, <4>1, <4>2, PrefixOf
    <3>3. PICK r \in Patterns : Trie!SE!IsPrefix(m, r) /\ (r \in refused \/ HasValue(r))
      BY <3>1, <3>2 DEF TrieInv, TrieLeaves
    <3>4. Trie!SE!IsPrefix(n, r)
      BY <3>1, <3>2, <3>3, PrefixThrough, StructuresAssumption
    <3>5. CASE r \in refused \/ r # p
      BY <3>3, <3>4, <3>5
    <3>6. CASE r = p
      <4>1. m # p /\ HasValue(m) /\ m \in Patterns
        BY <3>1, <3>3, <3>6 DEF TrieInv, TrieNodes, HasValue
      <4> QED
        BY <3>1, <4>1
    <3> QED
      BY <3>5, <3>6
  <2> QED
    BY <2>2, <2>3
<1>6. TrieSize'
  <2>1. WithValues' = WithValues \ {p}
    BY <1>4 DEF WithValues
  <2>2. p \in WithValues
    BY <1>1 DEF WithValues
  <2> QED
    BY <1>1, <2>1, <2>2, FS_RemoveElement DEF TrieInv, TrieSize
<1> QED
  BY <1>3, <1>5, <1>6 DEF TrieInv

LEMMA TrieStep == TrieInv /\ [Trie!Next]_trieVars => TrieInv'
<1> SUFFICES ASSUME TrieInv, [Trie!Next]_trieVars PROVE TrieInv'
  OBVIOUS
<1>1. ASSUME Trie!RemoveAll PROVE TrieInv'
  <2>1. DOMAIN trie' = {<< >>} /\ trie'[<< >>] = None /\ trieSize' = 0 /\ refused' = {}
    BY <1>1 DEF Trie!RemoveAll, Trie!RootNode
  <2>2. WithValues' = {}
    BY <2>1 DEF WithValues, HasValue
  <2>3. << >> \in Seq(Token)
    OBVIOUS
  <2> QED
    BY <2>1, <2>2, <2>3, FS_EmptySet DEF TrieInv, TrieNodes, TrieLeaves, TrieSize, Tree, OneVariable
<1>2. CASE UNCHANGED trieVars
  BY <1>2 DEF trieVars, TrieInv, TrieNodes, TrieLeaves, TrieSize, WithValues, HasValue
<1> QED
  BY <1>1, <1>2, AddStep, AddRefusedStep, RemoveStep DEF Trie!Next

LEMMA TrieTypes == TrieInv => Trie!TypeOK
<1> SUFFICES ASSUME TrieInv PROVE Trie!TypeOK
  OBVIOUS
<1>1. trieSize \in Nat
  BY FS_CardinalityType DEF TrieInv, TrieSize
<1> QED
  BY <1>1 DEF TrieInv, TrieNodes, Tree, FrontOf, Trie!TypeOK, Trie!RootNode

-----------------------------------------------------------------------------
(* Match *)

\* The walk, unrolled.
LEMMA WalkLoop ==
  ASSUME NEW path, Len(path) \in Nat
  PROVE  \E f : /\ f[0] = << >> /\ Trie!Walk(path) = f[Len(path)]
                /\ \A k \in 1 .. Len(path) : f[k] = Trie!StepTo(f[k - 1], path[k])
<1> DEFINE Unrolled(f, m) ==
      f = [k \in 0 .. m |-> IF k = 0 THEN << >> ELSE Trie!StepTo(f[k - 1], path[k])]
           Missing == {m \in Nat : ~ \E f : Unrolled(f, m)}
<1>1. Missing = {}
  <2> SUFFICES ASSUME Missing # {} PROVE FALSE
    OBVIOUS
  <2>1. PICK m \in Missing : \A l \in Missing : m <= l
    <3>1. Missing \in SUBSET Nat
      OBVIOUS
    <3> HIDE DEF Missing
    <3> QED
      BY <3>1, LeastNumber
  <2>2. m # 0
    <3>1. Unrolled([k \in 0 .. 0 |-> << >>], 0)
      OBVIOUS
    <3> QED
      BY <3>1
  <2>3. m \in Nat /\ m - 1 \in Nat /\ ~(m <= m - 1)
    BY <2>1, <2>2
  <2>4. PICK f : Unrolled(f, m - 1)
    <3>1. m - 1 \notin Missing
      <4> HIDE DEF Missing
      <4> QED
        BY <2>1, <2>3
    <3> QED
      BY <2>3, <3>1
  <2> DEFINE g == [k \in 0 .. m |-> IF k = m THEN Trie!StepTo(f[m - 1], path[m]) ELSE f[k]]
  <2>5. ASSUME NEW k \in 0 .. m
        PROVE  g[k] = IF k = 0 THEN << >> ELSE Trie!StepTo(g[k - 1], path[k])
    BY <2>2, <2>3, <2>4
  <2>6. Unrolled(g, m)
    BY <2>5
  <2> QED
    BY <2>1, <2>6
<1> PICK f : Unrolled(f, Len(path))
  BY <1>1
<1>2. Trie!Walk(path) = (CHOOSE g : Unrolled(g, Len(path)))[Len(path)]
  BY DEF Trie!Walk, Trie!RootNode
<1> PICK g : g = CHOOSE e : Unrolled(e, Len(path))
  OBVIOUS
<1>3. Unrolled(g, Len(path))
  OBVIOUS
<1>4. \A k \in 1 .. Len(path) : k \in 0 .. Len(path) /\ k # 0
  OBVIOUS
<1>5. DOMAIN g = 0 .. Len(path) /\ 0 \in 0 .. Len(path)
  BY <1>3
<1>6. ASSUME NEW k \in 0 .. Len(path)
      PROVE  g[k] = IF k = 0 THEN << >> ELSE Trie!StepTo(g[k - 1], path[k])
  BY <1>3
<1> QED
  BY <1>2, <1>4, <1>5, <1>6

LEMMA Below ==
  ASSUME NEW n \in Seq(Token), NEW t \in Token
  PROVE  /\ Append(n, t) \in Seq(Token) /\ Append(n, t) # << >> /\ Len(Append(n, t)) = Len(n) + 1
         /\ FrontOf(Append(n, t)) = n /\ LastOf(Append(n, t)) = t
         /\ \A i \in 1 .. Len(n) : Append(n, t)[i] = n[i]
         /\ Append(n, t)[Len(n) + 1] = t
<1>1. /\ Append(n, t) \in Seq(Token) /\ Len(Append(n, t)) = Len(n) + 1 /\ Len(n) \in Nat
      /\ \A i \in 1 .. Len(n) : Append(n, t)[i] = n[i]
      /\ Append(n, t)[Len(n) + 1] = t
  OBVIOUS
<1>2. Append(n, t) # << >>
  BY <1>1
<1>3. LastOf(Append(n, t)) = t
  BY <1>1 DEF LastOf, Trie!SE!Last
<1>4. FrontOf(Append(n, t)) = n
  <2> PICK m \in Seq(Token) : m = Append(n, t)
    BY <1>1
  <2>1. /\ FrontOf(m) \in Seq(Token) /\ Len(FrontOf(m)) = Len(m) - 1
        /\ \A i \in 1 .. Len(m) - 1 : FrontOf(m)[i] = m[i]
    BY <1>2, Above DEF FrontOf
  <2>2. Len(m) = Len(n) + 1 /\ Len(n) \in Nat /\ \A i \in 1 .. Len(n) : m[i] = n[i]
    BY <1>1
  <2>3. Len(FrontOf(m)) = Len(n) /\ \A i \in 1 .. Len(n) : FrontOf(m)[i] = n[i]
    BY <2>1, <2>2
  <2> QED
    BY <2>1, <2>3
<1> QED
  BY <1>1, <1>2, <1>3, <1>4

LEMMA Children ==
  ASSUME Tree(DOMAIN trie), NEW n \in DOMAIN trie, NEW t \in {"P", "W"}, NEW x
  PROVE  x \in Trie!ChildNames(n, t) <=> x \in STRING /\ Append(n, <<t, x>>) \in DOMAIN trie
<1>1. ASSUME x \in Trie!ChildNames(n, t)
      PROVE  x \in STRING /\ Append(n, <<t, x>>) \in DOMAIN trie
  <2>1. PICK m \in DOMAIN trie \ {<< >>} : FrontOf(m) = n /\ LastOf(m)[1] = t /\ x = m[Len(m)][2]
    BY <1>1 DEF Trie!ChildNames, Trie!RootNode, FrontOf, LastOf
  <2>2. /\ LastOf(m) = m[Len(m)] /\ m[Len(m)] \in Token
        /\ m = Append(FrontOf(m), m[Len(m)])
    BY <2>1, Above DEF Tree, FrontOf, LastOf
  <2>3. m[Len(m)] = <<t, x>> /\ x \in STRING
    BY <2>1, <2>2 DEF Token
  <2> QED
    BY <2>1, <2>2, <2>3
<1>2. ASSUME x \in STRING, Append(n, <<t, x>>) \in DOMAIN trie
      PROVE  x \in Trie!ChildNames(n, t)
  <2> DEFINE m == Append(n, <<t, x>>)
  <2>1. <<t, x>> \in Token /\ n \in Seq(Token)
    BY <1>2 DEF Token, Tree
  <2>2. m \in Seq(Token) \ {<< >>} /\ FrontOf(m) = n /\ LastOf(m) = <<t, x>>
    BY <2>1, Below
  <2> HIDE DEF m
  <2>3. m \in DOMAIN trie
    BY <1>2 DEF m
  <2>4. LastOf(m)[2] \in Trie!ChildNames(FrontOf(m), LastOf(m)[1])
    BY <2>2, <2>3, ChildOf
  <2> QED
    BY <2>2, <2>4
<1> QED
  BY <1>1, <1>2

\* A node is not Gone.
LEMMA NotGone ==
  ASSUME NEW n \in Seq(Token)
  PROVE  n # Trie!Gone
<1>1. ASSUME n = << <<"nil", "nil">> >> PROVE FALSE
  <2>1. n[1] \in Token /\ n[1][1] = "nil"
    BY <1>1
  <2> QED
    BY <2>1 DEF Token
<1> QED
  BY <1>1 DEF Trie!Gone

\* One step of the walk: to the literal child, to a parameter or a wildcard, nowhere, or
\* it stays.
Stepped(n, m, s) ==
  \/ m = Trie!Gone
  \/ m = n /\ s # "/"
  \/ \E t \in Token : /\ m = Append(n, t) /\ m \in DOMAIN trie
                      /\ t = <<"C", s>> \/ (t[1] # "C" /\ s # "/")

LEMMA Stepping ==
  ASSUME TrieNodes, NEW n \in DOMAIN trie, NEW s \in STRING
  PROVE  Stepped(n, Trie!StepTo(n, s), s)
<1>1. n # Trie!Gone /\ <<"C", s>> \in Token
  BY NotGone DEF TrieNodes, Tree, Token
<1> DEFINE ws == {Append(n, <<"W", x>>) : x \in Trie!ChildNames(n, "W")}
           ps == {Append(n, <<"P", x>>) : x \in Trie!ChildNames(n, "P")}
<1>2. Trie!StepTo(n, s) =
        IF Append(n, <<"C", s>>) \in DOMAIN trie THEN Append(n, <<"C", s>>)
        ELSE IF s = "/" THEN Trie!Gone
        ELSE IF ws # {} THEN CHOOSE m \in ws : TRUE
        ELSE IF ps # {} THEN CHOOSE m \in ps : TRUE ELSE n
  BY <1>1 DEF Trie!StepTo, Trie!HasChild, Trie!Slash, Trie!Table!Slash
<1>3. \A m \in ws \cup ps : \E t \in Token : m = Append(n, t) /\ m \in DOMAIN trie /\ t[1] # "C"
  <2>1. ASSUME NEW k \in {"P", "W"}, NEW x \in Trie!ChildNames(n, k)
        PROVE  <<k, x>> \in Token /\ Append(n, <<k, x>>) \in DOMAIN trie /\ <<k, x>>[1] # "C"
    BY <2>1, Children DEF TrieNodes, Token
  <2> QED
    BY <2>1
<1> HIDE DEF ws, ps
<1>4. CASE Append(n, <<"C", s>>) \in DOMAIN trie
  BY <1>1, <1>2, <1>4 DEF Stepped
<1>5. CASE Append(n, <<"C", s>>) \notin DOMAIN trie /\ s = "/"
  BY <1>2, <1>5 DEF Stepped
<1>6. CASE Append(n, <<"C", s>>) \notin DOMAIN trie /\ s # "/"
  <2>1. \/ Trie!StepTo(n, s) \in ws \cup ps
        \/ Trie!StepTo(n, s) = n
    BY <1>2, <1>6
  <2> QED
    BY <1>3, <1>6, <2>1 DEF Stepped
<1> QED
  BY <1>4, <1>5, <1>6

\* After i tokens of the path the walk has come along i tokens of a node that fit them, or
\* it stays behind at a slash that a segment did not fit.
Fits(t, s) == IF t[1] = "C" THEN t[2] = s ELSE s # "/"
Along(n, path, i)  == Len(n) = i /\ \A j \in 1 .. i : Fits(n[j], path[j])
Behind(n, path, i) == n # << >> /\ n[Len(n)] = Sep /\ i # 0 /\ path[i] # "/"
Walking(n, path, i) ==
  n = Trie!Gone \/ (n \in DOMAIN trie /\ (Along(n, path, i) \/ Behind(n, path, i)))

\* No node has two slashes in a row.
LEMMA OneSlash ==
  ASSUME TrieInv, NEW n \in DOMAIN trie, n # << >>, n[Len(n)] = Sep
  PROVE  Append(n, Sep) \notin DOMAIN trie
<1> SUFFICES ASSUME Append(n, Sep) \in DOMAIN trie PROVE FALSE
  OBVIOUS
<1>1. n \in Seq(Token) /\ Sep \in Token /\ Len(n) \in Nat \ {0}
  BY DEF TrieInv, TrieNodes, Tree, Token, Sep
<1>2. /\ Append(n, Sep) \in Seq(Token) /\ Append(n, Sep) # << >>
      /\ Len(Append(n, Sep)) = Len(n) + 1
      /\ Append(n, Sep)[Len(n)] = Sep /\ Append(n, Sep)[Len(n) + 1] = Sep
  BY <1>1, Below
<1>3. PICK p \in Patterns : Trie!SE!IsPrefix(Append(n, Sep), p)
  BY <1>2 DEF TrieInv, TrieLeaves
<1>4. p \in Seq(Token) /\ Len(p) \in Nat
  BY StructuresAssumption
<1>5. Len(n) + 1 <= Len(p) /\ p[Len(n)] = Sep /\ p[Len(n) + 1] = Sep
  <2> PICK m \in Seq(Token) : m = Append(n, Sep)
    BY <1>2
  <2>1. Len(m) <= Len(p) /\ \A i \in 1 .. Len(m) : m[i] = p[i]
    BY <1>3, <1>4, PrefixOf
  <2>2. Len(n) \in 1 .. Len(m) /\ Len(n) + 1 \in 1 .. Len(m)
    BY <1>1, <1>2
  <2> QED
    BY <1>2, <2>1, <2>2
<1>6. Len(n) \in 1 .. Len(p) - 1
  BY <1>1, <1>4, <1>5
<1> QED
  BY <1>5, <1>6, StructuresAssumption

LEMMA WalkingOn ==
  ASSUME TrieInv, NEW path \in Paths, NEW i \in 0 .. Len(path) - 1, NEW n, Walking(n, path, i)
  PROVE  Walking(Trie!StepTo(n, path[i + 1]), path, i + 1)
<1>1. /\ path \in Seq(STRING) /\ Len(path) \in Nat /\ i \in Nat /\ i + 1 \in 1 .. Len(path)
      /\ path[i + 1] \in STRING /\ (i = 0 => path[i + 1] = "/")
      /\ i # 0 => path[i] = "/" \/ path[i + 1] = "/"
  <2>1. path \in Seq(STRING)
    BY StructuresAssumption
  <2>2. Len(path) \in Nat /\ i \in Nat /\ i + 1 \in 1 .. Len(path) /\ path # << >> /\ path[i + 1] \in STRING
    BY <2>1
  <2>3. i # 0 => i \in 1 .. Len(path) - 1
    BY <2>2
  <2> QED
    BY <2>1, <2>2, <2>3, StructuresAssumption
<1> PICK s \in STRING : s = path[i + 1]
  BY <1>1
<1> PICK m : m = Trie!StepTo(n, s)
  OBVIOUS
<1>2. CASE n = Trie!Gone
  BY <1>2 DEF Walking, Trie!StepTo
<1>3. CASE n \in DOMAIN trie /\ (Along(n, path, i) \/ Behind(n, path, i))
  <2>1. Stepped(n, m, s)
    BY <1>3, Stepping DEF TrieInv
  <2>2. n \in Seq(Token)
    BY <1>3 DEF TrieInv, TrieNodes, Tree
  <2>3. CASE m = Trie!Gone
    BY <2>3 DEF Walking
  <2>4. CASE Along(n, path, i) /\ m = n /\ s # "/"
    <3>1. i # 0 /\ path[i] = "/" /\ n # << >> /\ Len(n) = i
      BY <1>1, <2>2, <2>4 DEF Along
    <3>2. n[i] \in Token /\ Fits(n[i], path[i])
      BY <1>1, <2>2, <2>4, <3>1 DEF Along
    <3>3. n[i] = Sep
      BY <3>1, <3>2 DEF Fits, Token, Sep
    <3>4. Behind(m, path, i + 1)
      BY <1>1, <2>4, <3>1, <3>3 DEF Behind
    <3> QED
      BY <1>3, <2>4, <3>4 DEF Walking
  <2>5. ASSUME Along(n, path, i),
               NEW t \in Token, m = Append(n, t), m \in DOMAIN trie, t = <<"C", s>> \/ (t[1] # "C" /\ s # "/")
        PROVE  Walking(m, path, i + 1)
    <3>1. /\ Len(m) = i + 1 /\ m[i + 1] = t /\ Fits(t, path[i + 1])
          /\ \A j \in 1 .. i : m[j] = n[j] /\ Fits(n[j], path[j])
      BY <2>2, <2>5, Below DEF Along, Fits
    <3>2. \A j \in 1 .. i + 1 : j \in 1 .. i \/ j = i + 1
      BY <1>1
    <3>3. Along(m, path, i + 1)
      BY <3>1, <3>2 DEF Along
    <3> QED
      BY <2>5, <3>3 DEF Walking
  <2>6. ASSUME Behind(n, path, i)
        PROVE  m = Trie!Gone
    <3>1. s = "/" /\ Append(n, <<"C", s>>) \notin DOMAIN trie
      BY <1>1, <1>3, <2>6, OneSlash DEF Behind, Sep
    <3>2. ~Trie!HasChild(n, <<"C", s>>) /\ n # Trie!Gone
      BY <2>2, <3>1, NotGone DEF Trie!HasChild
    <3> QED
      BY <3>1, <3>2 DEF Trie!StepTo, Trie!Slash, Trie!Table!Slash
  <2> QED
    BY <1>3, <2>1, <2>3, <2>4, <2>5, <2>6 DEF Stepped
<1> QED
  BY <1>2, <1>3 DEF Walking

\* What a walk ends at and has a value is a pattern that the path is an instance of.
LEMMA WalkFinds ==
  ASSUME TrieInv, NEW path \in Paths
  PROVE  Walking(Trie!Walk(path), path, Len(path))
<1>1. Len(path) \in Nat
  BY StructuresAssumption
<1>2. PICK f : /\ f[0] = << >> /\ Trie!Walk(path) = f[Len(path)]
               /\ \A k \in 1 .. Len(path) : f[k] = Trie!StepTo(f[k - 1], path[k])
  BY <1>1, WalkLoop
<1> DEFINE Wrong == {i \in 0 .. Len(path) : ~Walking(f[i], path, i)}
<1>3. Wrong = {}
  <2> SUFFICES ASSUME Wrong # {} PROVE FALSE
    OBVIOUS
  <2>1. PICK i \in Wrong : \A l \in Wrong : i <= l
    <3>1. Wrong \in SUBSET Nat
      BY <1>1
    <3> HIDE DEF Wrong
    <3> QED
      BY <3>1, LeastNumber
  <2>2. i # 0
    <3>1. Along(<< >>, path, 0) /\ << >> \in DOMAIN trie
      BY DEF Along, TrieInv, TrieNodes, Tree
    <3> QED
      BY <1>2, <3>1 DEF Walking
  <2>3. i - 1 \in 0 .. Len(path) - 1 /\ i \in 1 .. Len(path) /\ i - 1 + 1 = i /\ ~(i <= i - 1)
    BY <1>1, <2>1, <2>2
  <2>4. Walking(f[i - 1], path, i - 1)
    BY <1>1, <2>1, <2>3
  <2>5. Walking(Trie!StepTo(f[i - 1], path[i]), path, i)
    BY <2>3, <2>4, WalkingOn
  <2> QED
    BY <1>2, <2>1, <2>3, <2>5
<1> QED
  BY <1>1, <1>2, <1>3

LEMMA VariableStep ==
  ASSUME TrieNodes, NEW n \in DOMAIN trie, NEW s \in STRING, s # "/",
         ~Trie!HasChild(n, <<"C", s>>),
         NEW t \in Token, t[1] # "C", Append(n, t) \in DOMAIN trie
  PROVE  Trie!StepTo(n, s) = Append(n, t)
<1>1. n # Trie!Gone /\ n \in Seq(Token)
  BY NotGone DEF TrieNodes, Tree
<1> DEFINE ws == {Append(n, <<"W", x>>) : x \in Trie!ChildNames(n, "W")}
           ps == {Append(n, <<"P", x>>) : x \in Trie!ChildNames(n, "P")}
<1>2. Trie!StepTo(n, s) = IF ws # {} THEN CHOOSE m \in ws : TRUE
                          ELSE IF ps # {} THEN CHOOSE m \in ps : TRUE ELSE n
  BY <1>1 DEF Trie!StepTo, Trie!Slash, Trie!Table!Slash
<1>3. ASSUME NEW m \in ws \cup ps PROVE m = Append(n, t)
  <2>0. PICK k \in {"P", "W"} : \E x \in Trie!ChildNames(n, k) : m = Append(n, <<k, x>>)
    BY <1>3
  <2>1. PICK x \in Trie!ChildNames(n, k) : m = Append(n, <<k, x>>)
    BY <2>0
  <2>2. <<k, x>> \in Token /\ m \in DOMAIN trie /\ <<k, x>>[1] # "C"
    BY <2>1, Children DEF TrieNodes, Token
  <2>3. m # << >> /\ FrontOf(m) = n /\ LastOf(m)[1] # "C"
    BY <1>1, <2>1, <2>2, Below
  <2>4. Append(n, t) # << >> /\ FrontOf(Append(n, t)) = n /\ LastOf(Append(n, t))[1] # "C"
    BY <1>1, Below
  <2> QED
    BY <2>2, <2>3, <2>4 DEF TrieNodes, OneVariable
<1>4. Append(n, t) \in ws \cup ps
  <2>1. PICK k \in {"P", "W"}, x \in STRING : t = <<k, x>>
    <3>1. t = <<t[1], t[2]>> /\ t[1] \in {"C", "P", "W"} /\ t[2] \in STRING
      BY DEF Token
    <3>2. t[1] \in {"P", "W"}
      BY <3>1
    <3> QED
      BY <3>1, <3>2, Zenon
  <2>2. x \in Trie!ChildNames(n, k)
    BY <2>1, Children DEF TrieNodes
  <2> QED
    BY <2>1, <2>2
<1> HIDE DEF ws, ps
<1> QED
  BY <1>2, <1>3, <1>4

\* The nodes on the way to a node are in the trie.
LEMMA NodesAbove ==
  ASSUME Tree(DOMAIN trie), NEW p \in DOMAIN trie, NEW i \in 0 .. Len(p)
  PROVE  SubSeq(p, 1, i) \in DOMAIN trie
<1>1. p \in Seq(Token) /\ Len(p) \in Nat
  BY DEF Tree
<1> DEFINE Shorter(k) == SubSeq(p, 1, Len(p) - k)
           Wrong == {k \in 0 .. Len(p) : Shorter(k) \notin DOMAIN trie}
<1>2. Wrong = {}
  <2> SUFFICES ASSUME Wrong # {} PROVE FALSE
    OBVIOUS
  <2>1. PICK k \in Wrong : \A l \in Wrong : k <= l
    <3>1. Wrong \in SUBSET Nat
      BY <1>1
    <3> HIDE DEF Wrong
    <3> QED
      BY <3>1, LeastNumber
  <2>2. k # 0
    <3>1. SubSeq(p, 1, Len(p)) = p /\ Len(p) - 0 = Len(p)
      BY <1>1
    <3>2. SubSeq(p, 1, Len(p) - 0) \in DOMAIN trie
      BY <3>1
    <3> QED
      BY <2>1, <3>2
  <2>3. k - 1 \in 0 .. Len(p) /\ ~(k <= k - 1) /\ k \in 0 .. Len(p)
    BY <1>1, <2>1, <2>2
  <2>a. \A a, b \in Nat : b - 1 \in 0 .. a /\ b \in 0 .. a =>
          /\ a - (b - 1) \in 0 .. a /\ a - (b - 1) > 0 /\ a - (b - 1) - 1 = a - b
    OBVIOUS
  <2>b. k \in Nat
    BY <2>3
  <2> PICK j : j = Len(p) - (k - 1)
    OBVIOUS
  <2>4. j \in 0 .. Len(p) /\ j > 0 /\ j - 1 = Len(p) - k
    BY <1>1, <2>3, <2>a, <2>b
  <2>5. SubSeq(p, 1, j) \in DOMAIN trie
    BY <2>1, <2>3
  <2>6. /\ Len(SubSeq(p, 1, j)) = j /\ SubSeq(p, 1, j) # << >>
        /\ FrontOf(SubSeq(p, 1, j)) = SubSeq(p, 1, j - 1)
    <3>1. /\ SubSeq(p, 1, j) \in Seq(Token) /\ Len(SubSeq(p, 1, j)) = j
          /\ Trie!SE!Front(SubSeq(p, 1, j)) = SubSeq(p, 1, j - 1)
      BY <1>1, <2>4, Cuts
    <3>2. Len(<< >>) = 0 /\ ~(0 > 0)
      OBVIOUS
    <3>3. SubSeq(p, 1, j) # << >>
      BY <2>4, <3>1, <3>2, Zenon
    <3> QED
      BY <3>1, <3>3 DEF FrontOf
  <2>7. SubSeq(p, 1, Len(p) - k) \in DOMAIN trie
    BY <2>4, <2>5, <2>6 DEF Tree
  <2> QED
    BY <2>1, <2>7
<1>3. Len(p) - i \in 0 .. Len(p) /\ Len(p) - (Len(p) - i) = i
  BY <1>1
<1> QED
  BY <1>2, <1>3

\* A path that fits a pattern leads to it, if no literal child hides one of its tokens.
LEMMA WalkReaches ==
  ASSUME TrieInv, NEW path \in Paths, NEW p \in Patterns, HasValue(p), Trie!Table!IsInstance(path, p),
         \A i \in 1 .. Len(p) : ~Trie!Shadowed(p, path, i)
  PROVE  Trie!Walk(path) = p
<1>1. /\ p \in Seq(Token) /\ path \in Seq(STRING) /\ Len(path) \in Nat /\ p \in DOMAIN trie
      /\ Len(p) = Len(path) /\ \A i \in 1 .. Len(p) : Fits(p[i], path[i])
  BY StructuresAssumption DEF HasValue, Trie!Table!IsInstance, Fits, Trie!Table!Slash
<1>2. PICK f : /\ f[0] = << >> /\ Trie!Walk(path) = f[Len(path)]
               /\ \A k \in 1 .. Len(path) : f[k] = Trie!StepTo(f[k - 1], path[k])
  BY <1>1, WalkLoop
<1>3. ASSUME NEW i \in 1 .. Len(p)
      PROVE  Trie!StepTo(SubSeq(p, 1, i - 1), path[i]) = SubSeq(p, 1, i)
  <2> PICK h \in 0 .. Len(p) : h = i - 1
    BY <1>1
  <2>1. i = h + 1 /\ h < Len(p) /\ i \in 0 .. Len(p)
    BY <1>1
  <2>2. SubSeq(p, 1, h) \in DOMAIN trie /\ SubSeq(p, 1, i) \in DOMAIN trie
    BY <1>1, <2>1, NodesAbove DEF TrieInv, TrieNodes
  <2>3. SubSeq(p, 1, i) = Append(SubSeq(p, 1, h), p[i]) /\ SubSeq(p, 1, h) \in Seq(Token)
    BY <1>1, <2>1, Cuts
  <2>4. p[i] \in Token /\ path[i] \in STRING /\ Fits(p[i], path[i])
    BY <1>1
  <2>5. CASE p[i][1] = "C"
    <3>1. p[i] = <<"C", path[i]>>
      BY <2>4, <2>5 DEF Fits, Token
    <3>2. Trie!HasChild(SubSeq(p, 1, h), <<"C", path[i]>>)
      BY <2>2, <2>3, <3>1 DEF Trie!HasChild
    <3>3. SubSeq(p, 1, h) # Trie!Gone
      BY <2>3, NotGone
    <3> QED
      BY <2>1, <2>3, <3>1, <3>2, <3>3 DEF Trie!StepTo
  <2>6. CASE p[i][1] # "C"
    <3>1. ~Trie!HasChild(SubSeq(p, 1, h), <<"C", path[i]>>) /\ path[i] # "/"
      BY <2>4, <2>6 DEF Trie!Shadowed, Fits
    <3> QED
      BY <2>2, <2>3, <2>4, <2>6, <3>1, VariableStep DEF TrieInv
  <2> QED
    BY <2>5, <2>6
<1> DEFINE Wrong == {i \in 0 .. Len(path) : f[i] # SubSeq(p, 1, i)}
<1>4. Wrong = {}
  <2> SUFFICES ASSUME Wrong # {} PROVE FALSE
    OBVIOUS
  <2>1. PICK i \in Wrong : \A l \in Wrong : i <= l
    <3>1. Wrong \in SUBSET Nat
      BY <1>1
    <3> HIDE DEF Wrong
    <3> QED
      BY <3>1, LeastNumber
  <2>2. i # 0
    <3>1. SubSeq(p, 1, 0) = << >>
      BY <1>1
    <3> QED
      BY <1>2, <2>1, <3>1
  <2>3. i - 1 \in 0 .. Len(path) /\ i \in 1 .. Len(path) /\ ~(i <= i - 1)
    BY <1>1, <2>1, <2>2
  <2>4. f[i - 1] = SubSeq(p, 1, i - 1)
    BY <2>1, <2>3
  <2> QED
    BY <1>1, <1>2, <1>3, <2>1, <2>3, <2>4
<1>5. SubSeq(p, 1, Len(path)) = p /\ Len(path) \in 0 .. Len(path)
  BY <1>1
<1> QED
  BY <1>2, <1>4, <1>5

LEMMA Trimmed ==
  ASSUME NEW path \in Paths
  PROVE  /\ Trie!Trim(Append(path, "/"), "none") = path /\ Append(path, "/") # << >>
         /\ path # << >> => Trie!Trim(path, "none") = path
         /\ Trie!Trim(path, "good") = path
<1>1. path \in Seq(STRING) /\ (path # << >> => path[Len(path)] # "/")
  BY StructuresAssumption
<1> DEFINE longer == Append(path, "/")
<1>2. /\ longer \in Seq(STRING \cup {"/"}) /\ Len(longer) = Len(path) + 1 /\ Len(path) \in Nat
      /\ longer[Len(path) + 1] = "/" /\ \A i \in 1 .. Len(path) : longer[i] = path[i]
  <2> PICK s \in STRING \cup {"/"} : s = "/"
    OBVIOUS
  <2>1. path \in Seq(STRING \cup {"/"})
    BY <1>1
  <2>2. /\ Append(path, s) \in Seq(STRING \cup {"/"}) /\ Len(path) \in Nat /\ DOMAIN path = 1 .. Len(path)
        /\ DOMAIN Append(path, s) = 1 .. Len(path) + 1
        /\ \A i \in DOMAIN path : Append(path, s)[i] = path[i]
        /\ Append(path, s)[Len(path) + 1] = s
    BY <2>1, Appended
  <2>3. Len(Append(path, s)) = Len(path) + 1
    BY <2>1
  <2> QED
    BY <2>2, <2>3
<1>3. longer # << >>
  BY <1>2
<1>4. SubSeq(longer, 1, Len(longer) - 1) = path
  <2>1. Len(longer) - 1 = Len(path)
    BY <1>2
  <2>2. /\ SubSeq(longer, 1, Len(path)) \in Seq(STRING \cup {"/"}) /\ Len(SubSeq(longer, 1, Len(path))) = Len(path)
        /\ \A i \in 1 .. Len(path) : SubSeq(longer, 1, Len(path))[i] = longer[i]
    <3> HIDE DEF longer
    <3> QED
      BY <1>2
  <2> HIDE DEF longer
  <2>3. SubSeq(longer, 1, Len(path)) = path
    BY <1>1, <1>2, <2>2
  <2> QED
    BY <2>1, <2>3
<1>5. Trie!Trim(longer, "none") = path
  BY <1>2, <1>3, <1>4 DEF Trie!Trim, Trie!SE!Last, Trie!SE!Front, Trie!Slash, Trie!Table!Slash
<1>6. path # << >> => Trie!Trim(path, "none") = path
  BY <1>1 DEF Trie!Trim, Trie!SE!Last, Trie!Slash, Trie!Table!Slash
<1>7. Trie!Trim(path, "good") = path
  BY DEF Trie!Trim
<1> QED
  BY <1>3, <1>5, <1>6, <1>7

\* What Match answers for a path, whatever it ends in.
Answer(path) == IF Trie!Walk(path) = Trie!Gone THEN Trie!Gone
                ELSE IF trie[Trie!Walk(path)] = None THEN Trie!Gone ELSE Trie!Walk(path)

LEMMA Answers ==
  ASSUME NEW path \in Paths
  PROVE  /\ Trie!Match(Append(path, "/"), "none") = Answer(path)
         /\ path # << >> => Trie!Match(path, "none") = Answer(path)
         /\ Trie!Match(path, "good") = Answer(path)
         /\ Trie!SupportsUri(Append(path, "/"), "none")
              <=> Trie!Walk(path) # Trie!Gone /\ trie[Trie!Walk(path)] # None
<1>1. Trie!Accepted(Append(path, "/"), "none")
  BY Trimmed DEF Trie!Accepted
<1>2. path # << >> => Trie!Accepted(path, "none")
  BY DEF Trie!Accepted
<1>3. Trie!Accepted(path, "good")
  BY DEF Trie!Accepted
<1>4. Trie!Match(Append(path, "/"), "none") = Answer(path)
  BY <1>1, Trimmed DEF Trie!Match, Answer
<1>5. path # << >> => Trie!Match(path, "none") = Answer(path)
  BY <1>2, Trimmed DEF Trie!Match, Answer
<1>6. Trie!Match(path, "good") = Answer(path)
  BY <1>3, Trimmed DEF Trie!Match, Answer
<1> QED
  BY <1>1, <1>4, <1>5, <1>6, Trimmed DEF Trie!SupportsUri

LEMMA AnswerIsRight ==
  ASSUME TrieInv, NEW path \in Paths
  PROVE  /\ Answer(path) # Trie!Gone => /\ Trie!Table!IsInstance(path, Answer(path))
                                        /\ trie[Answer(path)] # None
         /\ \A p \in Patterns \cap DOMAIN trie :
              trie[p] # None /\ Trie!Table!IsInstance(path, p)
                /\ (\A i \in 1 .. Len(p) : ~Trie!Shadowed(p, path, i)) => Answer(path) = p
         /\ Answer(path) # Trie!Gone
              <=> Trie!Walk(path) # Trie!Gone /\ trie[Trie!Walk(path)] # None
<1>1. ASSUME Answer(path) # Trie!Gone
      PROVE  /\ Trie!Table!IsInstance(path, Answer(path)) /\ trie[Answer(path)] # None
  <2> PICK n : n = Trie!Walk(path)
    OBVIOUS
  <2>1. n # Trie!Gone /\ trie[n] # None /\ Answer(path) = n
    BY <1>1 DEF Answer
  <2>2. Walking(n, path, Len(path))
    BY WalkFinds
  <2>3. n \in DOMAIN trie /\ n \in Patterns /\ (Along(n, path, Len(path)) \/ Behind(n, path, Len(path)))
    BY <2>1, <2>2 DEF Walking, TrieInv, TrieNodes
  <2>4. ~Behind(n, path, Len(path))
    BY <2>3, StructuresAssumption DEF Behind
  <2>5. Trie!Table!IsInstance(path, n)
    BY <2>3, <2>4 DEF Along, Fits, Trie!Table!IsInstance, Trie!Table!Slash
  <2> QED
    BY <2>1, <2>5
<1>2. ASSUME NEW p \in Patterns \cap DOMAIN trie, trie[p] # None, Trie!Table!IsInstance(path, p),
             \A i \in 1 .. Len(p) : ~Trie!Shadowed(p, path, i)
      PROVE  Answer(path) = p
  <2>1. Trie!Walk(path) = p
    BY <1>2, WalkReaches DEF HasValue
  <2>2. p # Trie!Gone
    BY NotGone, StructuresAssumption
  <2> QED
    BY <1>2, <2>1, <2>2 DEF Answer
<1> QED
  BY <1>1, <1>2 DEF Answer

LEMMA MatchesRight == TrieInv => Trie!MatchIsRight
<1> SUFFICES ASSUME TrieInv PROVE Trie!MatchIsRight
  OBVIOUS
<1>1. ASSUME NEW path \in Paths
      PROVE  LET got == Trie!Match(Append(path, Trie!Slash), "none") IN
             /\ got # Trie!Gone => Trie!Table!IsInstance(path, got) /\ trie[got] # None
             /\ \A p \in Patterns \cap DOMAIN trie :
                  trie[p] # None /\ Trie!Table!IsInstance(path, p)
                    /\ (\A i \in 1 .. Len(p) : ~Trie!Shadowed(p, path, i)) => got = p
             /\ (path # << >> => Trie!Match(path, "none") = got) /\ Trie!Match(path, "good") = got
             /\ Trie!SupportsUri(Append(path, Trie!Slash), "none") <=> got # Trie!Gone
  BY Answers, AnswerIsRight DEF Trie!Slash, Trie!Table!Slash
<1>2. \A n \in DOMAIN trie \ {Trie!RootNode} :
        \E p \in Patterns : /\ Trie!SE!IsPrefix(n, p)
                            /\ p \in refused \/ (p \in DOMAIN trie /\ trie[p] # None)
  BY DEF TrieInv, TrieLeaves, HasValue, Trie!RootNode
<1> QED
  BY <1>1, <1>2, Zenon DEF Trie!MatchIsRight

-----------------------------------------------------------------------------
(* The trie and the lists beside the containers *)

\* A step of AllNext is, for the trie and the two lists, one of their own or none.
LEMMA OneStructure ==
  ASSUME [AllNext]_<<cacheVars, structureVars>>
  PROVE  [Trie!Next]_trieVars /\ [List!Next]_listVars /\ [Slice!Next]_sliceVars
<1>1. \/ UNCHANGED <<trieVars, listVars, sliceVars>>
      \/ /\ InTrie
         /\ \/ \E p \in Patterns, v \in Values, override \in BOOLEAN : Trie!Add(p, v, override)
            \/ \E p \in Patterns : Trie!AddRefused(p) \/ Trie!Remove(p)
            \/ Trie!RemoveAll
      \/ /\ InList
         /\ \/ \E e \in List!Ends : List!Push(e) \/ List!Take(e)
            \/ \E i \in 0 .. MaxNodes : List!Insert(i) \/ List!Remove(i)
      \/ /\ InSlice
         /\ \/ \E x \in Items : Slice!Add(x) \/ Slice!Remove(x)
            \/ \E i \in 0 .. MaxLen : Slice!RemoveAt(i)
            \/ Slice!Clear
  <2>1. CASE UNCHANGED <<cacheVars, structureVars>>
    BY <2>1 DEF structureVars
  <2>2. CASE CacheNext /\ UNCHANGED structureVars
    BY <2>2 DEF structureVars
  <2>3. CASE AllNext /\ ~(CacheNext /\ UNCHANGED structureVars)
    BY <2>3, Zenon DEF AllNext, InQueue, InIoc, InMigration
  <2> QED
    BY <2>1, <2>2, <2>3
<1>2. InTrie => UNCHANGED <<listVars, sliceVars>>
  BY DEF InTrie
<1>3. InList => UNCHANGED <<trieVars, sliceVars>>
  BY DEF InList
<1>4. InSlice => UNCHANGED <<trieVars, listVars>>
  BY DEF InSlice
<1> QED
  BY <1>1, <1>2, <1>3, <1>4, Zenon DEF Trie!Next, List!Next, Slice!Next

\* The invariant of the trie.
THEOREM TrieInvariant == AllSpec => []TrieInv
<1>1. AllInit => TrieInv
  BY TrieInit DEF AllInit
<1>2. TrieInv /\ [AllNext]_<<cacheVars, structureVars>> => TrieInv'
  BY OneStructure, TrieStep
<1> QED
  BY <1>1, <1>2, PTL DEF AllSpec

\* The trie implements the table of its patterns: for any patterns and values, adding,
\* replacing and removing one changes that pattern's value only, and Size counts them.
THEOREM TableImplemented == AllSpec => ImplementsTable
<1>1. AllInit => Trie!Table!Init
  BY TableInit DEF AllInit
<1>2. [AllNext]_<<cacheVars, structureVars>> => [Trie!Table!Next]_<<TableOf, trieSize>>
  BY OneStructure, TableStep
<1> QED
  BY <1>1, <1>2, PTL DEF AllSpec, ImplementsTable, Trie!ImplementsTable, Trie!Table!Spec, TableOf

\* What the trie finds fits the path and has a value; a pattern the path fits is found
\* unless another hides it, with a slash at the end or without one, and whatever the
\* characters of a bound segment; and each node leads to a pattern that was added: for
\* any patterns and paths.
THEOREM FoundRight == AllSpec => []MatchIsRight
<1>1. TrieInv => MatchIsRight
  BY MatchesRight DEF MatchIsRight
<1> QED
  BY <1>1, TrieInvariant, PTL
=============================================================================
