------------------------------ MODULE FileWriter ------------------------------
(***************************************************************************)
(* logging/file.go: writers that append records to the newest file of      *)
(* their prefix, go on to a new file when it is full, and find their file  *)
(* again after a restart by its name and time.  A record has size one.     *)
(***************************************************************************)
EXTENDS Naturals, Sequences

CONSTANTS
  Writers,      \* the log file prefixes, one writer each
  Matches,      \* Matches[w]: the prefixes that begin with w, w among them
  LogDataSize,  \* the size above which a file is full
  MaxRecords    \* the records ever written

VARIABLES
  files,      \* in the order of their names' times: [prefix, data]; 0 is half a record
  modified,   \* the files in the order in which they were last modified
  current,    \* per writer: its open file, 0 before it is started
  size,       \* per writer: what it takes for the size of that file
  records,    \* the records and halves of records so far; the latest has this number
  written,    \* history, per writer: the records Write has accepted
  failed      \* history: some rotation or write has failed

vars == <<files, modified, current, size, records, written, failed>>

Torn == 0
Named(w, fs) == {f \in DOMAIN fs : fs[f].prefix \in Matches[w]}

Create(w, fs) == Append(fs, [prefix |-> w, data |-> << >>])

\* An empty directory.
Init ==
  /\ files = << >> /\ modified = << >> /\ current = [w \in Writers |-> 0]
  /\ size = [w \in Writers |-> 0] /\ records = 0
  /\ written = [w \in Writers |-> << >>] /\ failed = FALSE

\* f becomes the last one.
Touch(f) ==
  LET at == CHOOSE i \in DOMAIN modified : modified[i] = f
      n  == Len(modified)
  IN  [i \in 1 .. n |-> IF i < at THEN modified[i] ELSE IF i < n THEN modified[i + 1] ELSE f]

\* A record is accepted, and the file given up for a new one if it is full now.
Write(w, canRotate) ==
  /\ current[w] # 0 /\ records < MaxRecords /\ records' = records + 1
  /\ LET n == records + 1
         grown == [files EXCEPT ![current[w]].data = Append(@, n)]
         full  == size[w] + 1 > LogDataSize
     IN  /\ written' = [written EXCEPT ![w] = Append(@, n)]
         /\ IF full /\ canRotate
            THEN /\ files' = Create(w, grown)
                 /\ modified' = Append(Touch(current[w]), Len(files) + 1)
                 /\ current' = [current EXCEPT ![w] = Len(files) + 1]
                 /\ size' = [size EXCEPT ![w] = 0]
            ELSE /\ files' = grown /\ modified' = Touch(current[w])
                 /\ size' = [size EXCEPT ![w] = @ + 1] /\ UNCHANGED current
         /\ failed' = (failed \/ (full /\ ~canRotate))

\* A write that fails leaves half a record, which the size does not count.
WriteFails(w) ==
  /\ current[w] # 0 /\ records < MaxRecords /\ records' = records + 1
  /\ files' = [files EXCEPT ![current[w]].data = Append(@, Torn)]
  /\ modified' = Touch(current[w])
  /\ failed' = TRUE
  /\ UNCHANGED <<current, size, written>>

\* The file modified last of those whose name begins with the prefix.
Newest(w) == CHOOSE f \in Named(w, files) :
  \E i \in DOMAIN modified :
    modified[i] = f /\ \A j \in i + 1 .. Len(modified) : modified[j] \notin Named(w, files)

\* A start, the first or after the process has ended.
NewFileWriter(w) ==
  /\ IF Named(w, files) = {}
     THEN /\ files' = Create(w, files) /\ modified' = Append(modified, Len(files) + 1)
          /\ current' = [current EXCEPT ![w] = Len(files) + 1]
          /\ size' = [size EXCEPT ![w] = 0]
     ELSE /\ current' = [current EXCEPT ![w] = Newest(w)]
          /\ size' = [size EXCEPT ![w] = Len(files[Newest(w)].data)]
          /\ UNCHANGED <<files, modified>>
  /\ UNCHANGED <<records, written, failed>>

Next == \E w \in Writers : \/ \E canRotate \in BOOLEAN : Write(w, canRotate)
                           \/ WriteFails(w) \/ NewFileWriter(w)

Spec == Init /\ [][Next]_vars

-----------------------------------------------------------------------------
ToSet(s) == {s[i] : i \in DOMAIN s}

\* Types.
TypeOK ==
  /\ files \in Seq([prefix : Writers, data : Seq(0 .. MaxRecords)])
  /\ current \in [Writers -> 0 .. Len(files)] /\ size \in [Writers -> Nat]
  /\ Len(modified) = Len(files) /\ ToSet(modified) = DOMAIN files

\* f and i come before g and j in the files of w.
Precedes(w, f, i, g, j) ==
  /\ files[f].prefix = w /\ files[g].prefix = w
  /\ f < g \/ (f = g /\ i < j)

\* No record is lost.  The files of a writer whose prefix no other file's name begins
\* with hold its records, all of them and no others, in the order of the writes, across
\* rotations and restarts; and if nothing has failed no file has more than one record
\* too many.
RecordsInOrder ==
  /\ \A w \in Writers : \A n \in ToSet(written[w]) :
       \E f \in Named(w, files) : n \in ToSet(files[f].data)
  /\ \A w \in Writers :
       (\A v \in Writers \ {w} : w \notin Matches[v] /\ v \notin Matches[w]) =>
         /\ \A f \in DOMAIN files : files[f].prefix = w =>
              ToSet(files[f].data) \subseteq ToSet(written[w]) \cup {Torn}
         /\ \A f, g \in DOMAIN files : \A i \in DOMAIN files[f].data, j \in DOMAIN files[g].data :
              Precedes(w, f, i, g, j) =>
                files[f].data[i] < files[g].data[j] \/ Torn \in {files[f].data[i], files[g].data[j]}
  /\ ~failed => \A f \in DOMAIN files :
       (\A v \in Writers \ {files[f].prefix} : files[f].prefix \notin Matches[v]) =>
         Len(files[f].data) <= LogDataSize + 1
===============================================================================
