-------------------------- MODULE BacktestRunsProofs --------------------------
(***************************************************************************)
(* What the catalogue of backtest runs and the datasets promise, for any    *)
(* number of runs, jobs, markets and faults.                                *)
(***************************************************************************)
EXTENDS BacktestRuns, TLAPS

PC == Open \cup {"new", "done", "dead"}

\* The shape of the variables the argument is about.
Shape ==
    /\ rows \in [Runs -> Row \cup {NoRow}]
    /\ DOMAIN artifacts = Runs
    /\ tmp \in Runs \cup {NoFile}
    /\ latest \in Runs \cup {NoFile}
    /\ text \in [Runs -> Texts]
    /\ overlap \in BOOLEAN
    /\ run \in [Runs -> [pc : PC, next : Nat \ {0}, loaded : SUBSET Markets, fd : Runs \cup {NoFile}]]

\* While a run is under way its row says RUNNING; once it has saved its artifact,
\* the artifact is there.
AfterSave == {"open", "write", "rename", "finish"}
RowsFollow ==
    \A r \in Runs :
        /\ run[r].pc \in Open => Status(r, "RUNNING")
        /\ rows[r] # NoRow => (rows[r].artifact_path <=> rows[r].status = "SUCCEEDED")
        /\ run[r].pc = "save" => run[r].loaded # {}
        /\ run[r].pc \in AfterSave \/ Status(r, "SUCCEEDED") => artifacts[r] \notin {NoFile, {}}

\* Whatever file it is in, the text of a run is that of a saved one.
TextsAreSaved ==
    \A f \in Runs : text[f] \in Runs =>
        rows[text[f]] # NoRow /\ artifacts[text[f]] # NoFile

\* A file has the id of a run that has opened its temporary file; and as long as
\* no two runs wrote at once, one run at most is writing, the temporary file is
\* its own, and latest.json is another file, complete.
Unopened == {"new", "load", "save", "open"}
Writers == {r \in Runs : run[r].pc \in {"write", "rename"}}
FilesAreOpened ==
    \A f \in {tmp, latest} \ {NoFile} : run[f].pc \notin Unopened
OneWriter ==
    ~overlap =>
        /\ \A q, r \in Writers : q = r
        /\ \A r \in Writers :
              /\ run[r].fd = tmp /\ tmp # NoFile
              /\ run[r].pc = "write" => text[tmp] = "nothing"
              /\ run[r].pc = "rename" => text[tmp] \in Runs
        /\ latest # NoFile => text[latest] \in Runs /\ latest # tmp

IInv == Shape /\ RowsFollow /\ TextsAreSaved /\ FilesAreOpened /\ OneWriter

LEMMA InvariantImplies == IInv => SucceededRunsAreKept /\ LatestIsStored /\ LatestReadable
<1> SUFFICES ASSUME IInv PROVE SucceededRunsAreKept /\ LatestIsStored /\ LatestReadable
  OBVIOUS
<1>1. SucceededRunsAreKept
  BY DEF IInv, RowsFollow, SucceededRunsAreKept, Status
<1>2. LatestIsStored
  BY DEF IInv, Shape, TextsAreSaved, LatestIsStored
<1>3. LatestReadable
  BY DEF IInv, OneWriter, LatestReadable
<1> QED
  BY <1>1, <1>2, <1>3

LEMMA InitialInvariant == Init => IInv
<1> SUFFICES ASSUME Init PROVE IInv
  OBVIOUS
<1>1. Shape
  <2>1. [pc |-> "new", next |-> 1, loaded |-> {}, fd |-> NoFile]
          \in [pc : PC, next : Nat \ {0}, loaded : SUBSET Markets, fd : Runs \cup {NoFile}]
    BY DEF PC
  <2>2. run \in [Runs -> [pc : PC, next : Nat \ {0}, loaded : SUBSET Markets,
                         fd : Runs \cup {NoFile}]]
    BY <2>1 DEF Init
  <2> QED
    BY <2>2 DEF Init, Shape, Texts
<1>2. RowsFollow
  BY DEF Init, RowsFollow, Open, AfterSave, Status
<1>3. TextsAreSaved
  BY RunsAssumption DEF Init, TextsAreSaved
<1>4. FilesAreOpened /\ OneWriter
  BY DEF Init, FilesAreOpened, OneWriter, Writers
<1> QED
  BY <1>1, <1>2, <1>3, <1>4 DEF IInv

\* A step that leaves rows, artifacts and files alone keeps the invariant if the
\* run goes where it may go.
LEMMA ControlStep ==
    ASSUME IInv, NEW r \in Runs, UNCHANGED <<rows, fileVars, overlap>>,
           run' \in [Runs -> [pc : PC, next : Nat \ {0}, loaded : SUBSET Markets,
                              fd : Runs \cup {NoFile}]],
           \A q \in Runs \ {r} : run'[q] = run[q],
           run'[r].fd = run[r].fd,
           run'[r].pc \in Open => run[r].pc \in Open,
           run'[r].pc = "save" => run'[r].loaded # {},
           run'[r].pc \notin {"open", "write", "rename", "finish"},
           run'[r].pc \in Unopened => run[r].pc \in Unopened
    PROVE  IInv'
<1>1. Shape'
  BY DEF IInv, Shape, fileVars
<1>2. RowsFollow'
  BY DEF IInv, RowsFollow, Status, fileVars, AfterSave
<1>3. TextsAreSaved'
  BY DEF IInv, TextsAreSaved, fileVars
<1>4. FilesAreOpened'
  BY DEF IInv, Shape, FilesAreOpened, fileVars
<1>5. Writers' \subseteq Writers /\ \A q \in Writers' : run'[q] = run[q]
  BY DEF Writers
<1>6. OneWriter'
  BY <1>5 DEF IInv, OneWriter, fileVars
<1> QED
  BY <1>1, <1>2, <1>3, <1>4, <1>6 DEF IInv

LEMMA EnterFacts ==
    ASSUME IInv, NEW r \in Runs, NEW label \in PC, Enter(r, label)
    PROVE  /\ run' \in [Runs -> [pc : PC, next : Nat \ {0}, loaded : SUBSET Markets,
                                 fd : Runs \cup {NoFile}]]
           /\ \A q \in Runs \ {r} : run'[q] = run[q]
           /\ run'[r].pc = label
           /\ run'[r].fd = run[r].fd
           /\ run'[r].loaded = run[r].loaded
  BY DEF IInv, Shape, Enter

\* An exception, the end of a process, and the end of a run change nothing else.
LEMMA LeaveStep ==
    ASSUME IInv, NEW r \in Runs, UNCHANGED <<rows, fileVars, overlap>>,
           \/ run[r].pc \in Open /\ (Enter(r, "failing") \/ Enter(r, "dead"))
           \/ Enter(r, "done")
    PROVE  IInv'
<1>1. PICK label \in {"failing", "dead", "done"} :
          Enter(r, label) /\ (label # "done" => run[r].pc \in Open)
  OBVIOUS
<1>2. label \in PC
  BY <1>1 DEF PC, Open
<1>3. /\ run'[r].pc \in Open => run[r].pc \in Open
      /\ run'[r].pc \notin {"save", "open", "write", "rename", "finish"}
      /\ run'[r].pc \notin Unopened
  BY <1>1, <1>2, EnterFacts DEF Open, Unopened
<1> QED
  BY <1>1, <1>2, <1>3, EnterFacts, ControlStep

LEMMA StartStep == ASSUME IInv, NEW r \in Runs, Start(r) PROVE IInv'
<1>1. CASE Enter(r, "done") /\ UNCHANGED rows
  BY <1>1, LeaveStep DEF Start
<1>2. CASE /\ rows' = [rows EXCEPT ![r] = [status |-> "RUNNING", artifact_path |-> FALSE]]
           /\ Enter(r, "load")
  <2>1. UNCHANGED <<fileVars, overlap>> /\ run[r].pc = "new"
    BY DEF Start, In
  <2>2. "load" \in PC
    BY DEF PC, Open
  <2>3. /\ rows' \in [Runs -> Row \cup {NoRow}]
        /\ rows'[r] = [status |-> "RUNNING", artifact_path |-> FALSE]
        /\ \A q \in Runs \ {r} : rows'[q] = rows[q]
        /\ rows'[r] \in Row
    BY <1>2 DEF IInv, Shape, Row
  <2>4. Shape'
    BY <1>2, <2>1, <2>2, <2>3, EnterFacts DEF IInv, Shape, fileVars
  <2>5. RowsFollow'
    <3>1. /\ rows'[r] # NoRow /\ rows'[r].status = "RUNNING" /\ ~rows'[r].artifact_path
          /\ run'[r].pc = "load"
      BY <1>2, <2>2, <2>3, RunsAssumption, EnterFacts
    <3> QED
      BY <1>2, <2>1, <2>2, <2>3, <3>1, EnterFacts
         DEF IInv, RowsFollow, Status, AfterSave, fileVars
  <2>6. TextsAreSaved'
    <3>1. \A q \in Runs : rows[q] # NoRow => rows'[q] # NoRow
      BY <2>3, RunsAssumption
    <3> QED
      BY <2>1, <3>1 DEF IInv, TextsAreSaved, fileVars
  <2>7. FilesAreOpened' /\ OneWriter'
    <3>1. Writers' = Writers /\ \A q \in Writers : run'[q] = run[q]
      BY <1>2, <2>1, <2>2, EnterFacts DEF Writers
    <3>2. OneWriter'
      BY <2>1, <3>1 DEF IInv, OneWriter, fileVars
    <3>3. FilesAreOpened'
      BY <1>2, <2>1, <2>2, EnterFacts DEF IInv, Shape, FilesAreOpened, Unopened, fileVars
    <3> QED
      BY <3>2, <3>3
  <2> QED
    BY <2>4, <2>5, <2>6, <2>7 DEF IInv
<1> QED
  BY <1>1, <1>2 DEF Start

LEMMA LoadBarsStep == ASSUME IInv, NEW r \in Runs, LoadBars(r) PROVE IInv'
<1>1. run[r].pc = "load" /\ run[r].pc \in Open /\ UNCHANGED <<rows, fileVars, overlap>>
  BY DEF LoadBars, In, Open
<1>2. CASE Enter(r, "failing")
  BY <1>1, <1>2, LeaveStep
<1>3. CASE run' = [run EXCEPT ![r].next = @ + 1,
                              ![r].loaded = @ \cup ({Market(bars.job)}
                                                    \cap {Universe[run[r].next]})]
  <2>1. run[r] \in [pc : PC, next : Nat \ {0}, loaded : SUBSET Markets, fd : Runs \cup {NoFile}]
    BY DEF IInv, Shape
  <2>2. Universe[run[r].next] \in Markets
    BY <2>1, RunsAssumption DEF LoadBars
  <2> DEFINE more == run[r].loaded \cup ({Market(bars.job)} \cap {Universe[run[r].next]})
  <2>3. run[r].next + 1 \in Nat \ {0} /\ more \in SUBSET Markets
    BY <2>1, <2>2
  <2>4. run' = [run EXCEPT ![r].next = run[r].next + 1, ![r].loaded = more]
    BY <1>3
  <2> HIDE DEF more
  <2>5. \A n \in Nat \ {0}, l \in SUBSET Markets :
           [run[r] EXCEPT !.next = n, !.loaded = l]
             \in [pc : PC, next : Nat \ {0}, loaded : SUBSET Markets, fd : Runs \cup {NoFile}]
    BY <2>1
  <2>6. /\ DOMAIN run' = Runs /\ (\A q \in Runs \ {r} : run'[q] = run[q])
        /\ run'[r] = [run[r] EXCEPT !.next = run[r].next + 1, !.loaded = more]
    BY <2>4 DEF IInv, Shape
  <2>7. run'[r] \in [pc : PC, next : Nat \ {0}, loaded : SUBSET Markets, fd : Runs \cup {NoFile}]
    BY <2>3, <2>5, <2>6
  <2>8. run' = [q \in Runs |-> run'[q]]
    BY <2>4 DEF IInv, Shape
  <2>9. /\ run' \in [Runs -> [pc : PC, next : Nat \ {0}, loaded : SUBSET Markets,
                              fd : Runs \cup {NoFile}]]
        /\ \A q \in Runs \ {r} : run'[q] = run[q]
        /\ run'[r].pc = "load" /\ run'[r].fd = run[r].fd
    <3>1. \A q \in Runs : run'[q] \in [pc : PC, next : Nat \ {0}, loaded : SUBSET Markets,
                                       fd : Runs \cup {NoFile}]
      BY <2>6, <2>7 DEF IInv, Shape
    <3>2. run'[r].pc = "load" /\ run'[r].fd = run[r].fd
      BY <1>1, <2>1, <2>6
    <3> QED
      BY <2>6, <2>8, <3>1, <3>2
  <2> QED
    BY <1>1, <2>9, ControlStep DEF Open
<1> QED
  BY <1>2, <1>3 DEF LoadBars, Raise

LEMMA SimulateStep == ASSUME IInv, NEW r \in Runs, Simulate(r) PROVE IInv'
<1>1. run[r].pc = "load" /\ run[r].pc \in Open /\ UNCHANGED <<rows, fileVars, overlap>>
  BY DEF Simulate, In, Open
<1>2. CASE Enter(r, "failing")
  BY <1>1, <1>2, LeaveStep
<1>3. CASE run[r].loaded # {} /\ Enter(r, "save")
  <2>1. "save" \in PC
    BY DEF PC, Open
  <2>2. /\ run'[r].pc = "save" /\ run'[r].loaded # {}
        /\ run[r].pc \in Unopened
    BY <1>1, <1>3, <2>1, EnterFacts DEF Unopened
  <2> QED
    BY <1>1, <1>3, <2>1, <2>2, EnterFacts, ControlStep DEF Open
<1> QED
  BY <1>2, <1>3 DEF Simulate

LEMMA SaveArtifactStep == ASSUME IInv, NEW r \in Runs, SaveArtifact(r) PROVE IInv'
<1>1. run[r].pc = "save" /\ UNCHANGED <<rows, tmp, latest, text, overlap>>
  BY DEF SaveArtifact, In
<1>2. CASE Enter(r, "failing") /\ UNCHANGED artifacts
  BY <1>1, <1>2, LeaveStep DEF Open, fileVars
<1>3. CASE artifacts' = [artifacts EXCEPT ![r] = run[r].loaded] /\ Enter(r, "open")
  <2>1. "open" \in PC
    BY DEF PC, Open
  <2>2. run[r].loaded \notin {NoFile, {}}
    <3>1. run[r].loaded \in SUBSET Markets
      BY DEF IInv, Shape
    <3> QED
      BY <1>1, <3>1, RunsAssumption DEF IInv, RowsFollow
  <2>3. /\ DOMAIN artifacts' = Runs /\ artifacts'[r] \notin {NoFile, {}}
        /\ \A q \in Runs \ {r} : artifacts'[q] = artifacts[q]
    BY <1>3, <2>2 DEF IInv, Shape
  <2>4. Shape'
    BY <1>1, <1>3, <2>1, <2>3, EnterFacts DEF IInv, Shape
  <2>5. RowsFollow'
    BY <1>1, <1>3, <2>1, <2>3, EnterFacts DEF IInv, RowsFollow, Status, AfterSave, Open
  <2>6. TextsAreSaved'
    BY <1>1, <2>3 DEF IInv, TextsAreSaved
  <2>7. FilesAreOpened'
    BY <1>1, <1>3, <2>1, EnterFacts DEF IInv, Shape, FilesAreOpened, Unopened
  <2>8. Writers' = Writers /\ \A q \in Writers : run'[q] = run[q]
    BY <1>1, <1>3, <2>1, EnterFacts DEF Writers
  <2>9. OneWriter'
    BY <1>1, <2>8 DEF IInv, OneWriter
  <2> QED
    BY <2>4, <2>5, <2>6, <2>7, <2>9 DEF IInv
<1> QED
  BY <1>2, <1>3 DEF SaveArtifact, Raise

\* As long as nobody writes over another, whoever opens the temporary file finds
\* nobody writing, and the file it gets is not latest.json.
LEMMA OpenTemporaryStep == ASSUME IInv, NEW r \in Runs, OpenTemporary(r) PROVE IInv'
<1> DEFINE f == IF tmp = NoFile THEN r ELSE tmp
<1>1. run[r].pc = "open" /\ UNCHANGED <<rows, artifacts, latest>>
  BY DEF OpenTemporary, In
<1>2. CASE Enter(r, "failing") /\ UNCHANGED <<tmp, text, overlap>>
  BY <1>1, <1>2, LeaveStep DEF Open, fileVars
<1>3. CASE /\ tmp' = f
           /\ text' = [text EXCEPT ![f] = "nothing"]
           /\ run' = [run EXCEPT ![r].pc = "write", ![r].fd = f]
           /\ overlap' = (overlap \/ \E q \in Runs \ {r} : Writing(q, f))
  <2>1. f \in Runs
    BY DEF IInv, Shape
  <2>2. run[r] \in [pc : PC, next : Nat \ {0}, loaded : SUBSET Markets, fd : Runs \cup {NoFile}]
    BY DEF IInv, Shape
  <2>3. /\ DOMAIN run' = Runs /\ (\A q \in Runs \ {r} : run'[q] = run[q])
        /\ run'[r] = [run[r] EXCEPT !.pc = "write", !.fd = f]
        /\ run' = [q \in Runs |-> run'[q]]
    BY <1>3 DEF IInv, Shape
  <2>4. "write" \in PC
    BY DEF PC, Open
  <2>5. /\ run'[r] \in [pc : PC, next : Nat \ {0}, loaded : SUBSET Markets,
                        fd : Runs \cup {NoFile}]
        /\ run'[r].pc = "write" /\ run'[r].fd = f
    BY <2>1, <2>2, <2>3, <2>4
  <2>6. run' \in [Runs -> [pc : PC, next : Nat \ {0}, loaded : SUBSET Markets,
                          fd : Runs \cup {NoFile}]]
    BY <2>3, <2>5 DEF IInv, Shape
  <2>7. /\ text' \in [Runs -> Texts] /\ text'[f] = "nothing"
        /\ \A g \in Runs \ {f} : text'[g] = text[g]
    BY <1>3, <2>1 DEF IInv, Shape, Texts
  <2>8. Shape'
    BY <1>1, <1>3, <2>1, <2>6, <2>7 DEF IInv, Shape
  <2>9. RowsFollow'
    <3>1. \A q \in Runs : /\ run'[q].pc \in Open => run[q].pc \in Open
                          /\ run'[q].pc = "save" => run'[q] = run[q]
                          /\ run'[q].pc \in AfterSave => run[q].pc \in AfterSave
      BY <1>1, <2>3, <2>5 DEF Open, AfterSave
    <3> QED
      BY <1>1, <3>1 DEF IInv, RowsFollow, Status
  <2>10. TextsAreSaved'
    BY <1>1, <2>1, <2>7, RunsAssumption DEF IInv, TextsAreSaved
  <2>11. FilesAreOpened'
    BY <1>1, <1>3, <2>3, <2>5 DEF IInv, Shape, FilesAreOpened, Unopened
  <2>12. ASSUME ~overlap' PROVE Writers = {} /\ ~overlap
    <3>1. ~overlap /\ \A q \in Runs \ {r} : ~Writing(q, f)
      BY <1>3, <2>12
    <3>2. \A q \in Writers : Writing(q, f) /\ q \in Runs \ {r}
      BY <1>1, <3>1 DEF IInv, OneWriter, Writers, Writing
    <3> QED
      BY <3>1, <3>2
  <2>13. OneWriter'
    <3> SUFFICES ASSUME ~overlap' PROVE
                 /\ \A q \in Writers' : q = r
                 /\ tmp' # NoFile
                 /\ latest' # NoFile => text'[latest'] \in Runs /\ latest' # tmp'
      BY <1>3, <2>5, <2>7 DEF OneWriter
    <3>1. \A q \in Writers' : q = r
      BY <2>3, <2>12 DEF Writers
    <3>2. tmp' # NoFile
      BY <1>3, <2>1, RunsAssumption
    <3>3. latest # NoFile => latest # f
      BY <1>1, <2>12 DEF IInv, OneWriter, FilesAreOpened, Unopened
    <3>4. latest # NoFile => text'[latest] = text[latest] /\ text[latest] \in Runs
      BY <2>7, <2>12, <3>3 DEF IInv, Shape, OneWriter
    <3> QED
      BY <1>1, <1>3, <3>1, <3>2, <3>3, <3>4
  <2> QED
    BY <2>8, <2>9, <2>10, <2>11, <2>13 DEF IInv
<1> QED
  BY <1>2, <1>3 DEF OpenTemporary, Raise

LEMMA WriteTemporaryStep == ASSUME IInv, NEW r \in Runs, WriteTemporary(r) PROVE IInv'
<1>1. run[r].pc = "write" /\ UNCHANGED <<rows, artifacts, tmp, latest, overlap>>
  BY DEF WriteTemporary, In
<1>2. CASE Enter(r, "failing") /\ UNCHANGED text
  BY <1>1, <1>2, LeaveStep DEF Open, fileVars
<1>3. ASSUME NEW t \in IF text[run[r].fd] = "nothing" THEN {r} ELSE {r, "mixture"},
             text' = [text EXCEPT ![run[r].fd] = t], Enter(r, "rename")
      PROVE  IInv'
  <2> DEFINE f == run[r].fd
  <2>1. "rename" \in PC
    BY DEF PC, Open
  <2>2. /\ text' \in [Runs -> Texts]
        /\ \A g \in Runs : text'[g] = IF g = f THEN t ELSE text[g]
    BY <1>3 DEF IInv, Shape, Texts
  <2>3. \A g \in Runs : text'[g] \in Runs => text'[g] = r \/ text'[g] = text[g]
    BY <1>3, <2>2, RunsAssumption
  <2>4. Shape'
    BY <1>1, <1>3, <2>1, <2>2, EnterFacts DEF IInv, Shape
  <2>5. RowsFollow'
    <3>1. \A q \in Runs : /\ run'[q].pc \in Open => run[q].pc \in Open
                          /\ run'[q].pc = "save" => run'[q] = run[q]
                          /\ run'[q].pc \in AfterSave => run[q].pc \in AfterSave
      BY <1>1, <1>3, <2>1, EnterFacts DEF Open, AfterSave
    <3> QED
      BY <1>1, <3>1 DEF IInv, RowsFollow, Status
  <2>6. TextsAreSaved'
    <3>1. rows[r] # NoRow /\ artifacts[r] # NoFile
      BY <1>1 DEF IInv, RowsFollow, Status, Open, AfterSave
    <3> QED
      BY <1>1, <2>3, <3>1 DEF IInv, TextsAreSaved
  <2>7. FilesAreOpened'
    BY <1>1, <1>3, <2>1, EnterFacts DEF IInv, Shape, FilesAreOpened, Unopened
  <2>8. OneWriter'
    <3> SUFFICES ASSUME ~overlap' PROVE OneWriter'
      BY DEF OneWriter
    <3>1. Writers' = Writers /\ r \in Writers
      BY <1>1, <1>3, <2>1, EnterFacts DEF Writers
    <3>2. ~overlap /\ f = tmp /\ tmp \in Runs /\ text[tmp] = "nothing"
      BY <1>1, <3>1 DEF IInv, Shape, OneWriter
    <3>3. text'[tmp] = r
      BY <1>3, <2>2, <3>2
    <3>4. latest # NoFile => text'[latest] = text[latest]
      BY <2>2, <3>2 DEF IInv, Shape, OneWriter
    <3>5. run'[r].pc = "rename" /\ run'[r].fd = tmp
      BY <1>3, <2>1, <3>2, EnterFacts
    <3> QED
      BY <1>1, <3>1, <3>2, <3>3, <3>4, <3>5 DEF IInv, OneWriter
  <2> QED
    BY <2>4, <2>5, <2>6, <2>7, <2>8 DEF IInv
<1> QED
  BY <1>2, <1>3 DEF WriteTemporary, Raise

LEMMA RenameStep == ASSUME IInv, NEW r \in Runs, Rename(r) PROVE IInv'
<1>1. run[r].pc = "rename" /\ UNCHANGED <<rows, artifacts, text, overlap>>
  BY DEF Rename, In
<1>2. CASE Enter(r, "failing") /\ UNCHANGED <<tmp, latest>>
  BY <1>1, <1>2, LeaveStep DEF Open, fileVars
<1>3. CASE tmp # NoFile /\ latest' = tmp /\ tmp' = NoFile /\ Enter(r, "finish")
  <2>1. "finish" \in PC
    BY DEF PC, Open
  <2>2. Shape'
    BY <1>1, <1>3, <2>1, EnterFacts DEF IInv, Shape
  <2>3. RowsFollow'
    <3>1. \A q \in Runs : /\ run'[q].pc \in Open => run[q].pc \in Open
                          /\ run'[q].pc = "save" => run'[q] = run[q]
                          /\ run'[q].pc \in AfterSave => run[q].pc \in AfterSave
      BY <1>1, <1>3, <2>1, EnterFacts DEF Open, AfterSave
    <3> QED
      BY <1>1, <3>1 DEF IInv, RowsFollow, Status
  <2>4. TextsAreSaved'
    BY <1>1 DEF IInv, TextsAreSaved
  <2>5. FilesAreOpened'
    BY <1>1, <1>3, <2>1, EnterFacts DEF IInv, Shape, FilesAreOpened, Unopened
  <2>6. OneWriter'
    <3> SUFFICES ASSUME ~overlap' PROVE OneWriter'
      BY DEF OneWriter
    <3>1. Writers' = Writers \ {r} /\ r \in Writers
      BY <1>1, <1>3, <2>1, EnterFacts DEF Writers
    <3>2. Writers' = {} /\ text[tmp] \in Runs
      BY <1>1, <3>1 DEF IInv, OneWriter
    <3> QED
      BY <1>1, <1>3, <3>2 DEF OneWriter
  <2> QED
    BY <2>2, <2>3, <2>4, <2>5, <2>6 DEF IInv
<1> QED
  BY <1>2, <1>3 DEF Rename, Raise

\* The end of a run: its row gets its last status, nothing else changes.
LEMMA EndStep ==
    ASSUME IInv, NEW r \in Runs, UNCHANGED <<fileVars, overlap>>,
           run[r].pc \in {"finish", "failing"}, Enter(r, "done"),
           NEW row \in Row, rows' = [rows EXCEPT ![r] = row],
           row.artifact_path <=> row.status = "SUCCEEDED",
           row.status = "SUCCEEDED" => run[r].pc = "finish"
    PROVE  IInv'
<1>1. "done" \in PC
  BY DEF PC
<1>2. /\ rows' \in [Runs -> Row \cup {NoRow}]
      /\ rows'[r] = row /\ row # NoRow
      /\ \A q \in Runs \ {r} : rows'[q] = rows[q]
  BY RunsAssumption DEF IInv, Shape
<1>3. Shape'
  BY <1>1, <1>2, EnterFacts DEF IInv, Shape, fileVars
<1>4. RowsFollow'
  BY <1>1, <1>2, EnterFacts DEF IInv, RowsFollow, Status, AfterSave, Open, fileVars
<1>5. TextsAreSaved'
  BY <1>2 DEF IInv, TextsAreSaved, fileVars
<1>6. FilesAreOpened'
  BY <1>1, EnterFacts DEF IInv, Shape, FilesAreOpened, Unopened, fileVars
<1>7. Writers' = Writers /\ \A q \in Writers : run'[q] = run[q]
  BY <1>1, EnterFacts DEF Writers
<1>8. OneWriter'
  BY <1>7 DEF IInv, OneWriter, fileVars
<1> QED
  BY <1>3, <1>4, <1>5, <1>6, <1>8 DEF IInv

LEMMA FinishStep == ASSUME IInv, NEW r \in Runs, Finish(r) PROVE IInv'
<1>1. run[r].pc = "finish" /\ UNCHANGED <<fileVars, overlap>>
  BY DEF Finish, In
<1>2. CASE Enter(r, "failing") /\ UNCHANGED rows
  BY <1>1, <1>2, LeaveStep DEF Open
<1>3. CASE /\ rows' = [rows EXCEPT ![r] = [status |-> "SUCCEEDED", artifact_path |-> TRUE]]
           /\ Enter(r, "done")
  <2> DEFINE row == [status |-> "SUCCEEDED", artifact_path |-> TRUE]
  <2>1. row \in Row /\ row.artifact_path /\ row.status = "SUCCEEDED"
    BY DEF Row
  <2>2. rows' = [rows EXCEPT ![r] = row]
    BY <1>3
  <2> HIDE DEF row
  <2> QED
    BY <1>1, <1>3, <2>1, <2>2, EndStep
<1> QED
  BY <1>2, <1>3 DEF Finish

LEMMA FailStep == ASSUME IInv, NEW r \in Runs, Fail(r) PROVE IInv'
<1>1. run[r].pc = "failing" /\ Enter(r, "done") /\ UNCHANGED <<fileVars, overlap>>
  BY DEF Fail, In
<1>2. CASE UNCHANGED rows
  BY <1>1, <1>2, LeaveStep
<1>3. CASE rows' = [rows EXCEPT ![r].status = "FAILED"]
  <2> DEFINE row == [rows[r] EXCEPT !.status = "FAILED"]
  <2>1. rows[r] \in Row /\ ~rows[r].artifact_path
    BY <1>1 DEF IInv, Shape, RowsFollow, Status, Open
  <2>2. row \in Row /\ ~row.artifact_path /\ row.status = "FAILED"
    BY <2>1 DEF Row
  <2>3. rows' = [rows EXCEPT ![r] = row]
    BY <1>3 DEF IInv, Shape
  <2> HIDE DEF row
  <2> QED
    BY <1>1, <2>2, <2>3, EndStep
<1> QED
  BY <1>2, <1>3 DEF Fail

LEMMA CrashStep == ASSUME IInv, NEW r \in Runs, Crash(r) PROVE IInv'
  BY LeaveStep DEF Crash

LEMMA InvariantStep == IInv /\ [Next]_vars => IInv'
<1> SUFFICES ASSUME IInv, [Next]_vars PROVE IInv'
  OBVIOUS
<1>1. CASE UNCHANGED <<rows, fileVars, run, overlap>>
  BY <1>1 DEF IInv, Shape, RowsFollow, Status, TextsAreSaved, FilesAreOpened, OneWriter,
              Writers, fileVars
<1>2. ASSUME NEW r \in Runs, _run_resolved(r) \/ Crash(r) PROVE IInv'
  BY <1>2, StartStep, LoadBarsStep, SimulateStep, SaveArtifactStep, OpenTemporaryStep,
     WriteTemporaryStep, RenameStep, FinishStep, FailStep, CrashStep DEF _run_resolved
<1> QED
  BY <1>1, <1>2 DEF Next, vars

LEMMA Invariant == Spec => []IInv
<1> QED
  BY InitialInvariant, InvariantStep, PTL DEF Spec

\* A run that strategy_runs shows as succeeded has its path and a complete artifact
\* that rests on data, and a failed one has no path, for any number of runs and jobs
\* and any faults.
THEOREM RunsAreKept == Spec => []SucceededRunsAreKept
  BY Invariant, InvariantImplies, PTL

\* Whatever result latest.json holds is that of a run with a row and an artifact.
THEOREM LatestIsKept == Spec => []LatestIsStored
  BY Invariant, InvariantImplies, PTL

\* As long as no two runs wrote the temporary file at once, latest.json is complete,
\* at any moment and wherever a run died.
THEOREM LatestIsReadable == Spec => []LatestReadable
  BY Invariant, InvariantImplies, PTL

-----------------------------------------------------------------------------
(***************************************************************************)
(* The types.                                                              *)
(***************************************************************************)
Labels == {"new", "raw", "report", "quarantine", "write", "unlink", "copy", "copying"} \cup Ended
JobType == [pc : Labels, call : Calls]
RunType == [pc : PC, next : 1 .. Len(Universe) + 1, loaded : SUBSET Markets,
            fd : Runs \cup {NoFile}]

\* TypeOK, part by part.
FilesTyped ==
    /\ bars \in Dataset \cup {NoFile}
    /\ raw \in [Stamps -> File] /\ reports \in [Stamps -> File]
    /\ quarantine \in [Stamps -> File]
JobsTyped == job \in [Jobs -> JobType]
BudgetTyped == budget \in [FaultKinds -> Nat]
ResultsTyped ==
    /\ artifacts \in [Runs -> (SUBSET Markets) \cup {NoFile}]
    /\ run \in [Runs -> RunType]

LEMMA TypeParts == TypeOK <=> FilesTyped /\ JobsTyped /\ BudgetTyped /\ ResultsTyped
                                /\ rows \in [Runs -> Row \cup {NoRow}]
                                /\ tmp \in Runs \cup {NoFile} /\ latest \in Runs \cup {NoFile}
                                /\ text \in [Runs -> Texts] /\ overlap \in BOOLEAN
BY DEF TypeOK, IngestionTypeOK, FilesTyped, JobsTyped, BudgetTyped, ResultsTyped, JobType,
       Labels, RunType, PC

LEMMA NextTypeParts == Shape' /\ FilesTyped' /\ JobsTyped' /\ BudgetTyped' /\ ResultsTyped'
                         => TypeOK'
<1>1. TypeOK' <=> FilesTyped' /\ JobsTyped' /\ BudgetTyped' /\ ResultsTyped'
                    /\ rows' \in [Runs -> Row \cup {NoRow}]
                    /\ tmp' \in Runs \cup {NoFile} /\ latest' \in Runs \cup {NoFile}
                    /\ text' \in [Runs -> Texts] /\ overlap' \in BOOLEAN
  BY DEF TypeOK, IngestionTypeOK, FilesTyped, JobsTyped, BudgetTyped, ResultsTyped, JobType,
         Labels, RunType, PC
<1> QED
  BY <1>1 DEF Shape

LEMMA GotoFacts ==
    ASSUME JobsTyped, NEW j \in Jobs, NEW label \in Labels, Goto(j, label)
    PROVE  /\ JobsTyped'
           /\ job'[j].pc = label
           /\ \A i \in Jobs : job'[i].call = job[i].call
           /\ \A i \in Jobs \ {j} : job'[i] = job[i]
<1>1. job \in [Jobs -> JobType] /\ job' = [job EXCEPT ![j].pc = label]
  BY DEF JobsTyped, Goto
<1>2. job[j] \in JobType
  BY <1>1
<1>3. [job[j] EXCEPT !.pc = label] \in JobType
  BY <1>2 DEF JobType
<1>4. job'[j] = [job[j] EXCEPT !.pc = label] /\ \A i \in Jobs \ {j} : job'[i] = job[i]
  BY <1>1
<1>5. job'[j].pc = label /\ job'[j].call = job[j].call
  BY <1>2, <1>4 DEF JobType
<1> QED
  BY <1>1, <1>3, <1>4, <1>5 DEF JobsTyped

LEMMA StrikeTypes ==
    ASSUME BudgetTyped, NEW f \in FaultKinds, Strike(f)
    PROVE  BudgetTyped' /\ budget'[f] = budget[f] - 1
             /\ \A g \in FaultKinds \ {f} : budget'[g] = budget[g]
BY DEF BudgetTyped, Strike

LEMMA BreaksTypes == ASSUME BudgetTyped, Breaks PROVE BudgetTyped'
BY StrikeTypes DEF Breaks, FaultKinds

LEMMA CallFacts ==
    ASSUME JobsTyped, NEW j \in Jobs
    PROVE  Stamp(j) \in Stamps /\ Market(j) \in Markets /\ Payload(j) \in Seq(Candle)
<1>1. job[j] \in JobType
  BY DEF JobsTyped
<1>2. job[j].call \in [market : Markets, stamp : Stamps, payload : Seq(Candle)]
  BY <1>1, IngestionAssumption DEF JobType
<1> QED
  BY <1>2 DEF Stamp, Market, Payload

\* Where a job goes from where, with which fault.
LEMMA IngestTypes ==
    ASSUME FilesTyped, JobsTyped, BudgetTyped, NEW j \in Jobs, Ingest(j)
    PROVE  FilesTyped' /\ JobsTyped' /\ BudgetTyped'
<1>1. PICK label \in Labels : Goto(j, label)
  BY DEF Ingest, Fetch, SaveRaw, AfterRaw, SaveReport, SaveQuarantine, FindOld, UnlinkOld,
         StartCopy, FinishCopy, Labels, Ended
<1>2. JobsTyped'
  BY <1>1, GotoFacts
<1>3. BudgetTyped'
  <2>1. UNCHANGED budget \/ Breaks
    BY DEF Ingest, Fetch, SaveRaw, SaveReport, SaveQuarantine, FindOld, UnlinkOld,
           StartCopy, FinishCopy
  <2> QED
    BY <2>1, BreaksTypes DEF BudgetTyped
<1>4. ASSUME NEW dir \in [Stamps -> File]
      PROVE  Saved(dir, j) \in [Stamps -> File] /\ Broken(dir, j) \subseteq [Stamps -> File]
  BY CallFacts DEF Saved, Broken, File
<1>5. raw' \in [Stamps -> File] /\ reports' \in [Stamps -> File] /\ quarantine' \in [Stamps -> File]
  <2>1. raw' = raw \/ raw' = Saved(raw, j) \/ raw' \in Broken(raw, j)
    BY DEF Ingest, Fetch, SaveRaw, SaveReport, SaveQuarantine, FindOld, UnlinkOld,
           StartCopy, FinishCopy, artifactVars
  <2>2. reports' = reports \/ reports' = Saved(reports, j) \/ reports' \in Broken(reports, j)
    BY DEF Ingest, Fetch, SaveRaw, SaveReport, SaveQuarantine, FindOld, UnlinkOld,
           StartCopy, FinishCopy, artifactVars
  <2>3. \/ quarantine' = quarantine \/ quarantine' = Saved(quarantine, j)
        \/ quarantine' \in Broken(quarantine, j)
    BY DEF Ingest, Fetch, SaveRaw, SaveReport, SaveQuarantine, FindOld, UnlinkOld,
           StartCopy, FinishCopy, artifactVars
  <2> QED
    BY <1>4, <2>1, <2>2, <2>3 DEF FilesTyped
<1>6. bars' \in Dataset \cup {NoFile}
  <2>1. CASE bars' = bars \/ bars' = NoFile
    BY <2>1 DEF FilesTyped
  <2>2. CASE StartCopy(j)
    <3>1. [job |-> j, whole |-> FALSE] \in Dataset
      BY DEF Dataset
    <3>2. bars \in Dataset \cup {NoFile}
      BY DEF FilesTyped
    <3> QED
      BY <2>2, <3>1, <3>2 DEF StartCopy
  <2>3. CASE FinishCopy(j)
    <3>1. [job |-> j, whole |-> FALSE] \in Dataset /\ [job : {j}, whole : BOOLEAN] \subseteq Dataset
      BY DEF Dataset
    <3>2. bars \in Dataset => [bars EXCEPT !.whole = TRUE] \in Dataset
      BY DEF Dataset
    <3>3. bars \in Dataset \cup {NoFile}
      BY DEF FilesTyped
    <3> QED
      BY <2>3, <3>1, <3>2, <3>3 DEF FinishCopy
  <2> QED
    BY <2>1, <2>2, <2>3 DEF Ingest, Fetch, SaveRaw, SaveReport, SaveQuarantine, FindOld, UnlinkOld
<1> QED
  BY <1>2, <1>3, <1>5, <1>6 DEF FilesTyped

\* What a run does to its own record and to the budget.
LEMMA EnterTypes ==
    ASSUME ResultsTyped, NEW r \in Runs, NEW label \in PC, Enter(r, label)
    PROVE  run' \in [Runs -> RunType]
<1>1. run \in [Runs -> RunType] /\ run' = [run EXCEPT ![r].pc = label]
  BY DEF ResultsTyped, Enter
<1>2. [run[r] EXCEPT !.pc = label] \in RunType
  BY <1>1 DEF RunType
<1> QED
  BY <1>1, <1>2

LEMMA LoadTypes ==
    ASSUME FilesTyped, JobsTyped, ResultsTyped, NEW r \in Runs, LoadBars(r)
    PROVE  run' \in [Runs -> RunType]
<1>1. "failing" \in PC
  BY DEF PC, Open
<1>2. CASE Enter(r, "failing")
  BY <1>1, <1>2, EnterTypes
<1>3. CASE LET market == Universe[run[r].next]
           IN  run' = [run EXCEPT ![r].next = @ + 1,
                           ![r].loaded = @ \cup ({Market(bars.job)} \cap {market})]
  <2> DEFINE more == {Market(bars.job)} \cap {Universe[run[r].next]}
  <2>1. Universe \in Seq(Markets) /\ run[r] \in RunType /\ run \in [Runs -> RunType]
    BY RunsAssumption DEF ResultsTyped
  <2>2. run[r].next \in 1 .. Len(Universe)
    BY <2>1 DEF LoadBars, RunType
  <2>3. more \subseteq Markets
    BY <2>1, <2>2
  <2>4. run' = [run EXCEPT ![r].next = @ + 1, ![r].loaded = @ \cup more]
    BY <1>3
  <2> HIDE DEF more
  <2>5. [run[r] EXCEPT !.next = @ + 1, !.loaded = @ \cup more] \in RunType
    <3>1. run[r].next + 1 \in 1 .. Len(Universe) + 1
      <4>1. Len(Universe) \in Nat
        BY <2>1
      <4> QED
        BY <2>2, <4>1
    <3>2. run[r].loaded \cup more \in SUBSET Markets
      BY <2>1, <2>3 DEF RunType
    <3> QED
      BY <2>1, <3>1, <3>2 DEF RunType
  <2>6. run'[r] = [run[r] EXCEPT !.next = @ + 1, !.loaded = @ \cup more]
        /\ \A q \in Runs \ {r} : run'[q] = run[q]
    BY <2>1, <2>4
  <2>7. \A q \in Runs : run'[q] \in RunType
    BY <2>1, <2>5, <2>6
  <2> DEFINE next == [q \in Runs |-> run'[q]]
  <2>8. next \in [Runs -> RunType]
    BY <2>7
  <2>9. run' = next
    BY <2>1, <2>4
  <2> HIDE DEF next
  <2> QED
    BY <2>8, <2>9
<1> QED
  BY <1>2, <1>3 DEF LoadBars, Raise

LEMMA OpenTypes ==
    ASSUME ResultsTyped, tmp \in Runs \cup {NoFile}, NEW r \in Runs, OpenTemporary(r)
    PROVE  run' \in [Runs -> RunType]
<1>1. "failing" \in PC /\ "write" \in PC
  BY DEF PC, Open
<1>2. CASE Enter(r, "failing")
  BY <1>1, <1>2, EnterTypes
<1>3. ASSUME NEW f \in Runs, run' = [run EXCEPT ![r].pc = "write", ![r].fd = f]
      PROVE  run' \in [Runs -> RunType]
  <2>1. run[r] \in RunType /\ run \in [Runs -> RunType]
    BY DEF ResultsTyped
  <2>2. [run[r] EXCEPT !.pc = "write", !.fd = f] \in RunType
    BY <1>1, <2>1 DEF RunType
  <2>3. run'[r] = [run[r] EXCEPT !.pc = "write", !.fd = f]
        /\ \A q \in Runs \ {r} : run'[q] = run[q]
    BY <1>3, <2>1
  <2>4. \A q \in Runs : run'[q] \in RunType
    BY <2>1, <2>2, <2>3
  <2> DEFINE next == [q \in Runs |-> run'[q]]
  <2>5. next \in [Runs -> RunType]
    BY <2>4
  <2>6. run' = next
    BY <1>3, <2>1
  <2> HIDE DEF next
  <2> QED
    BY <2>5, <2>6
<1>4. (IF tmp = NoFile THEN r ELSE tmp) \in Runs
  OBVIOUS
<1> QED
  BY <1>2, <1>3, <1>4 DEF OpenTemporary, Raise

LEMMA RunTypes ==
    ASSUME IInv, TypeOK, NEW r \in Runs, _run_resolved(r) \/ Crash(r)
    PROVE  FilesTyped' /\ JobsTyped' /\ BudgetTyped' /\ ResultsTyped'
<1>1. /\ FilesTyped /\ JobsTyped /\ BudgetTyped /\ ResultsTyped
      /\ tmp \in Runs \cup {NoFile}
  BY TypeParts
<1>2. UNCHANGED ingestionVars
  BY DEF _run_resolved, Start, LoadBars, Simulate, SaveArtifact, OpenTemporary, WriteTemporary,
         Rename, Finish, Fail, Crash
<1>3. FilesTyped' /\ JobsTyped'
  BY <1>1, <1>2 DEF FilesTyped, JobsTyped, ingestionVars, artifactVars
<1>4. BudgetTyped'
  <2>1. UNCHANGED budget \/ \E f \in FaultKinds : Strike(f)
    BY DEF _run_resolved, Start, LoadBars, Simulate, SaveArtifact, OpenTemporary,
           WriteTemporary, Rename, Finish, Fail, Crash, Raise, FaultKinds
  <2> QED
    BY <1>1, <2>1, StrikeTypes DEF BudgetTyped
<1>5. run' \in [Runs -> RunType]
  <2>1. CASE LoadBars(r)
    BY <1>1, <2>1, LoadTypes
  <2>2. CASE OpenTemporary(r)
    BY <1>1, <2>2, OpenTypes
  <2>3. \A label \in {"load", "save", "open", "write", "rename", "finish", "failing", "done",
                      "dead"} : label \in PC
    BY DEF PC, Open
  <2>4. CASE ~LoadBars(r) /\ ~OpenTemporary(r)
    <3>1. \E label \in {"load", "save", "open", "write", "rename", "finish", "failing", "done",
                        "dead"} : Enter(r, label)
      BY <2>4 DEF _run_resolved, Start, Simulate, SaveArtifact, WriteTemporary, Rename, Finish,
                  Fail, Crash, Raise
    <3> QED
      BY <1>1, <2>3, <3>1, EnterTypes
  <2> QED
    BY <2>1, <2>2, <2>4
<1>6. artifacts' \in [Runs -> (SUBSET Markets) \cup {NoFile}]
  <2>1. run[r].loaded \in SUBSET Markets
    BY <1>1 DEF ResultsTyped, RunType
  <2>2. artifacts' = artifacts \/ artifacts' = [artifacts EXCEPT ![r] = run[r].loaded]
    BY DEF _run_resolved, Start, LoadBars, Simulate, SaveArtifact, OpenTemporary,
           WriteTemporary, Rename, Finish, Fail, Crash, fileVars
  <2> QED
    BY <1>1, <2>1, <2>2 DEF ResultsTyped
<1> QED
  BY <1>3, <1>4, <1>5, <1>6 DEF ResultsTyped

LEMMA TypesStep == IInv /\ TypeOK /\ [Next]_vars => TypeOK'
<1> SUFFICES ASSUME IInv, TypeOK, [Next]_vars PROVE TypeOK'
  OBVIOUS
<1>1. Shape'
  BY InvariantStep DEF IInv
<1>2. FilesTyped /\ JobsTyped /\ BudgetTyped /\ ResultsTyped
  BY TypeParts
<1>3. ASSUME NEW j \in Jobs, Ingest(j), UNCHANGED <<rows, fileVars, run, overlap>>
      PROVE  FilesTyped' /\ JobsTyped' /\ BudgetTyped' /\ ResultsTyped'
  <2>1. ResultsTyped'
    BY <1>2, <1>3 DEF ResultsTyped, fileVars
  <2> QED
    BY <1>2, <1>3, <2>1, IngestTypes
<1>4. ASSUME UNCHANGED vars
      PROVE  FilesTyped' /\ JobsTyped' /\ BudgetTyped' /\ ResultsTyped'
  <2>1. UNCHANGED <<bars, raw, reports, quarantine, job, budget, artifacts, run>>
    BY <1>4 DEF vars, ingestionVars, artifactVars, fileVars
  <2>2. FilesTyped'
    BY <1>2, <2>1 DEF FilesTyped
  <2>3. JobsTyped' /\ BudgetTyped'
    BY <1>2, <2>1 DEF JobsTyped, BudgetTyped
  <2>4. ResultsTyped'
    BY <1>2, <2>1 DEF ResultsTyped
  <2> QED
    BY <2>2, <2>3, <2>4
<1>5. FilesTyped' /\ JobsTyped' /\ BudgetTyped' /\ ResultsTyped'
  <2>1. ASSUME NEW j \in Jobs, Ingest(j) /\ UNCHANGED <<rows, fileVars, run, overlap>>
        PROVE  FilesTyped' /\ JobsTyped' /\ BudgetTyped' /\ ResultsTyped'
    BY <1>3, <2>1
  <2>2. ASSUME NEW r \in Runs, _run_resolved(r) \/ Crash(r)
        PROVE  FilesTyped' /\ JobsTyped' /\ BudgetTyped' /\ ResultsTyped'
    BY <2>2, RunTypes
  <2>3. \/ \E j \in Jobs : Ingest(j) /\ UNCHANGED <<rows, fileVars, run, overlap>>
        \/ \E r \in Runs : _run_resolved(r) \/ Crash(r)
        \/ UNCHANGED vars
    BY DEF Next
  <2> QED
    BY <1>4, <2>1, <2>2, <2>3
<1> QED
  BY <1>1, <1>5, NextTypeParts

LEMMA InitialTypes == Init => TypeOK
<1> SUFFICES ASSUME Init PROVE TypeOK
  OBVIOUS
<1>1. FilesTyped /\ BudgetTyped
  BY IngestionAssumption DEF Init, IngestionInit, FilesTyped, BudgetTyped, File
<1>2. JobsTyped
  <2>1. [pc : {"new"}, call : Calls] \subseteq JobType
    BY DEF JobType, Labels
  <2> QED
    BY <2>1 DEF Init, IngestionInit, JobsTyped
<1>3. ResultsTyped
  <2>1. 1 \in 1 .. Len(Universe) + 1
    <3>1. Len(Universe) \in Nat
      BY RunsAssumption
    <3> QED
      BY <3>1
  <2>2. [pc |-> "new", next |-> 1, loaded |-> {}, fd |-> NoFile] \in RunType
    BY <2>1 DEF RunType, PC
  <2>3. run \in [Runs -> RunType]
    BY <2>2 DEF Init
  <2>4. artifacts \in [Runs -> (SUBSET Markets) \cup {NoFile}]
    <3> DEFINE kept == (SUBSET Markets) \cup {NoFile}
    <3>1. NoFile \in kept
      OBVIOUS
    <3> HIDE DEF kept
    <3>2. artifacts \in [Runs -> kept]
      BY <3>1 DEF Init
    <3> QED
      BY <3>2 DEF kept
  <2> QED
    BY <2>3, <2>4 DEF ResultsTyped
<1>4. Shape
  BY InitialInvariant DEF IInv
<1> QED
  BY <1>1, <1>2, <1>3, <1>4, TypeParts DEF Shape

LEMMA Typed == Spec => [](IInv /\ TypeOK)
<1>1. IInv /\ TypeOK /\ [Next]_vars => IInv' /\ TypeOK'
  BY InvariantStep, TypesStep
<1> QED
  BY <1>1, InitialInvariant, InitialTypes, PTL DEF Spec

\* What a file of the dataset, of an archive or of a result may hold, wherever a job
\* or a run is, and whatever another has left there.
THEOREM TypeCorrect == Spec => []TypeOK
  BY Typed, PTL

-----------------------------------------------------------------------------
(***************************************************************************)
(* The dataset: where its bars come from, and when it is there.             *)
(***************************************************************************)

\* The steps at which a job's answer is archived, at which it is known to be clean,
\* and at which its bars may be in the dataset.
Copied == {"copying", "ok", "crossed", "lost"}
Cleared == {"write", "unlink", "copy"} \cup Copied
Archived == {"report", "quarantine"} \cup Cleared

AnswerArchived(j) == raw[Stamp(j)] = j \/ SameSecond(j)
ArchiveInv ==
    /\ \A j \in Jobs : job[j].pc \in Archived => AnswerArchived(j)
    /\ \A j \in Jobs : job[j].pc \in Cleared => IssuesOf(j) = {}
    /\ bars # NoFile => bars.job \in Jobs /\ job[bars.job].pc \in Copied

\* A step of job j: its archive file is its own to write, no other's answer is lost
\* unless they share a second, and what it leaves in the dataset is its own.
LEMMA ArchiveStep ==
    ASSUME JobsTyped, ArchiveInv, NEW j \in Jobs, NEW label \in Labels \ {"new"},
           Goto(j, label),
           \A s \in Stamps \ {Stamp(j)} : raw'[s] = raw[s],
           label \in Archived => raw'[Stamp(j)] = j \/ (raw' = raw /\ job[j].pc \in Archived),
           raw' = raw \/ job[j].pc = "raw",
           label \in Cleared => job[j].pc \in Cleared \/ IssuesOf(j) = {},
           \/ bars' = bars /\ (job[j].pc \in Copied => label \in Copied)
           \/ bars' = NoFile
           \/ bars'.job = j /\ label \in Copied
    PROVE  ArchiveInv'
<1>1. /\ job'[j].pc = label
      /\ \A i \in Jobs : job'[i].call = job[i].call
      /\ \A i \in Jobs \ {j} : job'[i] = job[i]
  BY GotoFacts
<1>2. \A i \in Jobs : Stamp(i)' = Stamp(i) /\ Stamp(i) \in Stamps
  BY <1>1, CallFacts DEF Stamp
<1>3. \A i \in Jobs : IssuesOf(i)' = IssuesOf(i)
  BY <1>1 DEF IssuesOf, Payload, Market
<1>4. \A i \in Jobs : SameSecond(i) => SameSecond(i)'
  BY <1>1, <1>2 DEF SameSecond
<1>5. \A i \in Jobs \ {j} : Stamp(i) = Stamp(j) => SameSecond(i)'
  BY <1>1, <1>2 DEF SameSecond
<1>6. ASSUME NEW i \in Jobs, job'[i].pc \in Archived PROVE AnswerArchived(i)'
  <2>1. CASE i = j
    BY <1>1, <1>2, <1>4, <1>6, <2>1 DEF ArchiveInv, AnswerArchived
  <2>2. CASE i # j /\ Stamp(i) = Stamp(j)
    BY <1>5, <2>2 DEF AnswerArchived
  <2>3. CASE i # j /\ Stamp(i) # Stamp(j)
    <3>1. AnswerArchived(i)
      BY <1>1, <1>6, <2>3 DEF ArchiveInv
    <3>2. raw'[Stamp(i)] = raw[Stamp(i)]
      BY <1>2, <2>3
    <3> QED
      BY <1>2, <1>4, <3>1, <3>2 DEF AnswerArchived
  <2> QED
    BY <2>1, <2>2, <2>3
<1>7. ASSUME NEW i \in Jobs, job'[i].pc \in Cleared PROVE IssuesOf(i)' = {}
  BY <1>1, <1>3, <1>7 DEF ArchiveInv
<1>8. bars' # NoFile => bars'.job \in Jobs /\ job'[bars'.job].pc \in Copied
  BY <1>1 DEF ArchiveInv
<1> QED
  BY <1>6, <1>7, <1>8 DEF ArchiveInv

LEMMA ArchiveIngest ==
    ASSUME FilesTyped, JobsTyped, ArchiveInv, NEW j \in Jobs, Ingest(j)
    PROVE  ArchiveInv'
<1>1. raw \in [Stamps -> File] /\ Stamp(j) \in Stamps
  BY CallFacts DEF FilesTyped
<1>2. CASE Fetch(j)
  BY <1>2, ArchiveStep
     DEF Fetch, At, artifactVars, Labels, Ended, Archived, Cleared, Copied
<1>3. CASE SaveRaw(j)
  <2>1. job[j].pc = "raw" /\ bars' = bars
    BY <1>3 DEF SaveRaw, At
  <2>2. CASE raw' = Saved(raw, j) /\ Goto(j, AfterRaw(j))
    <3>1. raw'[Stamp(j)] = j /\ \A s \in Stamps \ {Stamp(j)} : raw'[s] = raw[s]
      BY <1>1, <2>2 DEF Saved
    <3>2. AfterRaw(j) \in {"failed", "report"}
      BY DEF AfterRaw
    <3> DEFINE label == AfterRaw(j)
    <3>3. label \in Labels \ {"new"} /\ label \notin Cleared
      BY <3>2 DEF Labels, Ended, Cleared, Copied
    <3>4. Goto(j, label)
      BY <2>2
    <3> HIDE DEF label
    <3> QED
      BY <2>1, <3>1, <3>3, <3>4, ArchiveStep DEF Copied
  <2>3. CASE raw' \in Broken(raw, j) /\ Goto(j, "failed")
    <3>1. \A s \in Stamps \ {Stamp(j)} : raw'[s] = raw[s]
      BY <1>1, <2>3 DEF Broken
    <3> QED
      BY <2>1, <2>3, <3>1, ArchiveStep DEF Labels, Ended, Archived, Cleared, Copied
  <2> QED
    BY <1>3, <2>2, <2>3 DEF SaveRaw
<1>4. CASE SaveReport(j)
  <2>1. job[j].pc = "report" /\ bars' = bars /\ raw' = raw
    BY <1>4 DEF SaveReport, At
  <2>2. PICK label \in {"write", "quarantine", "failed"} :
            Goto(j, label) /\ (label = "write" => IssuesOf(j) = {})
    BY <1>4 DEF SaveReport
  <2>3. label \in Labels \ {"new"} /\ label \notin Copied /\ (label \in Cleared => label = "write")
    BY DEF Labels, Ended, Cleared, Copied
  <2>4. "report" \in Archived
    BY DEF Archived
  <2> QED
    BY <2>1, <2>2, <2>3, <2>4, ArchiveStep DEF Copied
<1>5. CASE SaveQuarantine(j)
  <2>1. job[j].pc = "quarantine" /\ bars' = bars /\ raw' = raw
    BY <1>5 DEF SaveQuarantine, At
  <2>2. PICK label \in {"refused", "failed"} : Goto(j, label)
    BY <1>5 DEF SaveQuarantine
  <2>3. label \in Labels \ {"new"} /\ label \notin Archived /\ label \notin Cleared
    BY DEF Labels, Ended, Archived, Cleared, Copied
  <2> QED
    BY <2>1, <2>2, <2>3, ArchiveStep DEF Copied
<1>6. CASE FindOld(j) \/ UnlinkOld(j)
  <2>1. raw' = raw /\ (bars' = bars \/ bars' = NoFile) /\ job[j].pc \in {"write", "unlink"}
    BY <1>6 DEF FindOld, UnlinkOld, At, artifactVars
  <2>2. PICK label \in {"copy", "unlink", "failed"} : Goto(j, label)
    BY <1>6 DEF FindOld, UnlinkOld
  <2>3. label \in Labels \ {"new"}
    BY DEF Labels, Ended
  <2>4. /\ job[j].pc \in Cleared /\ job[j].pc \in Archived /\ job[j].pc \notin Copied
    BY <2>1 DEF Archived, Cleared, Copied
  <2> QED
    BY <2>1, <2>2, <2>3, <2>4, ArchiveStep
<1>7. CASE StartCopy(j) \/ FinishCopy(j)
  <2>1. raw' = raw /\ job[j].pc \in {"copy", "copying"}
        /\ (bars' = bars \/ bars' = NoFile \/ bars'.job = j)
    <3>1. FinishCopy(j) /\ bars = [job |-> j, whole |-> FALSE] => [bars EXCEPT !.whole = TRUE].job = j
      OBVIOUS
    <3>2. CASE StartCopy(j)
      BY <3>2 DEF StartCopy, At, artifactVars
    <3>3. CASE FinishCopy(j)
      BY <3>1, <3>3 DEF FinishCopy, At, artifactVars
    <3> QED
      BY <1>7, <3>2, <3>3
  <2>2. PICK label \in Copied : Goto(j, label)
    BY <1>7 DEF StartCopy, FinishCopy, Copied
  <2>3. label \in Labels \ {"new"}
    BY DEF Labels, Ended, Copied
  <2>4. job[j].pc \in Cleared /\ job[j].pc \in Archived
    BY <2>1 DEF Archived, Cleared, Copied
  <2> QED
    BY <2>1, <2>2, <2>3, <2>4, ArchiveStep
<1> QED
  BY <1>2, <1>3, <1>4, <1>5, <1>6, <1>7 DEF Ingest

LEMMA ArchiveImplies == JobsTyped /\ ArchiveInv => DatasetArchived
<1> SUFFICES ASSUME JobsTyped, ArchiveInv, bars # NoFile, NEW j, j = bars.job
             PROVE  /\ raw[Stamp(j)] = j \/ SameSecond(j)
                    /\ \A k \in DOMAIN Payload(j) : IsBar(Payload(j)[k], Market(j))
                    /\ \A i, k \in DOMAIN Payload(j) :
                          Payload(j)[i].day = Payload(j)[k].day => i = k
  BY DEF DatasetArchived
<1>1. j \in Jobs /\ job[j].pc \in Copied
  BY DEF ArchiveInv
<1>2. AnswerArchived(j) /\ IssuesOf(j) = {}
  BY <1>1 DEF ArchiveInv, Archived, Cleared
<1> DEFINE p == Payload(j)
           m == Market(j)
<1>3. p \in Seq(Candle)
  BY <1>1, CallFacts
<1>4. Issues(p, m) = {}
  BY <1>2 DEF IssuesOf
<1> HIDE DEF p, m
<1>5. \A k \in DOMAIN p : IsBar(p[k], m) /\ \A i \in 1 .. k - 1 : p[i].day # p[k].day
  <2>1. \A k \in DOMAIN p : IsBar(p[k], m) /\ \A i \in 1 .. k - 1 :
                                ~(IsBar(p[i], m) /\ p[i].day = p[k].day)
    BY <1>4 DEF Issues
  <2>2. \A k \in DOMAIN p : \A i \in 1 .. k - 1 : i \in DOMAIN p
    BY <1>3
  <2> QED
    BY <2>1, <2>2
<1>6. ASSUME NEW i \in DOMAIN p, NEW k \in DOMAIN p, p[i].day = p[k].day PROVE i = k
  <2>1. i \in Nat \ {0} /\ k \in Nat \ {0}
    BY <1>3
  <2>2. ~(i < k) /\ ~(k < i)
    BY <1>5, <1>6, <2>1
  <2> QED
    BY <2>1, <2>2
<1> QED
  BY <1>2, <1>5, <1>6 DEF AnswerArchived, p, m

\* A step of a run, or none, leaves jobs, archives and the dataset alone.
LEMMA JobsSame ==
    ASSUME [Next]_vars, ~\E j \in Jobs : Ingest(j) PROVE UNCHANGED ingestionVars
<1>1. CASE \E r \in Runs : _run_resolved(r) \/ Crash(r)
  BY <1>1 DEF _run_resolved, Start, LoadBars, Simulate, SaveArtifact, OpenTemporary,
              WriteTemporary, Rename, Finish, Fail, Crash
<1>2. CASE UNCHANGED vars
  BY <1>2 DEF vars
<1> QED
  BY <1>1, <1>2 DEF Next

LEMMA ArchiveNext == TypeOK /\ ArchiveInv /\ [Next]_vars => ArchiveInv'
<1> SUFFICES ASSUME TypeOK, ArchiveInv, [Next]_vars PROVE ArchiveInv'
  OBVIOUS
<1>1. FilesTyped /\ JobsTyped
  BY TypeParts
<1>2. CASE \E j \in Jobs : Ingest(j)
  BY <1>1, <1>2, ArchiveIngest
<1>3. CASE ~\E j \in Jobs : Ingest(j)
  <2>1. UNCHANGED <<bars, raw, job>>
    BY <1>3, JobsSame DEF ingestionVars, artifactVars
  <2> QED
    BY <2>1 DEF ArchiveInv, AnswerArchived, SameSecond, Stamp, IssuesOf, Payload, Market
<1> QED
  BY <1>2, <1>3

\* The dataset, even half of it, comes from an answer that is archived and of which
\* every candle is a bar, whatever other jobs, refusals and failures there were.
THEOREM DatasetIsArchived == Spec => []DatasetArchived
<1>1. Init => ArchiveInv
  BY DEF Init, IngestionInit, ArchiveInv, Archived, Cleared, Copied
<1>2. TypeOK /\ ArchiveInv => DatasetArchived
  BY ArchiveImplies, TypeParts
<1> QED
  BY <1>1, <1>2, ArchiveNext, TypeCorrect, PTL DEF Spec

\* As long as no job is lost or crossed by another, the dataset that a job has
\* finished is whole, or a job that has removed it is about to put its own there.
Unlucky == \E j \in Jobs : job[j].pc \in {"lost", "crossed"}
Replacing == \E j \in Jobs : job[j].pc \in {"copy", "copying"}
KeptInv == Unlucky \/ Whole \/ Replacing \/ ~\E j \in Jobs : job[j].pc = "ok"

LEMMA KeptIngest ==
    ASSUME JobsTyped, KeptInv, NEW j \in Jobs, Ingest(j) PROVE KeptInv'
<1>1. PICK label \in Labels : Goto(j, label)
  BY DEF Ingest, Fetch, SaveRaw, AfterRaw, SaveReport, SaveQuarantine, FindOld, UnlinkOld,
         StartCopy, FinishCopy, Labels, Ended
<1>2. job'[j].pc = label /\ \A i \in Jobs \ {j} : job'[i] = job[i]
  BY <1>1, GotoFacts
<1>3. Unlucky => Unlucky'
  <2>1. job[j].pc \notin {"lost", "crossed"}
    BY DEF Ingest, Fetch, SaveRaw, SaveReport, SaveQuarantine, FindOld, UnlinkOld,
           StartCopy, FinishCopy, At
  <2> QED
    BY <1>2, <2>1 DEF Unlucky
<1>4. CASE label \in {"lost", "crossed"}
  BY <1>2, <1>4 DEF KeptInv, Unlucky
<1>5. CASE label \in {"copy", "copying"}
  BY <1>2, <1>5 DEF KeptInv, Replacing
<1>6. CASE label = "ok"
  <2>1. FinishCopy(j) /\ bars = [job |-> j, whole |-> FALSE] /\ bars' = [bars EXCEPT !.whole = TRUE]
    <3>1. Goto(j, "ok") /\ \A other : Goto(j, other) => other = "ok"
      <4>1. ASSUME NEW other, Goto(j, other) PROVE other = "ok"
        <5>1. job \in [Jobs -> JobType] /\ job[j] \in JobType
          BY DEF JobsTyped
        <5>2. job'[j] = [job[j] EXCEPT !.pc = other]
          BY <4>1, <5>1 DEF Goto
        <5>3. job'[j].pc = other
          BY <5>1, <5>2 DEF JobType
        <5> QED
          BY <1>2, <1>6, <5>3
      <4> QED
        BY <1>1, <1>6, <4>1
    <3>2. AfterRaw(j) # "ok"
      BY DEF AfterRaw
    <3>3. FinishCopy(j)
      BY <3>1, <3>2 DEF Ingest, Fetch, SaveRaw, SaveReport, SaveQuarantine, FindOld,
                        UnlinkOld, StartCopy
    <3> QED
      BY <3>1, <3>3 DEF FinishCopy
  <2>2. bars \in Dataset
    <3>1. [job |-> j, whole |-> FALSE] \in Dataset
      BY DEF Dataset
    <3> QED
      BY <2>1, <3>1
  <2>3. [bars EXCEPT !.whole = TRUE] \in Dataset /\ [bars EXCEPT !.whole = TRUE].whole
    BY <2>2 DEF Dataset
  <2> QED
    BY <2>1, <2>3, IngestionAssumption DEF KeptInv, Whole
<1>7. CASE label \notin {"lost", "crossed", "copy", "copying", "ok"}
  <2>1. bars' = bars /\ job[j].pc \notin {"copy", "copying"}
    <3>1. \A other : Goto(j, other) => other = label
      <4> SUFFICES ASSUME NEW other, Goto(j, other) PROVE other = label
        OBVIOUS
      <4>1. job \in [Jobs -> JobType] /\ job[j] \in JobType
        BY DEF JobsTyped
      <4>2. job'[j] = [job[j] EXCEPT !.pc = other]
        BY <4>1 DEF Goto
      <4>3. job'[j].pc = other
        BY <4>1, <4>2 DEF JobType
      <4> QED
        BY <1>2, <4>3
    <3>2. ~StartCopy(j) /\ ~FinishCopy(j)
      BY <1>7, <3>1 DEF StartCopy, FinishCopy
    <3> QED
      BY <1>7, <3>1, <3>2 DEF Ingest, Fetch, SaveRaw, SaveReport, SaveQuarantine, FindOld,
                              UnlinkOld, At
  <2>2. Whole => Whole'
    BY <2>1 DEF Whole
  <2>3. Replacing => Replacing'
    BY <1>2, <2>1 DEF Replacing
  <2>4. (\E i \in Jobs : job'[i].pc = "ok") => \E i \in Jobs : job[i].pc = "ok"
    BY <1>2, <1>7
  <2> QED
    BY <1>3, <2>2, <2>3, <2>4 DEF KeptInv
<1> QED
  BY <1>4, <1>5, <1>6, <1>7

LEMMA KeptNext == TypeOK /\ KeptInv /\ [Next]_vars => KeptInv'
<1> SUFFICES ASSUME TypeOK, KeptInv, [Next]_vars PROVE KeptInv'
  OBVIOUS
<1>1. CASE \E j \in Jobs : Ingest(j)
  BY <1>1, KeptIngest, TypeParts
<1>2. CASE ~\E j \in Jobs : Ingest(j)
  <2>1. UNCHANGED <<bars, job>>
    BY <1>2, JobsSame DEF ingestionVars
  <2> QED
    BY <2>1 DEF KeptInv, Unlucky, Whole, Replacing
<1> QED
  BY <1>1, <1>2

\* What a job has written is there when all jobs have ended, unless one of them died
\* between its unlink and the end of its copy, or two copies crossed.
THEOREM DatasetIsKept == Spec => []DatasetKept
<1>1. Init => KeptInv
  BY DEF Init, IngestionInit, KeptInv
<1>2. KeptInv => DatasetKept
  BY DEF KeptInv, Unlucky, Replacing, DatasetKept, JobsEnded, Ended, At
<1> QED
  BY <1>1, <1>2, KeptNext, TypeCorrect, PTL DEF Spec

-----------------------------------------------------------------------------
(***************************************************************************)
(* How a run ends.                                                         *)
(***************************************************************************)
BudgetKept == \A f \in FaultKinds : budget[f] <= MaxFaults[f]

LEMMA StrikeSpends ==
    ASSUME BudgetTyped, BudgetKept, NEW f \in FaultKinds, Strike(f)
    PROVE  BudgetKept' /\ budget'[f] < MaxFaults[f]
             /\ \A g \in FaultKinds : budget'[g] = MaxFaults[g] => budget[g] = MaxFaults[g]
<1>1. MaxFaults \in [FaultKinds -> Nat] /\ budget \in [FaultKinds -> Nat]
  BY IngestionAssumption DEF BudgetTyped
<1>2. budget'[f] = budget[f] - 1 /\ \A g \in FaultKinds \ {f} : budget'[g] = budget[g]
  BY StrikeTypes
<1>3. \A g \in FaultKinds : budget[g] <= MaxFaults[g] /\ budget[g] \in Nat /\ MaxFaults[g] \in Nat
  BY <1>1 DEF BudgetKept
<1> QED
  BY <1>2, <1>3 DEF BudgetKept

LEMMA BudgetNext ==
    ASSUME TypeOK, BudgetKept, [Next]_vars
    PROVE  BudgetKept' /\ (Spared({"store"})' => Spared({"store"}))
<1>1. UNCHANGED budget \/ \E f \in FaultKinds : Strike(f)
  <2>1. CASE \E j \in Jobs : Ingest(j)
    BY <2>1 DEF Ingest, Fetch, SaveRaw, SaveReport, SaveQuarantine, FindOld, UnlinkOld,
                StartCopy, FinishCopy, Breaks, FaultKinds
  <2>2. CASE \E r \in Runs : _run_resolved(r) \/ Crash(r)
    BY <2>2 DEF _run_resolved, Start, LoadBars, Simulate, SaveArtifact, OpenTemporary,
                WriteTemporary, Rename, Finish, Fail, Crash, Raise, FaultKinds
  <2>3. CASE UNCHANGED vars
    BY <2>3 DEF vars
  <2> QED
    BY <2>1, <2>2, <2>3 DEF Next
<1>2. CASE UNCHANGED budget
  BY <1>2 DEF BudgetKept, Spared
<1>3. CASE \E f \in FaultKinds : Strike(f)
  BY <1>3, StrikeSpends, TypeParts DEF Spared, FaultKinds
<1> QED
  BY <1>1, <1>2, <1>3

\* A step that ends no run, or ends one whose row says how.
LEMMA OutcomeKept ==
    ASSUME RunsHaveOutcome, Spared({"store"})' => Spared({"store"}),
           \A r \in Runs : \/ run'[r].pc # "done"
                           \/ run[r].pc = "done" /\ rows'[r] = rows[r]
                           \/ Status(r, "SUCCEEDED")' \/ Status(r, "FAILED")'
                           \/ ~Spared({"store"})'
    PROVE  RunsHaveOutcome'
BY DEF RunsHaveOutcome, In, Status

LEMMA OutcomeRun ==
    ASSUME IInv, TypeOK, BudgetKept, RunsHaveOutcome, [Next]_vars,
           NEW r \in Runs, _run_resolved(r) \/ Crash(r)
    PROVE  RunsHaveOutcome'
<1>1. /\ BudgetTyped /\ BudgetKept' /\ (Spared({"store"})' => Spared({"store"}))
      /\ rows \in [Runs -> Row \cup {NoRow}] /\ run \in [Runs -> RunType]
  BY BudgetNext, TypeParts DEF ResultsTyped
<1>2. \A q \in Runs \ {r} : run'[q] = run[q] /\ rows'[q] = rows[q]
  BY <1>1 DEF _run_resolved, Start, LoadBars, Simulate, SaveArtifact, OpenTemporary, WriteTemporary,
         Rename, Finish, Fail, Crash, Raise, Enter
<1>3. Strike("store") => ~Spared({"store"})'
  <2>1. "store" \in FaultKinds
    BY DEF FaultKinds
  <2>2. ASSUME Strike("store") PROVE budget'["store"] # MaxFaults["store"]
    <3>1. budget'["store"] < MaxFaults["store"] /\ MaxFaults["store"] \in Nat
      BY <1>1, <2>1, <2>2, StrikeSpends, IngestionAssumption
    <3> QED
      BY <3>1
  <2> QED
    BY <2>2 DEF Spared
<1>4. \/ run'[r].pc # "done"
      \/ Status(r, "SUCCEEDED")' \/ Status(r, "FAILED")'
      \/ Strike("store")
  <2>1. ASSUME NEW label \in PC, Enter(r, label) PROVE run'[r].pc = label
    BY <2>1, EnterFacts
  <2>2. \A label \in {"load", "save", "open", "write", "rename", "finish", "failing", "dead"} :
            label \in PC /\ label # "done"
    BY DEF PC, Open
  <2>3. CASE Start(r)
    BY <2>1, <2>2, <2>3 DEF Start
  <2>4. CASE LoadBars(r)
    <3>1. run[r].pc = "load"
      BY <2>4 DEF LoadBars, In
    <3>2. ASSUME NEW more, run' = [run EXCEPT ![r].next = @ + 1, ![r].loaded = @ \cup more]
          PROVE  run'[r].pc = "load"
      <4>1. run'[r] = [run[r] EXCEPT !.next = @ + 1, !.loaded = @ \cup more] /\ run[r] \in RunType
        BY <1>1, <3>2
      <4> QED
        BY <3>1, <4>1 DEF RunType
    <3> QED
      BY <2>1, <2>2, <2>4, <3>2 DEF LoadBars, Raise
  <2>5. CASE Simulate(r)
    BY <2>1, <2>2, <2>5 DEF Simulate
  <2>6. CASE SaveArtifact(r) \/ WriteTemporary(r) \/ Rename(r) \/ Crash(r)
    BY <2>1, <2>2, <2>6 DEF SaveArtifact, WriteTemporary, Rename, Crash, Raise
  <2>7. CASE OpenTemporary(r)
    <3>1. ASSUME NEW f, run' = [run EXCEPT ![r].pc = "write", ![r].fd = f]
          PROVE  run'[r].pc = "write"
      <4>1. run'[r] = [run[r] EXCEPT !.pc = "write", !.fd = f] /\ run[r] \in RunType
        BY <1>1, <3>1
      <4> QED
        BY <4>1 DEF RunType
    <3> QED
      BY <2>1, <2>2, <2>7, <3>1 DEF OpenTemporary, Raise
  <2>8. CASE Finish(r)
    <3>1. CASE rows' = [rows EXCEPT ![r] = [status |-> "SUCCEEDED", artifact_path |-> TRUE]]
      <4>1. rows'[r] = [status |-> "SUCCEEDED", artifact_path |-> TRUE]
        BY <1>1, <3>1
      <4>2. rows'[r] # NoRow
        <5>1. [status |-> "SUCCEEDED", artifact_path |-> TRUE] \in Row
          BY DEF Row
        <5> QED
          BY <4>1, <5>1, RunsAssumption
      <4> QED
        BY <4>1, <4>2 DEF Status
    <3> QED
      BY <2>1, <2>2, <2>8, <3>1 DEF Finish
  <2>9. CASE Fail(r)
    <3>1. CASE rows' = [rows EXCEPT ![r].status = "FAILED"]
      <4>1. rows[r] \in Row
        BY <1>1, <2>9 DEF Fail, In, IInv, RowsFollow, Status, Open
      <4>2. rows'[r] = [rows[r] EXCEPT !.status = "FAILED"]
        BY <1>1, <3>1
      <4>3. rows'[r] \in Row /\ rows'[r].status = "FAILED"
        BY <4>1, <4>2 DEF Row
      <4> QED
        BY <4>3, RunsAssumption DEF Status
    <3> QED
      BY <2>9, <3>1 DEF Fail
  <2> QED
    BY <2>3, <2>4, <2>5, <2>6, <2>7, <2>8, <2>9 DEF _run_resolved
<1>5. \A q \in Runs : \/ run'[q].pc # "done"
                      \/ run[q].pc = "done" /\ rows'[q] = rows[q]
                      \/ Status(q, "SUCCEEDED")' \/ Status(q, "FAILED")'
                      \/ ~Spared({"store"})'
  BY <1>2, <1>3, <1>4
<1> QED
  BY <1>1, <1>5, OutcomeKept

LEMMA OutcomeNext ==
    ASSUME IInv, TypeOK, BudgetKept, RunsHaveOutcome, [Next]_vars PROVE RunsHaveOutcome'
<1>1. CASE \E r \in Runs : _run_resolved(r) \/ Crash(r)
  BY <1>1, OutcomeRun
<1>2. CASE UNCHANGED <<run, rows>>
  <2>1. Spared({"store"})' => Spared({"store"})
    BY BudgetNext
  <2> QED
    BY <1>2, <2>1, OutcomeKept
<1> QED
  BY <1>1, <1>2 DEF Next, vars

\* Every run that has ended says how in its row: by its result, or as failed through
\* any exception, of the data, of a file or of the other runs' renames.
THEOREM RunsAreTold == Spec => []RunsHaveOutcome
<1>1. Init => BudgetKept /\ RunsHaveOutcome
  <2> SUFFICES ASSUME Init PROVE BudgetKept /\ RunsHaveOutcome
    OBVIOUS
  <2>1. BudgetKept
    BY IngestionAssumption DEF Init, IngestionInit, BudgetKept
  <2>2. RunsHaveOutcome
    BY DEF Init, RunsHaveOutcome, In
  <2> QED
    BY <2>1, <2>2
<1>2. IInv /\ TypeOK /\ BudgetKept /\ RunsHaveOutcome /\ [Next]_vars
        => BudgetKept' /\ RunsHaveOutcome'
  BY BudgetNext, OutcomeNext
<1> QED
  BY <1>1, <1>2, Typed, PTL DEF Spec
=============================================================================
