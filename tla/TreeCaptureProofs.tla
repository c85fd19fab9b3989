------------------------- MODULE TreeCaptureProofs -------------------------
(***************************************************************************)
(* Proofs about TreeCapture for any number of changes that others make     *)
(* while a tree is captured, at any points.                                *)
(***************************************************************************)
EXTENDS TreeCapture, SequenceTheorems, TLAPS

----------------------------------------------------------------------------
(* The programs of the readers.                                            *)

LEMMA KindIsKnown == TypeOK => kind \in {"bundle", "release", "snapshot"}
  BY CaptureAssumption DEF TypeOK

LEMMA ProgramLength ==
    /\ Len(Program["bundle"]) = 10
    /\ Len(Program["release"]) = 4
    /\ Len(Program["snapshot"]) = 5
  BY DEF Program

LEMMA LengthIsNat == TypeOK => Len(Program[kind]) \in Nat
<1> SUFFICES ASSUME TypeOK PROVE Len(Program[kind]) \in Nat
  OBVIOUS
<1>1. kind = "bundle" \/ kind = "release" \/ kind = "snapshot"
  BY KindIsKnown
<1> QED
  BY <1>1, ProgramLength

\* The tasks of the bundle's reader.
LEMMA BundleTasks ==
    /\ \A t \in {1, 9} : Program["bundle"][t] = CheckedFile("root", "m")
    /\ Program["bundle"][3] = CheckedFile("root", "a")
    /\ Program["bundle"][6] = CheckedFile("d", "b")
    /\ Program["bundle"][2] = Task(<<"look", "list">>, "root", None)
    /\ Program["bundle"][4] = Task(<<"stat", "descend">>, "root", "d")
    /\ Program["bundle"][5] = Task(<<"look", "list">>, "d", None)
    /\ Program["bundle"][7] = Task(<<"relook", "relist">>, "d", None)
    /\ Program["bundle"][8] = Task(<<"ascend">>, "root", "d")
    /\ Program["bundle"][10] = Task(<<"relook", "relist">>, "root", None)
  BY DEF Program

LEMMA LastTaskIsNat ==
    ASSUME TypeOK, NEW n \in {"a", "b", "m"}
    PROVE  LastTask[kind][n] \in Nat /\ (kind = "bundle" => LastTask[kind][n] > 2)
<1>1. CASE kind = "bundle"
  BY <1>1 DEF LastTask
<1>2. CASE kind = "release"
  BY <1>2 DEF LastTask
<1>3. CASE kind = "snapshot"
  BY <1>3 DEF LastTask
<1> QED
  BY <1>1, <1>2, <1>3, KindIsKnown

\* The tasks of the two flat readers.
LEMMA FlatTasks ==
    /\ Program["release"][1] = Task(<<"list">>, "root", None)
    /\ Program["release"][2] = PlainFile("m")
    /\ Program["release"][3] = PlainFile("a")
    /\ Program["release"][4] = PlainFile("b")
    /\ Program["snapshot"][1] = PlainFile("m")
    /\ Program["snapshot"][2] = Task(<<"list">>, "root", None)
    /\ Program["snapshot"][3] = PlainFile("a")
    /\ Program["snapshot"][4] = PlainFile("b")
    /\ Program["snapshot"][5] = Task(<<"list">>, "root", None)
  BY DEF Program

\* A file is captured with the calls of its reader; it is read for the last
\* time at its last task.
LEMMA FileTask ==
    ASSUME TypeOK, PositionInv, AtFile
    PROVE  /\ Calls = IF kind = "bundle" THEN CheckedCalls ELSE PlainCalls
           /\ Dir = IF kind = "bundle" /\ Name = "b" THEN "d" ELSE "root"
           /\ task <= LastTask[kind][Name]
           /\ \A n \in {"a", "b", "m"} : task = LastTask[kind][n] => n = Name
           /\ task < Len(Program[kind]) + 1
           /\ kind = "bundle" => task \in {1, 3, 6, 9} /\ (Name = "b" => task = 6)
<1>1. task \in 1 .. Len(Program[kind]) /\ kind \in {"bundle", "release", "snapshot"}
  BY KindIsKnown DEF TypeOK, PositionInv, AtFile
<1>2. None \notin {"a", "b", "m"} 
  BY CaptureAssumption
<1>3. CASE kind = "bundle"
  <2>1. task \in 1 .. 10
    BY <1>1, <1>3, ProgramLength
  <2>2. task \in {1, 3, 6, 9}
    BY <1>2, <1>3, <2>1, BundleTasks DEF AtFile, Name, Task
  <2> QED
    BY <1>1, <1>3, <2>2, BundleTasks, ProgramLength
       DEF Calls, Dir, Name, CheckedFile, Task, LastTask
<1>4. CASE kind = "release"
  <2>1. task \in 1 .. 4
    BY <1>1, <1>4, ProgramLength
  <2>2. task \in {2, 3, 4}
    BY <1>2, <1>4, <2>1, FlatTasks DEF AtFile, Name, Task
  <2> QED
    BY <1>1, <1>4, <2>2, FlatTasks, ProgramLength
       DEF Calls, Dir, Name, PlainFile, Task, LastTask
<1>5. CASE kind = "snapshot"
  <2>1. task \in 1 .. 5
    BY <1>1, <1>5, ProgramLength
  <2>2. task \in {1, 3, 4}
    BY <1>2, <1>5, <2>1, FlatTasks DEF AtFile, Name, Task
  <2> QED
    BY <1>1, <1>5, <2>2, FlatTasks, ProgramLength
       DEF Calls, Dir, Name, PlainFile, Task, LastTask
<1> QED
  BY <1>1, <1>3, <1>4, <1>5

\* The tasks that are not about a file.
LEMMA OtherTask ==
    ASSUME TypeOK, PositionInv, Running, ~AtFile
    PROVE  /\ kind = "bundle" =>
                \/ task \in {2, 5} /\ Calls = <<"look", "list">>
                \/ task \in {7, 10} /\ Calls = <<"relook", "relist">>
                \/ task = 4 /\ Calls = <<"stat", "descend">> /\ Name = "d"
                \/ task = 8 /\ Calls = <<"ascend">> /\ Name = "d"
           /\ kind # "bundle" => Calls = <<"list">>
           /\ Dir = IF kind = "bundle" /\ task \in {5, 7} THEN "d" ELSE "root"
           /\ \A n \in {"a", "b", "m"} : task # LastTask[kind][n]
           /\ Name \in {"d", None}
<1>1. task \in 1 .. Len(Program[kind]) /\ kind \in {"bundle", "release", "snapshot"}
  BY KindIsKnown DEF TypeOK, PositionInv
<1>3. CASE kind = "bundle"
  <2>1. task \in 1 .. 10
    BY <1>1, <1>3, ProgramLength
  <2>2. task \notin {1, 3, 6, 9}
    BY <1>3, BundleTasks DEF AtFile, Name, CheckedFile, Task
  <2> QED
    BY <1>3, <2>1, <2>2, BundleTasks DEF Calls, Dir, Name, Task, LastTask
<1>4. CASE kind = "release"
  <2>1. task \in 1 .. 4
    BY <1>1, <1>4, ProgramLength
  <2>2. task = 1
    BY <1>4, <2>1, FlatTasks DEF AtFile, Name, PlainFile, Task
  <2> QED
    BY <1>4, <2>2, FlatTasks DEF Calls, Dir, Name, Task, LastTask
<1>5. CASE kind = "snapshot"
  <2>1. task \in 1 .. 5
    BY <1>1, <1>5, ProgramLength
  <2>2. task \in {2, 5}
    BY <1>5, <2>1, FlatTasks DEF AtFile, Name, PlainFile, Task
  <2> QED
    BY <1>5, <2>2, FlatTasks DEF Calls, Dir, Name, Task, LastTask
<1> QED
  BY <1>1, <1>3, <1>4, <1>5

\* Where the calls on a file stand in its task.
LEMMA FileCalls ==
    ASSUME TypeOK, PositionInv, AtFile
    PROVE  /\ Len(Calls) = Skew + Skew + 6 /\ Skew \in {0, 1} /\ step \in 1 .. Len(Calls)
           /\ Op = "stat" => step = 1 /\ kind = "bundle"
           /\ Op = "open" <=> step = Skew + 1
           /\ Op = "fstat" <=> step = Skew + 2
           /\ Op = "read" <=> step \in {Skew + 3, Skew + 4}
           /\ Op = "again" <=> step = Skew + 5
           /\ Op = "restat" => step = 7 /\ kind = "bundle"
           /\ Op = "digest" <=> step = Skew + Skew + 6
           /\ Op \notin {"look", "list", "relook", "relist", "descend", "ascend"}
<1>1. step \in 1 .. Len(Calls)
  BY DEF TypeOK, PositionInv, AtFile
<1>2. CASE kind = "bundle"
  <2>1. Calls = CheckedCalls
    BY <1>2, FileTask
  <2>2. Len(CheckedCalls) = 8
    BY DEF CheckedCalls
  <2> QED
    BY <1>1, <1>2, <2>1, <2>2 DEF CheckedCalls, Op, Skew
<1>3. CASE kind # "bundle"
  <2>1. Calls = PlainCalls
    BY <1>3, FileTask
  <2>2. Len(PlainCalls) = 6
    BY DEF PlainCalls
  <2> QED
    BY <1>1, <1>3, <2>1, <2>2 DEF PlainCalls, Op, Skew
<1> QED
  BY <1>2, <1>3

\* Where the other calls stand.
LEMMA OtherCalls ==
    ASSUME TypeOK, PositionInv, Running, ~AtFile
    PROVE  /\ step \in 1 .. Len(Calls)
           /\ Op = "stat" => kind = "bundle" /\ task = 4 /\ step = 1 /\ Len(Calls) = 2
           /\ Op = "descend" => kind = "bundle" /\ task = 4 /\ step = 2 /\ Len(Calls) = 2
           /\ Op = "look" => kind = "bundle" /\ task \in {2, 5} /\ step = 1 /\ Len(Calls) = 2
           /\ Op = "list" => /\ step = Len(Calls)
                             /\ kind = "bundle" => task \in {2, 5} /\ step = 2
           /\ Op = "relook" => kind = "bundle" /\ task \in {7, 10} /\ step = 1 /\ Len(Calls) = 2
           /\ Op = "relist" => kind = "bundle" /\ task \in {7, 10} /\ step = 2 /\ Len(Calls) = 2
           /\ Op = "ascend" => kind = "bundle" /\ task = 8 /\ step = 1 /\ Len(Calls) = 1
           /\ Op \notin {"open", "fstat", "read", "again", "restat", "digest"}
<1>1. step \in 1 .. Len(Calls)
  BY DEF TypeOK, PositionInv
<1>2. CASE kind = "bundle"
  <2>1. CASE Len(Calls) = 2
    <3>1. step \in {1, 2}
      BY <1>1, <2>1
    <3> QED
      BY <1>1, <1>2, <2>1, <3>1, OtherTask DEF Op
  <2>2. CASE Calls = <<"ascend">>
    BY <1>1, <1>2, <2>2, OtherTask DEF Op
  <2> QED
    BY <1>2, <2>1, <2>2, OtherTask
<1>3. CASE kind # "bundle"
  <2>1. Calls = <<"list">>
    BY <1>3, OtherTask
  <2> QED
    BY <1>1, <1>3, <2>1 DEF Op
<1> QED
  BY <1>2, <1>3

LEMMA CallsLength ==
    ASSUME TypeOK, NEW t \in 1 .. Len(Program[kind])
    PROVE  Len(Program[kind][t].calls) \in 1 .. 8
<1>1. /\ Len(CheckedCalls) = 8 /\ Len(PlainCalls) = 6
      /\ CheckedFile("root", "m").calls = CheckedCalls /\ CheckedFile("root", "a").calls = CheckedCalls
      /\ CheckedFile("d", "b").calls = CheckedCalls
      /\ \A n : PlainFile(n).calls = PlainCalls
  BY DEF CheckedCalls, PlainCalls, CheckedFile, PlainFile, Task
<1>2. CASE kind = "bundle"
  <2>1. t \in {1, 9, 3, 6} \/ t \in {2, 4, 5} \/ t \in {7, 8, 10}
    BY <1>2, ProgramLength
  <2>2. CASE t \in {1, 9, 3, 6}
    BY <1>1, <1>2, <2>2, BundleTasks
  <2>3. CASE t \in {2, 4, 5}
    BY <1>2, <2>3, BundleTasks DEF Task
  <2>4. CASE t \in {7, 8, 10}
    BY <1>2, <2>4, BundleTasks DEF Task
  <2> QED
    BY <2>1, <2>2, <2>3, <2>4
<1>3. CASE kind = "release"
  <2>1. t = 1 \/ t \in {2, 3, 4}
    BY <1>3, ProgramLength
  <2> QED
    BY <1>1, <1>3, <2>1, FlatTasks DEF Task
<1>4. CASE kind = "snapshot"
  <2>1. t \in {2, 5} \/ t \in {1, 3, 4}
    BY <1>4, ProgramLength
  <2> QED
    BY <1>1, <1>4, <2>1, FlatTasks DEF Task
<1> QED
  BY <1>2, <1>3, <1>4, KindIsKnown

----------------------------------------------------------------------------
(* The position of the reader.                                             *)

LEMMA NextBelow ==
    ASSUME NEW n \in 1 .. 8, NEW i \in 1 .. 8, i < n
    PROVE  i + 1 \in 1 .. 8 /\ i + 1 <= n
  OBVIOUS

LEMMA NotAfter ==
    ASSUME NEW n \in Nat, NEW i \in 1 .. n + 1, i <= n
    PROVE  i \in 1 .. n
  OBVIOUS

\* A call that is not the last of its task.
LEMMA AdvanceWithin ==
    ASSUME TypeOK, PositionInv, Running, kind' = kind, Advance, step < Len(Calls)
    PROVE  /\ task' = task /\ step' = step + 1 /\ status' = status
           /\ Calls' = Calls /\ Name' = Name /\ Dir' = Dir
           /\ task' \in 1 .. Len(Program[kind]) + 1 /\ step' \in 1 .. 8 /\ PositionInv'
<1>1. task' = task /\ step' = step + 1 /\ status' = status
  BY DEF Advance
<1>2. Calls' = Calls /\ Name' = Name /\ Dir' = Dir
  BY <1>1 DEF Calls, Name, Dir
<1>3. task \in 1 .. Len(Program[kind]) /\ step \in 1 .. 8
  BY DEF TypeOK, PositionInv
<1>4. Len(Calls) \in 1 .. 8
  BY <1>3, CallsLength DEF Calls
<1>5. Len(Program[kind]) \in Nat
  BY LengthIsNat
<1>6. step' \in 1 .. 8 /\ step' <= Len(Calls)
  BY <1>1, <1>3, <1>4, NextBelow
<1>7. task' \in 1 .. Len(Program[kind]) + 1 /\ task' <= Len(Program[kind])
  BY <1>1, <1>3, <1>5
<1>8. PositionInv'
  BY <1>1, <1>2, <1>6, <1>7 DEF PositionInv, Running
<1> QED
  BY <1>1, <1>2, <1>6, <1>7, <1>8

\* The last call of a task.
LEMMA AdvanceTask ==
    ASSUME TypeOK, PositionInv, Running, kind' = kind, Advance, step = Len(Calls)
    PROVE  /\ task' = task + 1 /\ step' = 1 /\ status' \in {"running", "accepted"}
           /\ status' = "accepted" => task = Len(Program[kind])
           /\ task' \in 1 .. Len(Program[kind]) + 1 /\ step' \in 1 .. 8 /\ PositionInv'
<1>0. Len(Program[kind]) \in Nat
  BY LengthIsNat
<1>1. step \in 1 .. 8 /\ status = "running" /\ task \in 1 .. Len(Program[kind])
  <2>1. step \in 1 .. 8 /\ task \in 1 .. Len(Program[kind])
    BY <1>0, NotAfter DEF TypeOK, PositionInv
  <2> QED
    BY <2>1 DEF Running
<1>2. /\ task' = task + 1 /\ step' = 1
      /\ status' = IF task = Len(Program[kind]) THEN "accepted" ELSE status
  BY <1>1 DEF Advance
<1>3. status' = "running" => task' \in 1 .. Len(Program[kind])
  BY <1>0, <1>1, <1>2
<1>4. status' = "running" => Len(Calls') \in 1 .. 8
  BY <1>3, CallsLength DEF Calls
<1>5. task' \in 1 .. Len(Program[kind]) + 1 /\ step' \in 1 .. 8
  BY <1>0, <1>1, <1>2
<1>6. PositionInv'
  BY <1>0, <1>1, <1>2, <1>3, <1>4 DEF PositionInv, Running
<1> QED
  BY <1>1, <1>2, <1>5, <1>6

----------------------------------------------------------------------------
(* Other processes.                                                        *)

\* What a change of the tree may not do: go without a new stamp, or past the
\* histories.
Changed ==
    /\ UNCHANGED <<kind, readVars>>
    /\ \A x \in Files : /\ stamp[x] <= stamp'[x]
                        /\ stamp'[x] = stamp[x] => content'[x] = content[x]
    /\ \A x \in Dirs : /\ stamp[x] <= stamp'[x]
                       /\ stamp'[x] = stamp[x] => entry'[x] = entry[x]
    /\ Record

LEMMA ChangeType ==
    ASSUME TypeOK, Change
    PROVE  changes' \in 0 .. MaxChanges /\ changes' = changes + 1 /\ Running
           /\ UNCHANGED <<kind, readVars>>
  BY CaptureAssumption DEF TypeOK, Change

LEMMA RecordType ==
    ASSUME TypeOK, Record, UNCHANGED <<kind, readVars>>, PositionInv, DirInv, Running,
           content' \in [Files -> Content],
           entry' \in [Dirs -> [Names -> Files \cup Dirs \cup {None}]],
           \A d \in Dirs, n \in Names : entry'[d][n] \in (IF n = "d" THEN Dirs ELSE Files) \cup {None}
    PROVE  /\ whole' \in [{"a", "b", "m"} -> SUBSET Content]
           /\ present' \in [{"a", "b", "m"} -> SUBSET Content]
           /\ shape' \in [Labels -> SUBSET [Names -> Files \cup Dirs \cup {None}]]
<1>1. whole' \in [{"a", "b", "m"} -> SUBSET Content]
  BY DEF Record, TypeOK, readVars
<1>2. \A n \in {"a", "b", "m"} : At(n)' # None => At(n)' \in Files
  BY DEF At, Home, Dirs, Names
<1>3. present' \in [{"a", "b", "m"} -> SUBSET Content]
  BY <1>2 DEF Record, TypeOK
<1>4. \A d \in Labels : Watched(d) => dirfd[d] \in Dirs
  <2>1. dirfd["root"] \in Dirs
    BY DEF DirInv, Dirs
  <2>2. Watched("d") => dirfd["d"] \in Dirs
    <3>1. task \in Nat
      BY LengthIsNat DEF TypeOK
    <3>2. dirBefore["d"] # None => After(4, 2) /\ kind = "bundle"
      BY <3>1 DEF DirInv, After, Labels
    <3> QED
      BY <3>2 DEF DirInv, Watched
  <2> QED
    BY <2>1, <2>2 DEF Labels
<1>5. shape' \in [Labels -> SUBSET [Names -> Files \cup Dirs \cup {None}]]
  BY <1>4 DEF Record, TypeOK
<1> QED
  BY <1>1, <1>3, <1>5

LEMMA ChangedType ==
    ASSUME TypeOK, PositionInv, DirInv, Change, Record,
           content' \in [Files -> Content],
           entry' \in [Dirs -> [Names -> Files \cup Dirs \cup {None}]],
           \A d \in Dirs, n \in Names : entry'[d][n] \in (IF n = "d" THEN Dirs ELSE Files) \cup {None},
           stamp' \in [Dirs \cup Files -> 0 .. changes'],
           removed' \subseteq Files
    PROVE  TypeOK'
<1>1. changes' \in 0 .. MaxChanges /\ Running /\ UNCHANGED <<kind, readVars>>
  BY ChangeType
<1>2. /\ whole' \in [{"a", "b", "m"} -> SUBSET Content]
      /\ present' \in [{"a", "b", "m"} -> SUBSET Content]
      /\ shape' \in [Labels -> SUBSET [Names -> Files \cup Dirs \cup {None}]]
  BY <1>1, RecordType
<1> QED
  BY <1>1, <1>2 DEF TypeOK, readVars

LEMMA OthersChange ==
    ASSUME TypeOK, PositionInv, DirInv, Others
    PROVE  Changed /\ TypeOK' /\ Running
<1>1. ASSUME NEW f \in Files, NEW i \in 1 .. 2, Edit(f, i)
      PROVE  Changed /\ TypeOK' /\ Running
  <2>1. /\ content' = [content EXCEPT ![f][i] = IF @ = "good" THEN "bad" ELSE "good"]
        /\ stamp' = [stamp EXCEPT ![f] = @ + 1]
        /\ UNCHANGED <<entry, removed>> /\ Change /\ Record
    BY <1>1 DEF Edit
  <2>2. f \notin Dirs
    BY DEF Files, Dirs
  <2>3. stamp \in [Dirs \cup Files -> 0 .. changes] /\ changes \in Nat
    BY CaptureAssumption DEF TypeOK
  <2>4. Changed
    BY <2>1, <2>2, <2>3, ChangeType DEF Changed, TypeOK
  <2>5. content' \in [Files -> Content]
    <3>1. content[f] \in Content
      BY DEF TypeOK
    <3>2. [content[f] EXCEPT ![i] = IF @ = "good" THEN "bad" ELSE "good"] \in Content
      BY <3>1 DEF Content
    <3> QED
      BY <2>1, <3>2 DEF TypeOK
  <2>6. stamp' \in [Dirs \cup Files -> 0 .. changes']
    BY <2>1, <2>3, ChangeType
  <2>7. TypeOK'
    BY <2>1, <2>5, <2>6, ChangedType DEF TypeOK
  <2> QED
    BY <2>1, <2>4, <2>7, ChangeType
<1>2. ASSUME NEW d \in Dirs, NEW n \in Names, MoveOut(d, n)
      PROVE  Changed /\ TypeOK' /\ Running
  <2>1. /\ entry' = [entry EXCEPT ![d][n] = None]
        /\ stamp' = [stamp EXCEPT ![d] = @ + 1]
        /\ UNCHANGED <<content, removed>> /\ Change /\ Record
    BY <1>2 DEF MoveOut
  <2>2. d \notin Files
    BY DEF Files, Dirs
  <2>3. stamp \in [Dirs \cup Files -> 0 .. changes] /\ changes \in Nat
    BY CaptureAssumption DEF TypeOK
  <2>4. Changed
    BY <2>1, <2>2, <2>3, ChangeType DEF Changed, TypeOK
  <2>5. /\ entry' \in [Dirs -> [Names -> Files \cup Dirs \cup {None}]]
        /\ \A e \in Dirs, k \in Names : entry'[e][k] \in (IF k = "d" THEN Dirs ELSE Files) \cup {None}
    BY <2>1 DEF TypeOK
  <2>6. stamp' \in [Dirs \cup Files -> 0 .. changes']
    BY <2>1, <2>3, ChangeType
  <2>7. TypeOK'
    BY <2>1, <2>5, <2>6, ChangedType DEF TypeOK
  <2> QED
    BY <2>1, <2>4, <2>7, ChangeType
<1>3. ASSUME NEW d \in Dirs, NEW n \in Names, NEW x \in Files \cup Dirs, MoveIn(d, n, x)
      PROVE  Changed /\ TypeOK' /\ Running
  <2> DEFINE old == entry[d][n]
  <2>1. /\ entry' = [entry EXCEPT ![d][n] = x]
        /\ stamp' = [s \in DOMAIN stamp |-> IF s \in {d, old} THEN stamp[s] + 1 ELSE stamp[s]]
        /\ removed' = removed \cup ({old} \ {None})
        /\ UNCHANGED content /\ Change /\ Record
        /\ (n = "d") <=> (x \in Dirs)
        /\ old # None => old \in Files
    BY <1>3 DEF MoveIn
  <2>2. d \notin Files
    BY DEF Files, Dirs
  <2>3. stamp \in [Dirs \cup Files -> 0 .. changes] /\ changes \in Nat
    BY CaptureAssumption DEF TypeOK
  <2>4. Changed
    BY <2>1, <2>2, <2>3, ChangeType DEF Changed, TypeOK
  <2>5. /\ entry' \in [Dirs -> [Names -> Files \cup Dirs \cup {None}]]
        /\ \A e \in Dirs, k \in Names : entry'[e][k] \in (IF k = "d" THEN Dirs ELSE Files) \cup {None}
    BY <2>1 DEF TypeOK
  <2>6. stamp' \in [Dirs \cup Files -> 0 .. changes']
    BY <2>1, <2>3, ChangeType
  <2>7. removed' \subseteq Files
    BY <2>1 DEF TypeOK
  <2>8. TypeOK'
    BY <2>1, <2>5, <2>6, <2>7, ChangedType DEF TypeOK
  <2> QED
    BY <2>1, <2>4, <2>8, ChangeType
<1> QED
  BY <1>1, <1>2, <1>3 DEF Others

\* The histories only grow, by what the tree now holds.
LEMMA HistoryGrows ==
    ASSUME TypeOK, Changed
    PROVE  /\ \A n \in {"a", "b", "m"} :
                /\ whole[n] \subseteq whole'[n] /\ present[n] \subseteq present'[n]
                /\ Reading(n) /\ fd # None => content'[fd] \in whole'[n]
           /\ \A d \in Labels :
                shape'[d] = IF Watched(d) THEN shape[d] \cup {entry'[dirfd[d]]} ELSE shape[d]
  BY DEF Changed, Record, TypeOK

\* A directory whose stamp is still what it was has been left alone.
LEMMA HeldBefore ==
    ASSUME TypeOK, DirInv, Changed, kind = "bundle", NEW d \in Labels, Held(d)'
    PROVE  Held(d) /\ dirfd[d] \in Dirs /\ entry'[dirfd[d]] = entry[dirfd[d]]
<1>1. dirBefore[d] # None /\ stamp'[dirfd[d]] = dirBefore[d]
  BY DEF Held, Changed, readVars
<1>2. task \in Nat
  BY LengthIsNat DEF TypeOK
<1>3. dirfd[d] \in Dirs
  <2>1. CASE d = "root"
    BY <2>1 DEF DirInv, Dirs
  <2>2. CASE d = "d"
    BY <1>1, <1>2, <2>2 DEF DirInv, After
  <2> QED
    BY <2>1, <2>2 DEF Labels
<1>4. dirBefore[d] <= stamp[dirfd[d]]
  BY <1>1 DEF DirInv
<1>5. stamp[dirfd[d]] <= stamp'[dirfd[d]]
  BY <1>3 DEF Changed
<1>6. stamp[dirfd[d]] \in Nat
  BY <1>3, CaptureAssumption DEF TypeOK
<1>7. dirBefore[d] \in Nat
  BY <1>1 DEF TypeOK
<1>8. stamp[dirfd[d]] = dirBefore[d]
  BY <1>1, <1>4, <1>5, <1>6, <1>7
<1> QED
  BY <1>1, <1>3, <1>8 DEF Held, Changed

LEMMA OthersKeepFile ==
    ASSUME TypeOK, TypeOK', PositionInv, FileInv, Changed
    PROVE  FileInv'
<1>1. /\ UNCHANGED <<kind, task, step, status, fd, before, buffer>>
      /\ Name' = Name /\ Skew' = Skew /\ AtFile' = AtFile
  BY DEF Changed, readVars, Name, Skew, AtFile, Running
<1> SUFFICES ASSUME AtFile
             PROVE  FileInv'
  BY <1>1 DEF FileInv
<1>2. Name \in {"a", "b", "m"} /\ Reading(Name) /\ whole[Name] \subseteq whole'[Name]
  BY HistoryGrows DEF AtFile, Reading
<1>3. step \in Nat /\ Skew \in {0, 1}
  BY DEF TypeOK, Skew
<1>4. ASSUME step > Skew + 1
      PROVE  fd \in Files /\ content'[fd] \in whole'[Name]
  BY <1>2, <1>4, HistoryGrows, CaptureAssumption DEF FileInv, Files
<1>5. ASSUME step > Skew + 2
      PROVE  /\ before \in {fd} \X (0 .. stamp'[fd])
             /\ Fresh' => Fresh /\ content'[fd] = content[fd]
  <2>1. fd \in Files /\ before \in {fd} \X (0 .. stamp[fd])
    BY <1>3, <1>5 DEF FileInv
  <2>2. stamp[fd] \in Nat /\ stamp'[fd] \in Nat /\ stamp[fd] <= stamp'[fd]
    BY <2>1 DEF TypeOK, Changed
  <2>3. before \in {fd} \X (0 .. stamp'[fd])
    BY <2>1, <2>2
  <2>4. Fresh' => stamp'[fd] = stamp[fd]
    BY <1>1, <2>1, <2>2 DEF Fresh, Identity
  <2> QED
    BY <1>1, <2>1, <2>3, <2>4 DEF Fresh, Identity, Changed
<1>6. step \in {Skew + 2, Skew + 3} => buffer = <<>>
  BY DEF FileInv
<1>7. step = Skew + 4 => \E c \in {"good", "bad"} :
        buffer = <<c>> /\ (Fresh' => c = content'[fd][1])
  BY <1>3, <1>5 DEF FileInv
<1>8. step >= Skew + 5 => buffer \in Content /\ (Fresh' => buffer = content'[fd])
  BY <1>3, <1>5 DEF FileInv
<1>9. step >= Skew + 6 => buffer \in whole'[Name]
  BY <1>2 DEF FileInv
<1> QED
  BY <1>1, <1>4, <1>5, <1>6, <1>7, <1>8, <1>9 DEF FileInv

LEMMA OthersKeepLooked ==
    ASSUME TypeOK, TypeOK', PositionInv, LookedInv, DirInv, Changed
    PROVE  LookedInv'
<1>1. /\ UNCHANGED <<kind, task, step, status, fd, looked, before, buffer>>
      /\ Name' = Name /\ AtFile' = AtFile
  BY DEF Changed, readVars, Name, AtFile, Running
<1> SUFFICES ASSUME kind = "bundle", AtFile, step > 1
             PROVE  LookedInv'
  BY <1>1 DEF LookedInv
<1>2. Name \in {"a", "b", "m"} /\ present[Name] \subseteq present'[Name]
  BY HistoryGrows DEF AtFile
<1>3. OnPath(Name)' => OnPath(Name)
  BY <1>1, HeldBefore DEF OnPath, Labels
<1>4. PICK f \in Files : \E s \in 0 .. stamp[f] :
         /\ looked = <<f, s>>
         /\ OnPath(Name) /\ stamp[f] = s => content[f] \in present[Name]
  BY DEF LookedInv
<1>5. PICK s \in 0 .. stamp[f] :
         /\ looked = <<f, s>>
         /\ OnPath(Name) /\ stamp[f] = s => content[f] \in present[Name]
  BY <1>4
<1>6. stamp[f] \in Nat /\ stamp'[f] \in Nat /\ stamp[f] <= stamp'[f]
      /\ (stamp'[f] = stamp[f] => content'[f] = content[f])
  BY DEF TypeOK, Changed
<1>7. s \in 0 .. stamp'[f] /\ (stamp'[f] = s => stamp[f] = s /\ content'[f] = content[f])
  BY <1>6
<1>8. OnPath(Name)' /\ stamp'[f] = s => content'[f] \in present'[Name]
  BY <1>2, <1>3, <1>5, <1>7
<1>9. /\ step > 3 => before = looked
      /\ step > 6 /\ OnPath(Name)' => buffer \in present'[Name]
  BY <1>2, <1>3 DEF LookedInv
<1> QED
  BY <1>1, <1>5, <1>7, <1>8, <1>9 DEF LookedInv

LEMMA OthersKeepCaptured ==
    ASSUME TypeOK, CapturedInv, DirInv, Changed
    PROVE  CapturedInv'
<1>1. UNCHANGED <<kind, task, step, captured>>
  BY DEF Changed, readVars
<1> SUFFICES ASSUME NEW n \in {"a", "b", "m"}, task > LastTask[kind][n]
             PROVE  /\ captured[n] = Good /\ Good \in whole'[n]
                    /\ kind = "bundle" /\ (OnPath(n)' \/ After(10, 1)) => Good \in present'[n]
  BY <1>1 DEF CapturedInv, After
<1>2. whole[n] \subseteq whole'[n] /\ present[n] \subseteq present'[n]
  BY HistoryGrows
<1>3. kind = "bundle" /\ OnPath(n)' => OnPath(n)
  BY HeldBefore DEF OnPath, Labels
<1> QED
  BY <1>2, <1>3 DEF CapturedInv

LEMMA OthersKeepDir ==
    ASSUME TypeOK, TypeOK', PositionInv, Running, DirInv, Changed
    PROVE  DirInv'
<1>1. UNCHANGED <<kind, task, step, dirfd, dirBefore>>
  BY DEF Changed, readVars
<1>2. CASE kind # "bundle"
  BY <1>1, <1>2 DEF DirInv
<1>3. CASE kind = "bundle"
  <2>1. \A d \in Labels : Held(d)' => Held(d) /\ dirfd[d] \in Dirs /\ entry'[dirfd[d]] = entry[dirfd[d]]
    BY <1>3, HeldBefore
  <2>2. \A t, i : After(t, i)' = After(t, i)
    BY <1>1 DEF After
  <2>3. \A d \in Labels : dirBefore[d] # None => dirfd[d] \in Dirs
    <3>1. task \in Nat
      BY LengthIsNat DEF TypeOK
    <3> QED
      BY <1>3, <3>1 DEF DirInv, After, Labels, Dirs
  <2>4. ASSUME NEW d \in Labels, dirBefore[d] # None
        PROVE  /\ dirBefore[d] <= stamp'[dirfd[d]]
               /\ Held(d)' => shape'[d] = {entry'[dirfd[d]]}
    <3>1. dirfd[d] \in Dirs /\ dirBefore[d] \in Nat /\ dirBefore[d] <= stamp[dirfd[d]]
      BY <1>3, <2>3, <2>4 DEF DirInv, TypeOK
    <3>2. stamp[dirfd[d]] \in Nat /\ stamp'[dirfd[d]] \in Nat /\ stamp[dirfd[d]] <= stamp'[dirfd[d]]
      BY <3>1 DEF TypeOK, Changed
    <3>3. Held(d)' => shape[d] = {entry[dirfd[d]]} /\ entry'[dirfd[d]] = entry[dirfd[d]]
      BY <1>3, <2>1, <2>4 DEF DirInv
    <3> QED
      BY <2>4, <3>1, <3>2, <3>3, HistoryGrows
  <2>5. \A d \in Labels : dirBefore[d] = None => shape'[d] = shape[d]
    BY HistoryGrows DEF Watched
  <2>6. After(10, 1) => shape'["root"] = shape["root"]
    BY <1>3, <2>5 DEF DirInv, Labels
  <2>7. After(7, 1) => shape'["d"] = shape["d"]
    BY <1>3, <2>5 DEF DirInv, Labels
  <2>8. Held("root")' => Held("root") /\ entry'["root"] = entry["root"]
    BY <2>1 DEF DirInv, Labels
  <2>9. Held("d")' => Held("d") /\ entry'[dirfd["d"]] = entry[dirfd["d"]]
    BY <2>1 DEF Labels
  <2>10. Expected("root")' = Expected("root") /\ Expected("d")' = Expected("d")
    BY <1>1 DEF Expected
  <2>11. /\ Held("root")' => Children(entry'["root"]) = Children(entry["root"])
         /\ Held("d")' => Children(entry'[dirfd["d"]]) = Children(entry[dirfd["d"]])
    BY <2>8, <2>9
  <2> QED
    BY <1>1, <1>3, <2>2, <2>4, <2>6, <2>7, <2>8, <2>9, <2>10, <2>11 DEF DirInv
<1> QED
  BY <1>2, <1>3

----------------------------------------------------------------------------
(* Calls of the reader, which leave the tree alone.                        *)

\* A refusal ends the capture, and nothing is claimed of it.
LEMMA RefuseKeeps ==
    ASSUME TypeOK, PositionInv, UNCHANGED <<kind, treeVars>>, Refuse
    PROVE  IInv'
<1>1. TypeOK'
  BY DEF TypeOK, Refuse, treeVars, historyVars
<1>2. PositionInv' /\ status' = "refused"
  BY DEF Refuse, PositionInv, Running
<1> QED
  BY <1>1, <1>2 DEF IInv

LEMMA PositionType ==
    ASSUME TypeOK, PositionInv, Running, kind' = kind, Advance
    PROVE  /\ task' \in 1 .. Len(Program[kind]) + 1 /\ step' \in 1 .. 8 /\ PositionInv'
           /\ status' \in {"running", "accepted"}
<1>1. step \in 1 .. 8 /\ Len(Calls) \in 1 .. 8 /\ step <= Len(Calls)
  <2>1. task \in 1 .. Len(Program[kind])
    BY LengthIsNat, NotAfter DEF TypeOK, PositionInv
  <2>2. Len(Calls) \in 1 .. 8
    BY <2>1, CallsLength DEF Calls
  <2> QED
    BY <2>2 DEF TypeOK, PositionInv
<1>2. step < Len(Calls) \/ step = Len(Calls)
  <2>1. \A n, i \in 1 .. 8 : i <= n => i < n \/ i = n
    OBVIOUS
  <2> QED
    BY <1>1, <2>1
<1> QED
  BY <1>2, AdvanceWithin, AdvanceTask DEF Running

\* The open directory of a task, and what stands in it under the task's name.
LEMMA FoundType ==
    ASSUME TypeOK, PositionInv, DirInv, Running
    PROVE  /\ dirfd[Dir] \in Dirs /\ Dir \in Labels
           /\ AtFile /\ Found # None => Found \in Files
           /\ Name = "d" /\ Found # None => Found \in Dirs
<1>1. task \in Nat
  BY LengthIsNat DEF TypeOK
<1>2. dirfd[Dir] \in Dirs /\ Dir \in Labels
  <2>1. CASE AtFile
    BY <1>1, <2>1, FileTask DEF DirInv, After, Dirs, Labels
  <2>2. CASE ~AtFile
    BY <1>1, <2>2, OtherTask DEF DirInv, After, Dirs, Labels
  <2> QED
    BY <2>1, <2>2
<1> QED
  BY <1>2 DEF Found, AtFile, TypeOK, Names

\* While the root has not changed, what the reader finds is what its full path
\* leads to.
LEMMA FoundIsOnPath ==
    ASSUME TypeOK, PositionInv, DirInv, AtFile, kind = "bundle", OnPath(Name), Found # None
    PROVE  Holds(Name) = {content[Found]}
<1>1. task \in Nat
  BY LengthIsNat DEF TypeOK
<1>2. CASE Name = "b"
  <2>1. Dir = "d" /\ task = 6
    BY <1>2, FileTask
  <2>2. After(4, 2)
    BY <2>1 DEF After
  <2>3. entry["root"]["d"] = dirfd["d"] /\ dirfd["d"] \in Dirs
    BY <1>2, <2>2 DEF DirInv, OnPath
  <2> QED
    BY <1>2, <2>1, <2>3, CaptureAssumption DEF Holds, At, Home, Found, Dirs
<1>3. CASE Name # "b"
  <2>1. Dir = "root"
    BY <1>3, FileTask
  <2> QED
    BY <1>3, <2>1, CaptureAssumption DEF DirInv, Holds, At, Home, Found, Dirs
<1> QED
  BY <1>2, <1>3

\* What a call changes elsewhere, it leaves of the directories.
LEMMA DirSame ==
    ASSUME DirInv, UNCHANGED <<kind, entry, stamp, dirfd, dirBefore, shape>>,
           kind = "bundle" =>
               \A p \in {<<2, 1>>, <<2, 2>>, <<4, 2>>, <<5, 1>>, <<5, 2>>, <<7, 1>>, <<10, 1>>} :
                   After(p[1], p[2])' = After(p[1], p[2])
    PROVE  DirInv'
<1>1. CASE kind # "bundle"
  BY <1>1 DEF DirInv
<1>2. CASE kind = "bundle"
  <2>1. /\ After(2, 1)' = After(2, 1) /\ After(2, 2)' = After(2, 2) /\ After(4, 2)' = After(4, 2)
        /\ After(5, 1)' = After(5, 1) /\ After(5, 2)' = After(5, 2) /\ After(7, 1)' = After(7, 1)
        /\ After(10, 1)' = After(10, 1)
    BY <1>2
  <2>2. \A d : Held(d)' = Held(d) /\ Expected(d)' = Expected(d)
    BY DEF Held, Expected
  <2> QED
    BY <1>2, <2>1, <2>2 DEF DirInv
<1> QED
  BY <1>1, <1>2

\* A call on a file moves the reader past no call on a directory.
LEMMA FileAfter ==
    ASSUME TypeOK, PositionInv, AtFile, kind = "bundle",
           \/ task' = task
           \/ task' = task + 1 /\ step' = 1,
           NEW p \in {<<2, 1>>, <<2, 2>>, <<4, 2>>, <<5, 1>>, <<5, 2>>, <<7, 1>>, <<10, 1>>}
    PROVE  After(p[1], p[2])' = After(p[1], p[2])
  BY FileTask DEF After

\* A call on a file disturbs the history of that file alone.
LEMMA CapturedWithin ==
    ASSUME TypeOK, PositionInv, CapturedInv, AtFile, task' = task,
           UNCHANGED <<kind, stamp, dirfd, dirBefore, captured>>,
           \A n \in {"a", "b", "m"} : n # Name => whole'[n] = whole[n] /\ present'[n] = present[n]
    PROVE  CapturedInv'
<1>1. task <= LastTask[kind][Name]
  BY FileTask
<1>2. task \in Nat /\ \A n \in {"a", "b", "m"} : LastTask[kind][n] \in Nat
  BY LengthIsNat, LastTaskIsNat DEF TypeOK
<1> SUFFICES ASSUME NEW n \in {"a", "b", "m"}, task > LastTask[kind][n]
             PROVE  /\ captured[n] = Good /\ Good \in whole'[n]
                    /\ kind = "bundle" /\ (OnPath(n)' \/ After(10, 1)') => Good \in present'[n]
  BY DEF CapturedInv
<1>3. n # Name
  BY <1>1, <1>2
<1>4. OnPath(n)' = OnPath(n)
  BY DEF OnPath, Held
<1>5. kind = "bundle" => After(10, 1)' = After(10, 1)
  BY FileAfter
<1> QED
  BY <1>3, <1>4, <1>5 DEF CapturedInv

\* Calls on a file that are not the last of its task.
LEMMA FileStep ==
    ASSUME TypeOK, PositionInv, SafeInv, AtFile, UNCHANGED <<kind, treeVars>>, Advance,
           step < Len(Calls)
    PROVE  /\ task' = task /\ step' = step + 1 /\ status' = status /\ Name' = Name /\ AtFile'
           /\ task' \in 1 .. Len(Program[kind]) + 1 /\ step' \in 1 .. 8 /\ PositionInv'
           /\ Skew' = Skew
  BY AdvanceWithin DEF AtFile, Running, Skew

LEMMA FileStepDir ==
    ASSUME TypeOK, PositionInv, SafeInv, AtFile, UNCHANGED <<kind, treeVars, dirfd, dirBefore, shape>>,
           \/ task' = task
           \/ task' = task + 1 /\ step' = 1
    PROVE  DirInv'
  BY FileAfter, DirSame DEF SafeInv, treeVars

\* Between two files nothing is claimed of a file being read.
LEMMA NothingRead ==
    ASSUME TypeOK, ~AtFile' \/ step' = 1
    PROVE  FileInv' /\ LookedInv'
<1>1. Skew' \in {0, 1}
  BY DEF Skew
<1>2. CASE ~AtFile'
  BY <1>2 DEF FileInv, LookedInv
<1>3. CASE step' = 1
  <2>1. /\ ~(step' > Skew' + 1) /\ ~(step' > Skew' + 2) /\ step' # Skew' + 4
        /\ step' \notin {Skew' + 2, Skew' + 3} /\ ~(step' >= Skew' + 5) /\ ~(step' >= Skew' + 6)
    <3>1. CASE Skew' = 0
      BY <1>3, <3>1
    <3>2. CASE Skew' = 1
      BY <1>3, <3>2
    <3> QED
      BY <1>1, <3>1, <3>2
  <2>3. FileInv'
    BY <2>1 DEF FileInv
  <2>2. LookedInv'
    BY <1>3 DEF LookedInv
  <2> QED
    BY <2>2, <2>3
<1> QED
  BY <1>2, <1>3

LEMMA StatFileKeeps ==
    ASSUME TypeOK, PositionInv, SafeInv, AtFile, Stat, Found # None, ~Refuse
    PROVE  IInv'
<1>1. /\ Op = "stat" /\ UNCHANGED <<kind, treeVars>> /\ Running
      /\ looked' = Identity(Found)
      /\ present' = [present EXCEPT ![Name] = Holds(Name)]
      /\ Advance
      /\ UNCHANGED <<dirfd, fd, before, child, dirBefore, buffer, captured, whole, shape>>
  BY DEF Stat, Does, AtFile
<1>2. kind = "bundle" /\ step = 1 /\ Skew = 1 /\ step < Len(Calls)
  BY <1>1, FileCalls DEF Skew
<1>3. /\ task' = task /\ step' = 2 /\ Name' = Name /\ AtFile' /\ PositionInv' /\ Skew' = Skew
      /\ status' = status
      /\ task' \in 1 .. Len(Program[kind]) + 1
  BY <1>1, <1>2, FileStep
<1>4. Found \in Files /\ Name \in {"a", "b", "m"}
  BY FoundType DEF SafeInv, AtFile
<1>5. DirInv'
  BY <1>1, <1>3, FileStepDir
<1>6. CapturedInv'
  BY <1>1, <1>3, <1>4, CapturedWithin DEF SafeInv, treeVars, TypeOK
<1>7. FileInv'
  BY <1>2, <1>3 DEF FileInv
<1>8. LookedInv'
  <2>1. stamp[Found] \in Nat /\ looked' = <<Found, stamp[Found]>>
    BY <1>1, <1>4, CaptureAssumption DEF TypeOK, Identity
  <2>2. OnPath(Name)' => OnPath(Name)
    BY <1>1, <1>3 DEF OnPath, Held, treeVars
  <2>3. OnPath(Name)' => content[Found] \in present'[Name]
    BY <1>1, <1>2, <1>4, <2>2, FoundIsOnPath, CaptureAssumption DEF SafeInv, TypeOK, Files
  <2> QED
    BY <1>1, <1>3, <1>4, <2>1, <2>3 DEF LookedInv, treeVars
<1>9. TypeOK'
  <2>1. looked' \in Identities
    BY <1>1, <1>4, CaptureAssumption DEF TypeOK, Identity, Identities
  <2>2. Holds(Name) \subseteq Content
    <3>1. At(Name) # None => At(Name) \in Files
      BY <1>4 DEF At, Home, TypeOK, Dirs, Names
    <3> QED
      BY <3>1 DEF Holds, TypeOK
  <2>3. present' \in [{"a", "b", "m"} -> SUBSET Content]
    BY <1>1, <1>4, <2>2 DEF TypeOK
  <2> QED
    BY <1>1, <1>3, <2>1, <2>3 DEF TypeOK, treeVars
<1> QED
  BY <1>3, <1>5, <1>6, <1>7, <1>8, <1>9 DEF IInv, SafeInv

LEMMA OpenFileKeeps ==
    ASSUME TypeOK, PositionInv, SafeInv, AtFile, OpenFile, Found # None, ~Refuse
    PROVE  IInv'
<1>1. /\ Op = "open" /\ UNCHANGED <<kind, treeVars>> /\ Running
      /\ fd' = Found /\ buffer' = <<>>
      /\ whole' = [whole EXCEPT ![Name] = {content[Found]}]
      /\ present' = [present EXCEPT ![Name] = @ \cup Holds(Name)]
      /\ Advance
      /\ UNCHANGED <<dirfd, looked, before, child, dirBefore, captured, shape>>
  BY DEF OpenFile, Does
<1>2. step = Skew + 1 /\ step < Len(Calls) /\ Skew \in {0, 1}
  BY <1>1, FileCalls
<1>3. /\ task' = task /\ step' = Skew + 2 /\ Name' = Name /\ AtFile' /\ PositionInv' /\ Skew' = Skew
      /\ status' = status
      /\ task' \in 1 .. Len(Program[kind]) + 1
  BY <1>1, <1>2, FileStep
<1>4. Found \in Files /\ Name \in {"a", "b", "m"}
  BY FoundType DEF SafeInv, AtFile
<1>5. DirInv'
  BY <1>1, <1>3, FileStepDir
<1>6. CapturedInv'
  BY <1>1, <1>3, <1>4, CapturedWithin DEF SafeInv, treeVars, TypeOK
<1>7. FileInv'
  <2>1. content'[fd'] \in whole'[Name']
    BY <1>1, <1>3, <1>4 DEF TypeOK, treeVars
  <2> QED
    BY <1>1, <1>2, <1>3, <1>4, <2>1 DEF FileInv
<1>8. LookedInv'
  <2> SUFFICES ASSUME kind = "bundle"
               PROVE  LookedInv'
    BY <1>1 DEF LookedInv
  <2>1. step = 2 /\ step' = 3
    BY <1>2, <1>3 DEF Skew
  <2>2. OnPath(Name)' = OnPath(Name) /\ present[Name] \subseteq present'[Name]
    BY <1>1, <1>3, <1>4 DEF OnPath, Held, treeVars, TypeOK
  <2>3. PICK f \in Files : \E s \in 0 .. stamp[f] :
           /\ looked = <<f, s>>
           /\ OnPath(Name) /\ stamp[f] = s => content[f] \in present[Name]
    BY <2>1 DEF SafeInv, LookedInv
  <2> QED
    BY <1>1, <1>3, <2>1, <2>2, <2>3 DEF LookedInv, treeVars
<1>9. TypeOK'
  <2>1. Holds(Name) \subseteq Content
    <3>1. At(Name) # None => At(Name) \in Files
      BY <1>4 DEF At, Home, TypeOK, Dirs, Names
    <3> QED
      BY <3>1 DEF Holds, TypeOK
  <2>2. /\ present' \in [{"a", "b", "m"} -> SUBSET Content]
        /\ whole' \in [{"a", "b", "m"} -> SUBSET Content]
    BY <1>1, <1>4, <2>1 DEF TypeOK
  <2>3. step' \in 1 .. 8
    BY <1>2, <1>3
  <2> QED
    BY <1>1, <1>3, <1>4, <2>2, <2>3 DEF TypeOK, treeVars
<1> QED
  BY <1>3, <1>5, <1>6, <1>7, <1>8, <1>9 DEF IInv, SafeInv

LEMMA FstatKeeps ==
    ASSUME TypeOK, PositionInv, SafeInv, AtFile, Fstat, IsLooked, ~Refuse
    PROVE  IInv'
<1>1. /\ Op = "fstat" /\ UNCHANGED <<kind, treeVars>> /\ Running
      /\ before' = Identity(fd)
      /\ Advance
      /\ UNCHANGED <<dirfd, fd, looked, child, dirBefore, buffer, captured, historyVars>>
  BY DEF Fstat, Does
<1>2. step = Skew + 2 /\ step < Len(Calls) /\ Skew \in {0, 1}
  BY <1>1, FileCalls
<1>3. /\ task' = task /\ step' = Skew + 3 /\ Name' = Name /\ AtFile' /\ PositionInv' /\ Skew' = Skew
      /\ status' = status
      /\ task' \in 1 .. Len(Program[kind]) + 1
  BY <1>1, <1>2, FileStep
<1>4. fd \in Files /\ content[fd] \in whole[Name] /\ buffer = <<>> /\ stamp[fd] \in 0 .. MaxChanges
  BY <1>2, CaptureAssumption DEF SafeInv, FileInv, TypeOK
<1>5. DirInv'
  BY <1>1, <1>3, FileStepDir DEF historyVars
<1>6. CapturedInv'
  BY <1>1, <1>3, CapturedWithin DEF SafeInv, treeVars, historyVars
<1>7. FileInv'
  <2>1. before' \in {fd'} \X (0 .. stamp'[fd'])
    BY <1>1, <1>4 DEF Identity, treeVars
  <2> QED
    BY <1>1, <1>2, <1>3, <1>4, <2>1 DEF FileInv, treeVars, historyVars
<1>8. LookedInv'
  <2> SUFFICES ASSUME kind = "bundle"
               PROVE  LookedInv'
    BY <1>1 DEF LookedInv
  <2>1. step = 3 /\ step' = 4 /\ before' = looked
    BY <1>1, <1>2, <1>3 DEF Skew, IsLooked
  <2>2. OnPath(Name)' = OnPath(Name)
    BY <1>1, <1>3 DEF OnPath, Held, treeVars
  <2>3. PICK f \in Files : \E s \in 0 .. stamp[f] :
           /\ looked = <<f, s>>
           /\ OnPath(Name) /\ stamp[f] = s => content[f] \in present[Name]
    BY <2>1 DEF SafeInv, LookedInv
  <2> QED
    BY <1>1, <1>3, <2>1, <2>2, <2>3 DEF LookedInv, treeVars, historyVars
<1>9. TypeOK'
  <2>1. before' \in Identities
    BY <1>1, <1>4 DEF Identity, Identities
  <2>2. step' \in 1 .. 8
    BY <1>2, <1>3
  <2> QED
    BY <1>1, <1>3, <2>1, <2>2 DEF TypeOK, treeVars, historyVars
<1> QED
  BY <1>3, <1>5, <1>6, <1>7, <1>8, <1>9 DEF IInv, SafeInv

LEMMA AppendPair ==
    ASSUME NEW S, NEW c \in S, NEW e \in S
    PROVE  Append(<<c>>, e) = <<c, e>>
<1>1. /\ Append(<<c>>, e) \in Seq(S) /\ Len(Append(<<c>>, e)) = 2
      /\ Append(<<c>>, e)[1] = c /\ Append(<<c>>, e)[2] = e
  OBVIOUS
<1>2. <<c, e>> \in Seq(S) /\ Len(<<c, e>>) = 2
  OBVIOUS
<1>3. \A i \in 1 .. 2 : Append(<<c>>, e)[i] = <<c, e>>[i]
  BY <1>1
<1> QED
  BY <1>1, <1>2, <1>3, SeqEqual

LEMMA ReadKeeps ==
    ASSUME TypeOK, PositionInv, SafeInv, AtFile, Read
    PROVE  IInv'
<1>1. /\ Op = "read" /\ UNCHANGED <<kind, treeVars>> /\ Running
      /\ buffer' = Append(buffer, content[fd][Len(buffer) + 1])
      /\ Advance
      /\ UNCHANGED <<dirfd, fd, looked, before, child, dirBefore, captured, historyVars>>
  BY DEF Read, Does
<1>2. step \in {Skew + 3, Skew + 4} /\ step < Len(Calls) /\ Skew \in {0, 1}
  BY <1>1, FileCalls
<1>3. /\ task' = task /\ step' = step + 1 /\ Name' = Name /\ AtFile' /\ PositionInv' /\ Skew' = Skew
      /\ status' = status
      /\ task' \in 1 .. Len(Program[kind]) + 1
  BY <1>1, <1>2, FileStep
<1>4. fd \in Files /\ content[fd] \in whole[Name] /\ content[fd] \in Content
  BY <1>2 DEF SafeInv, FileInv, TypeOK
<1>5. DirInv'
  BY <1>1, <1>3, FileStepDir DEF historyVars
<1>6. CapturedInv'
  BY <1>1, <1>3, CapturedWithin DEF SafeInv, treeVars, historyVars
<1>7. Fresh' = Fresh /\ content' = content /\ fd' = fd /\ before' = before /\ stamp' = stamp
  BY <1>1 DEF Fresh, Identity, treeVars
<1>8. content[fd][1] \in {"good", "bad"} /\ content[fd][2] \in {"good", "bad"}
      /\ content[fd] = <<content[fd][1], content[fd][2]>>
  BY <1>4 DEF Content
<1>9. ASSUME step = Skew + 3
      PROVE  FileInv' /\ buffer' \in {<<c>> : c \in {"good", "bad"}}
  <2>1. buffer = <<>>
    BY <1>9 DEF SafeInv, FileInv
  <2>2. buffer' = <<content[fd][1]>>
    BY <1>1, <2>1
  <2>3. before \in {fd} \X (0 .. stamp[fd])
    BY <1>2, <1>9 DEF SafeInv, FileInv
  <2>4. FileInv'
    BY <1>1, <1>2, <1>3, <1>4, <1>7, <1>8, <1>9, <2>2, <2>3 DEF FileInv, historyVars
  <2>5. buffer' \in {<<c>> : c \in {"good", "bad"}}
    BY <1>8, <2>2
  <2> QED
    BY <2>4, <2>5
<1>10. ASSUME step = Skew + 4
       PROVE  FileInv' /\ buffer' \in Content
  <2>1. PICK c \in {"good", "bad"} : buffer = <<c>> /\ (Fresh => c = content[fd][1])
    BY <1>10 DEF SafeInv, FileInv
  <2>2. buffer' = <<c, content[fd][2]>>
    <3>1. Len(buffer) + 1 = 2
      BY <2>1
    <3>2. Append(<<c>>, content[fd][2]) = <<c, content[fd][2]>>
      BY <1>8, AppendPair
    <3>3. buffer' = Append(<<c>>, content[fd][2])
      BY <1>1, <2>1, <3>1
    <3> QED
      BY <3>2, <3>3
  <2>3. before \in {fd} \X (0 .. stamp[fd])
    BY <1>2, <1>10 DEF SafeInv, FileInv
  <2>4. buffer' \in Content /\ (Fresh => buffer' = content[fd])
    BY <1>8, <2>1, <2>2 DEF Content
  <2> QED
    BY <1>1, <1>2, <1>3, <1>4, <1>7, <1>10, <2>3, <2>4 DEF FileInv, historyVars
<1>11. LookedInv'
  <2> SUFFICES ASSUME kind = "bundle"
               PROVE  LookedInv'
    BY <1>1 DEF LookedInv
  <2>1. step \in {4, 5} /\ step' \in {5, 6}
    BY <1>2, <1>3 DEF Skew
  <2>2. OnPath(Name)' = OnPath(Name)
    BY <1>1, <1>3 DEF OnPath, Held, treeVars
  <2>3. before = looked /\ \E f \in Files : \E s \in 0 .. stamp[f] :
           /\ looked = <<f, s>>
           /\ OnPath(Name) /\ stamp[f] = s => content[f] \in present[Name]
    BY <2>1 DEF SafeInv, LookedInv
  <2> QED
    BY <1>1, <1>3, <2>1, <2>2, <2>3 DEF LookedInv, treeVars, historyVars
<1>12. TypeOK'
  <2>1. step' \in 1 .. 8
    BY <1>2, <1>3
  <2>2. buffer' \in {<<>>} \cup {<<c>> : c \in {"good", "bad"}} \cup Content
    BY <1>2, <1>9, <1>10
  <2> QED
    BY <1>1, <1>3, <2>1, <2>2 DEF TypeOK, treeVars, historyVars
<1> QED
  BY <1>2, <1>3, <1>5, <1>6, <1>9, <1>10, <1>11, <1>12 DEF IInv, SafeInv

LEMMA FstatAgainKeeps ==
    ASSUME TypeOK, PositionInv, SafeInv, AtFile, FstatAgain, Unchanged(fd), ~Refuse
    PROVE  IInv'
<1>1. /\ Op = "again" /\ UNCHANGED <<kind, treeVars>> /\ Running
      /\ Advance
      /\ UNCHANGED <<dirfd, fd, looked, before, child, dirBefore, buffer, captured, historyVars>>
  BY DEF FstatAgain, Does
<1>2. step = Skew + 5 /\ step < Len(Calls) /\ Skew \in {0, 1}
  BY <1>1, FileCalls
<1>3. /\ task' = task /\ step' = Skew + 6 /\ Name' = Name /\ AtFile' /\ PositionInv' /\ Skew' = Skew
      /\ status' = status
      /\ task' \in 1 .. Len(Program[kind]) + 1
  BY <1>1, <1>2, FileStep
<1>4. /\ fd \in Files /\ content[fd] \in whole[Name] /\ content[fd] \in Content
      /\ before \in {fd} \X (0 .. stamp[fd])
      /\ buffer = content[fd] /\ before = <<fd, stamp[fd]>>
  BY <1>2 DEF SafeInv, FileInv, TypeOK, Unchanged, Fresh, Identity
<1>5. DirInv'
  BY <1>1, <1>3, FileStepDir DEF historyVars
<1>6. CapturedInv'
  BY <1>1, <1>3, CapturedWithin DEF SafeInv, treeVars, historyVars
<1>7. Fresh' = Fresh /\ content' = content /\ fd' = fd /\ before' = before /\ stamp' = stamp
  BY <1>1 DEF Fresh, Identity, treeVars
<1>8. FileInv'
  BY <1>1, <1>2, <1>3, <1>4, <1>7 DEF FileInv, historyVars
<1>9. LookedInv'
  <2> SUFFICES ASSUME kind = "bundle"
               PROVE  LookedInv'
    BY <1>1 DEF LookedInv
  <2>1. step = 6 /\ step' = 7
    BY <1>2, <1>3 DEF Skew
  <2>2. OnPath(Name)' = OnPath(Name)
    BY <1>1, <1>3 DEF OnPath, Held, treeVars
  <2>3. before = looked
    BY <2>1 DEF SafeInv, LookedInv
  <2>4. PICK f \in Files : \E s \in 0 .. stamp[f] :
           /\ looked = <<f, s>>
           /\ OnPath(Name) /\ stamp[f] = s => content[f] \in present[Name]
    BY <2>1 DEF SafeInv, LookedInv
  <2>5. f = fd /\ looked = <<f, stamp[f]>>
    BY <1>4, <2>3, <2>4
  <2>6. OnPath(Name) => buffer \in present[Name]
    BY <1>4, <2>4, <2>5
  <2> QED
    BY <1>1, <1>3, <2>1, <2>2, <2>3, <2>4, <2>6 DEF LookedInv, treeVars, historyVars
<1>10. TypeOK'
  <2>1. step' \in 1 .. 8
    BY <1>2, <1>3
  <2> QED
    BY <1>1, <1>3, <2>1 DEF TypeOK, treeVars, historyVars
<1> QED
  BY <1>3, <1>5, <1>6, <1>8, <1>9, <1>10 DEF IInv, SafeInv

LEMMA StatAgainKeeps ==
    ASSUME TypeOK, PositionInv, SafeInv, AtFile, StatAgain, Unchanged(Found), ~Refuse
    PROVE  IInv'
<1>1. /\ Op = "restat" /\ UNCHANGED <<kind, treeVars>> /\ Running
      /\ Advance
      /\ UNCHANGED <<dirfd, fd, looked, before, child, dirBefore, buffer, captured, historyVars>>
  BY DEF StatAgain, Does
<1>2. step = 7 /\ kind = "bundle" /\ step < Len(Calls) /\ Skew = 1
  <2>1. step = 7 /\ kind = "bundle" /\ Len(Calls) = Skew + Skew + 6
    BY <1>1, FileCalls
  <2> QED
    BY <2>1 DEF Skew
<1>3. /\ task' = task /\ step' = 8 /\ Name' = Name /\ AtFile' /\ PositionInv' /\ Skew' = Skew
      /\ status' = status
      /\ task' \in 1 .. Len(Program[kind]) + 1
  BY <1>1, <1>2, FileStep
<1>4. DirInv'
  BY <1>1, <1>3, FileStepDir DEF historyVars
<1>5. CapturedInv'
  BY <1>1, <1>3, CapturedWithin DEF SafeInv, treeVars, historyVars
<1>6. Fresh' = Fresh /\ content' = content /\ fd' = fd /\ before' = before /\ stamp' = stamp
  BY <1>1 DEF Fresh, Identity, treeVars
<1>7. FileInv'
  BY <1>1, <1>2, <1>3, <1>6 DEF FileInv, SafeInv, historyVars
<1>8. LookedInv'
  <2>1. OnPath(Name)' = OnPath(Name)
    BY <1>1, <1>3 DEF OnPath, Held, treeVars
  <2>2. before = looked /\ (OnPath(Name) => buffer \in present[Name])
        /\ \E f \in Files : \E s \in 0 .. stamp[f] :
           /\ looked = <<f, s>>
           /\ OnPath(Name) /\ stamp[f] = s => content[f] \in present[Name]
    BY <1>2 DEF SafeInv, LookedInv
  <2> QED
    BY <1>1, <1>3, <2>1, <2>2 DEF LookedInv, treeVars, historyVars
<1>9. TypeOK'
  BY <1>1, <1>3 DEF TypeOK, treeVars, historyVars
<1> QED
  BY <1>3, <1>4, <1>5, <1>7, <1>8, <1>9 DEF IInv, SafeInv

LEMMA DigestKeeps ==
    ASSUME TypeOK, PositionInv, SafeInv, AtFile, Digest, Matches(buffer), ~Refuse
    PROVE  IInv'
<1>1. /\ Op = "digest" /\ UNCHANGED <<kind, treeVars>> /\ Running /\ buffer = Good
      /\ captured' = [captured EXCEPT ![Name] = buffer]
      /\ fd' = None
      /\ Advance
      /\ UNCHANGED <<dirfd, looked, before, child, dirBefore, buffer, historyVars>>
  BY DEF Digest, Does, Matches
<1>2. step = Skew + Skew + 6 /\ step = Len(Calls) /\ Skew \in {0, 1}
  BY <1>1, FileCalls
<1>3. /\ task' = task + 1 /\ step' = 1 /\ status' \in {"running", "accepted"} /\ PositionInv'
      /\ task' \in 1 .. Len(Program[kind]) + 1
  BY <1>1, <1>2, AdvanceTask
<1>4. Good \in whole[Name] /\ Name \in {"a", "b", "m"}
  BY <1>1, <1>2 DEF SafeInv, FileInv, AtFile
<1>5. DirInv'
  BY <1>1, <1>3, FileStepDir DEF historyVars
<1>6. FileInv' /\ LookedInv'
  BY <1>3, NothingRead
<1>7. CapturedInv'
  <2>1. task \in Nat /\ \A n \in {"a", "b", "m"} : LastTask[kind][n] \in Nat
    BY LengthIsNat, LastTaskIsNat DEF TypeOK
  <2>2. \A n \in {"a", "b", "m"} : task = LastTask[kind][n] => n = Name
    BY FileTask
  <2>3. \A n \in {"a", "b", "m"} : OnPath(n)' = OnPath(n)
    BY <1>1 DEF OnPath, Held, treeVars
  <2>4. kind = "bundle" => After(10, 1)' = After(10, 1) /\ ~After(10, 1)
    <3>1. kind = "bundle" => After(10, 1)' = After(10, 1)
      BY <1>3, FileAfter
    <3>2. kind = "bundle" => ~After(10, 1)
      BY FileTask DEF After
    <3> QED
      BY <3>1, <3>2
  <2>5. kind = "bundle" /\ OnPath(Name) => Good \in present[Name]
    <3>1. kind = "bundle" => step = 8
      BY <1>2 DEF Skew
    <3> QED
      BY <1>1, <3>1 DEF SafeInv, LookedInv
  <2> SUFFICES ASSUME NEW n \in {"a", "b", "m"}, task' > LastTask[kind][n]
               PROVE  /\ captured'[n] = Good /\ Good \in whole[n]
                      /\ kind = "bundle" /\ OnPath(n) => Good \in present[n]
    BY <1>1, <2>3, <2>4 DEF CapturedInv, historyVars
  <2>6. CASE n = Name
    BY <1>1, <1>4, <2>5, <2>6 DEF TypeOK
  <2>7. CASE n # Name
    <3>1. task > LastTask[kind][n]
      BY <1>3, <2>1, <2>2, <2>7
    <3> QED
      BY <1>1, <1>4, <2>7, <3>1 DEF SafeInv, CapturedInv, TypeOK
  <2> QED
    BY <2>6, <2>7
<1>8. TypeOK'
  <2>1. captured' \in [{"a", "b", "m"} -> {None, Good}]
    BY <1>1, <1>4 DEF TypeOK
  <2> QED
    BY <1>1, <1>3, <2>1 DEF TypeOK, treeVars, historyVars
<1> QED
  BY <1>3, <1>5, <1>6, <1>7, <1>8 DEF IInv, SafeInv

----------------------------------------------------------------------------
(* Calls on directories, which only the bundle's reader makes but to list. *)

LEMMA CapturedElsewhere ==
    ASSUME TypeOK, PositionInv, CapturedInv, Running, ~AtFile,
           UNCHANGED <<kind, captured, whole, present>>,
           task' = task \/ task' = task + 1,
           kind = "bundle" /\ task > 2 =>
               /\ Held("root")' => Held("root")
               /\ After(10, 1)' => After(10, 1) \/ Held("root")
    PROVE  CapturedInv'
<1>1. /\ task \in Nat /\ \A n \in {"a", "b", "m"} : LastTask[kind][n] \in Nat
      /\ kind = "bundle" => \A n \in {"a", "b", "m"} : LastTask[kind][n] > 2
  BY LengthIsNat, LastTaskIsNat DEF TypeOK
<1>2. \A n \in {"a", "b", "m"} : task # LastTask[kind][n]
  BY OtherTask
<1> SUFFICES ASSUME NEW n \in {"a", "b", "m"}, task' > LastTask[kind][n]
             PROVE  /\ captured[n] = Good /\ Good \in whole[n]
                    /\ kind = "bundle" /\ (OnPath(n)' \/ After(10, 1)') => Good \in present[n]
  BY DEF CapturedInv
<1>3. task > LastTask[kind][n]
  BY <1>1, <1>2
<1>4. kind = "bundle" => task > 2
  BY <1>1, <1>3
<1>5. kind = "bundle" /\ (OnPath(n)' \/ After(10, 1)') => OnPath(n) \/ After(10, 1)
  BY <1>4 DEF OnPath
<1> QED
  BY <1>3, <1>5 DEF CapturedInv

LEMMA StatDirKeeps ==
    ASSUME TypeOK, PositionInv, SafeInv, ~AtFile, Stat, Found # None, ~Refuse
    PROVE  IInv'
<1>1. /\ Op = "stat" /\ UNCHANGED <<kind, treeVars>> /\ Running
      /\ looked' = Identity(Found)
      /\ Advance
      /\ UNCHANGED <<dirfd, fd, before, child, dirBefore, buffer, captured, whole, shape>>
      /\ present' = IF Name = "d" THEN present ELSE [present EXCEPT ![Name] = Holds(Name)]
  BY DEF Stat, Does
<1>2. kind = "bundle" /\ task = 4 /\ step = 1 /\ Len(Calls) = 2
  BY <1>1, OtherCalls
<1>3. Name = "d" /\ present' = present
  BY <1>1, <1>2, OtherTask
<1>4. /\ task' = 4 /\ step' = 2 /\ Name' = "d" /\ PositionInv' /\ status' = status
      /\ task' \in 1 .. Len(Program[kind]) + 1
  BY <1>1, <1>2, <1>3, AdvanceWithin
<1>5. DirInv'
  BY <1>1, <1>2, <1>4, DirSame DEF SafeInv, After, treeVars
<1>6. FileInv' /\ LookedInv'
  BY <1>4, NothingRead DEF AtFile
<1>7. CapturedInv'
  BY <1>1, <1>2, <1>3, <1>4, CapturedElsewhere DEF SafeInv, After, Held, treeVars
<1>8. TypeOK'
  <2>1. Found \in Dirs
    BY <1>1, <1>3, FoundType DEF SafeInv
  <2>2. looked' \in Identities
    BY <1>1, <2>1, CaptureAssumption DEF TypeOK, Identity, Identities
  <2> QED
    BY <1>1, <1>3, <1>4, <2>2 DEF TypeOK, treeVars
<1> QED
  BY <1>4, <1>5, <1>6, <1>7, <1>8 DEF IInv, SafeInv

LEMMA DescendKeeps ==
    ASSUME TypeOK, PositionInv, SafeInv, ~AtFile, Descend, Finds(looked), ~Refuse
    PROVE  IInv'
<1>1. /\ Op = "descend" /\ UNCHANGED <<kind, treeVars>> /\ Running
      /\ dirfd' = [dirfd EXCEPT ![Name] = Found]
      /\ child' = looked
      /\ Advance
      /\ UNCHANGED <<fd, looked, before, dirBefore, buffer, captured, historyVars>>
  BY DEF Descend, Does
<1>2. kind = "bundle" /\ task = 4 /\ step = 2 /\ Len(Calls) = 2
  BY <1>1, OtherCalls
<1>3. Name = "d" /\ Dir = "root"
  BY <1>1, <1>2, OtherTask
<1>4. /\ task' = 5 /\ step' = 1 /\ PositionInv' /\ status' \in {"running", "accepted"}
      /\ task' \in 1 .. Len(Program[kind]) + 1
  BY <1>1, <1>2, <1>3, AdvanceTask
<1>5. Found \in Dirs /\ Found = entry["root"]["d"] /\ dirfd["root"] = "root"
  <2>1. Found \in Dirs
    BY <1>1, <1>3, FoundType DEF SafeInv, Finds
  <2> QED
    BY <1>3, <2>1 DEF SafeInv, DirInv, Found
<1>6. dirfd' \in [Labels -> Dirs \cup {None}] /\ dirfd'["root"] = "root" /\ dirfd'["d"] = Found
  BY <1>1, <1>3, <1>5 DEF TypeOK, Labels
<1>7. DirInv'
  <2>1. dirBefore["d"] = None /\ dirBefore["root"] # None
    BY <1>2 DEF SafeInv, DirInv, After, Labels
  <2>2. /\ After(2, 1) /\ After(2, 2) /\ ~After(5, 1) /\ ~After(5, 2) /\ ~After(7, 1) /\ ~After(10, 1)
    BY <1>2 DEF After
  <2>3. /\ After(2, 1)' /\ After(2, 2)' /\ ~After(5, 1)' /\ ~After(5, 2)' /\ ~After(7, 1)'
        /\ ~After(10, 1)'
    BY <1>4 DEF After
  <2>4. Held("root")' = Held("root") /\ Expected("root")' = Expected("root")
    BY <1>1, <1>5, <1>6 DEF Held, Expected, treeVars
  <2>5. \A d \in Labels : dirBefore[d] # None => d = "root"
    BY <2>1 DEF Labels
  <2> QED
    BY <1>1, <1>2, <1>5, <1>6, <2>1, <2>2, <2>3, <2>4, <2>5 DEF SafeInv, DirInv, treeVars, historyVars, Labels
<1>8. FileInv' /\ LookedInv'
  BY <1>4, NothingRead
<1>9. CapturedInv'
  <2>1. Held("root")' = Held("root")
    BY <1>1, <1>5, <1>6 DEF Held, treeVars
  <2> QED
    BY <1>1, <1>2, <1>4, <2>1, CapturedElsewhere DEF SafeInv, After, treeVars, historyVars
<1>10. TypeOK'
  BY <1>1, <1>4, <1>6 DEF TypeOK, treeVars, historyVars
<1> QED
  BY <1>4, <1>7, <1>8, <1>9, <1>10 DEF IInv, SafeInv

LEMMA LookKeeps ==
    ASSUME TypeOK, PositionInv, SafeInv, ~AtFile, Look
    PROVE  IInv'
<1>1. /\ Op = "look" /\ UNCHANGED <<kind, treeVars>> /\ Running
      /\ dirBefore' = [dirBefore EXCEPT ![Dir] = stamp[dirfd[Dir]]]
      /\ shape' = [shape EXCEPT ![Dir] = {entry[dirfd[Dir]]}]
      /\ Advance
      /\ UNCHANGED <<dirfd, fd, looked, before, child, buffer, captured, whole, present>>
  BY DEF Look, Does
<1>2. kind = "bundle" /\ task \in {2, 5} /\ step = 1 /\ Len(Calls) = 2
  BY <1>1, OtherCalls
<1>3. Dir = IF task = 5 THEN "d" ELSE "root"
  BY <1>1, <1>2, OtherTask
<1>4. /\ task' = task /\ step' = 2 /\ Name' = Name /\ PositionInv' /\ status' = status
      /\ task' \in 1 .. Len(Program[kind]) + 1
  BY <1>1, <1>2, AdvanceWithin
<1>5. /\ dirfd[Dir] \in Dirs /\ Dir \in Labels
      /\ stamp[dirfd[Dir]] \in 0 .. MaxChanges /\ stamp[dirfd[Dir]] # None
      /\ entry[dirfd[Dir]] \in [Names -> Files \cup Dirs \cup {None}]
  <2>1. dirfd[Dir] \in Dirs /\ Dir \in Labels
    BY <1>1, FoundType DEF SafeInv
  <2> QED
    BY <2>1, CaptureAssumption DEF TypeOK
<1>6. /\ dirBefore'[Dir] = stamp[dirfd[Dir]] /\ shape'[Dir] = {entry[dirfd[Dir]]}
      /\ \A d \in Labels : d # Dir => dirBefore'[d] = dirBefore[d] /\ shape'[d] = shape[d]
  BY <1>1, <1>5 DEF TypeOK
<1>7. \A d \in Labels : d # Dir => Held(d)' = Held(d)
  BY <1>1, <1>6 DEF Held, treeVars
<1>8. \A d \in Labels : Expected(d)' = Expected(d)
  BY <1>1 DEF Expected
<1>9. DirInv'
  <2>1. CASE task = 2
    <3>1. /\ After(2, 1)' /\ ~After(2, 2)' /\ ~After(4, 2)' /\ ~After(5, 1)' /\ ~After(5, 2)'
          /\ ~After(7, 1)' /\ ~After(10, 1)'
      BY <1>4, <2>1 DEF After
    <3>2. ~After(5, 1)
      BY <1>2, <2>1 DEF After
    <3>3. dirBefore'["d"] = None /\ Dir = "root" /\ dirBefore'["root"] # None
      BY <1>2, <1>3, <1>5, <1>6, <2>1, <3>2 DEF SafeInv, DirInv, Labels
    <3> QED
      BY <1>1, <1>2, <1>5, <1>6, <3>1, <3>3 DEF SafeInv, DirInv, treeVars, Labels, TypeOK
  <2>2. CASE task = 5
    <3>1. /\ After(2, 1)' /\ After(2, 2)' /\ After(4, 2)' /\ After(5, 1)' /\ ~After(5, 2)'
          /\ ~After(7, 1)' /\ ~After(10, 1)'
      BY <1>4, <2>2 DEF After
    <3>2. After(2, 1) /\ After(2, 2) /\ After(4, 2) /\ ~After(10, 1)
      BY <1>2, <2>2 DEF After
    <3>3. Dir = "d" /\ dirBefore'["d"] # None
      BY <1>3, <1>5, <1>6, <2>2
    <3>4. /\ dirBefore'["root"] = dirBefore["root"] /\ shape'["root"] = shape["root"]
          /\ Held("root")' = Held("root")
      BY <1>6, <1>7, <3>3 DEF Labels
    <3> QED
      BY <1>1, <1>2, <1>5, <1>6, <1>8, <3>1, <3>2, <3>3, <3>4
         DEF SafeInv, DirInv, treeVars, Labels, TypeOK
  <2> QED
    BY <1>2, <2>1, <2>2
<1>10. FileInv' /\ LookedInv'
  BY <1>1, <1>4, NothingRead DEF AtFile, Running
<1>11. CapturedInv'
  <2>1. task > 2 => Held("root")' = Held("root")
    BY <1>2, <1>3, <1>7 DEF Labels
  <2>2. ~After(10, 1)'
    BY <1>2, <1>4 DEF After
  <2> QED
    BY <1>1, <1>4, <2>1, <2>2, CapturedElsewhere DEF SafeInv
<1>12. TypeOK'
  <2>1. dirBefore' \in [Labels -> 0 .. MaxChanges \cup {None}]
    BY <1>1, <1>5 DEF TypeOK
  <2>2. shape' \in [Labels -> SUBSET [Names -> Files \cup Dirs \cup {None}]]
    BY <1>1, <1>5 DEF TypeOK
  <2> QED
    BY <1>1, <1>4, <2>1, <2>2 DEF TypeOK, treeVars
<1> QED
  BY <1>4, <1>9, <1>10, <1>11, <1>12 DEF IInv, SafeInv

LEMMA ListKeeps ==
    ASSUME TypeOK, PositionInv, SafeInv, ~AtFile, List,
           Children(entry[dirfd[Dir]]) = Expected(Dir), ~Refuse
    PROVE  IInv'
<1>1. /\ Op = "list" /\ UNCHANGED <<kind, treeVars>> /\ Running
      /\ Advance
      /\ UNCHANGED <<dirfd, fd, looked, before, child, dirBefore, buffer, captured, historyVars>>
  BY DEF List, Does
<1>2. step = Len(Calls) /\ (kind = "bundle" => task \in {2, 5} /\ step = 2)
  BY <1>1, OtherCalls
<1>3. kind = "bundle" => Dir = IF task = 5 THEN "d" ELSE "root"
  BY <1>1, <1>2, OtherTask
<1>4. /\ task' = task + 1 /\ step' = 1 /\ PositionInv' /\ status' \in {"running", "accepted"}
      /\ task' \in 1 .. Len(Program[kind]) + 1
  BY <1>1, <1>2, AdvanceTask
<1>5. DirInv'
  <2>1. CASE kind # "bundle"
    BY <1>1, <2>1 DEF SafeInv, DirInv, historyVars, treeVars
  <2>2. CASE kind = "bundle"
    <3>1. \A d \in Labels : Held(d)' = Held(d) /\ Expected(d)' = Expected(d)
      BY <1>1 DEF Held, Expected, treeVars
    <3>2. CASE task = 2
      <4>1. /\ After(2, 1)' /\ After(2, 2)' /\ ~After(4, 2)' /\ ~After(5, 1)' /\ ~After(5, 2)'
            /\ ~After(7, 1)' /\ ~After(10, 1)'
        BY <1>4, <3>2 DEF After
      <4>2. After(2, 1) /\ ~After(5, 1) /\ ~After(7, 1) /\ ~After(10, 1)
        BY <1>2, <2>2, <3>2 DEF After
      <4>3. Children(entry["root"]) = Expected("root")
        BY <1>3, <2>2, <3>2 DEF SafeInv, DirInv
      <4> QED
        BY <1>1, <2>2, <3>1, <4>1, <4>2, <4>3 DEF SafeInv, DirInv, treeVars, historyVars, Labels
    <3>3. CASE task = 5
      <4>1. /\ After(2, 1)' /\ After(2, 2)' /\ After(4, 2)' /\ After(5, 1)' /\ After(5, 2)'
            /\ ~After(7, 1)' /\ ~After(10, 1)'
        BY <1>4, <3>3 DEF After
      <4>2. After(2, 1) /\ After(2, 2) /\ After(4, 2) /\ After(5, 1) /\ ~After(7, 1) /\ ~After(10, 1)
        BY <1>2, <2>2, <3>3 DEF After
      <4>3. Children(entry[dirfd["d"]]) = Expected("d")
        BY <1>3, <2>2, <3>3
      <4> QED
        BY <1>1, <2>2, <3>1, <4>1, <4>2, <4>3 DEF SafeInv, DirInv, treeVars, historyVars, Labels
    <3> QED
      BY <1>2, <2>2, <3>2, <3>3
  <2> QED
    BY <2>1, <2>2
<1>6. FileInv' /\ LookedInv'
  BY <1>4, NothingRead
<1>7. CapturedInv'
  <2>1. Held("root")' = Held("root")
    BY <1>1 DEF Held, treeVars
  <2>2. kind = "bundle" => ~After(10, 1)'
    BY <1>2, <1>4 DEF After
  <2> QED
    BY <1>1, <1>4, <2>1, <2>2, CapturedElsewhere DEF SafeInv, historyVars
<1>8. TypeOK'
  BY <1>1, <1>4 DEF TypeOK, treeVars, historyVars
<1> QED
  BY <1>4, <1>5, <1>6, <1>7, <1>8 DEF IInv, SafeInv

LEMMA RelookKeeps ==
    ASSUME TypeOK, PositionInv, SafeInv, ~AtFile, Relook, DirUnchanged, ~Refuse
    PROVE  IInv'
<1>1. /\ Op = "relook" /\ UNCHANGED <<kind, treeVars>> /\ Running
      /\ dirBefore' = [dirBefore EXCEPT ![Dir] = None]
      /\ Advance
      /\ UNCHANGED <<dirfd, fd, looked, before, child, buffer, captured, historyVars>>
  BY DEF Relook, Does
<1>2. kind = "bundle" /\ task \in {7, 10} /\ step = 1 /\ Len(Calls) = 2
  BY <1>1, OtherCalls
<1>3. Dir = IF task = 7 THEN "d" ELSE "root"
  BY <1>1, <1>2, OtherTask
<1>4. /\ task' = task /\ step' = 2 /\ Name' = Name /\ PositionInv' /\ status' = status
      /\ task' \in 1 .. Len(Program[kind]) + 1
  BY <1>1, <1>2, AdvanceWithin
<1>5. /\ dirBefore'[Dir] = None
      /\ \A d \in Labels : d # Dir => dirBefore'[d] = dirBefore[d]
  BY <1>1, <1>3 DEF TypeOK, Labels
<1>6. \A d \in Labels : d # Dir => Held(d)' = Held(d)
  BY <1>1, <1>5 DEF Held, treeVars
<1>7. \A d \in Labels : Expected(d)' = Expected(d)
  BY <1>1 DEF Expected
<1>8. task \in Nat /\ Held(Dir) /\ shape[Dir] = {entry[dirfd[Dir]]}
      /\ Children(entry[dirfd[Dir]]) = Expected(Dir)
  <2>1. CASE task = 7
    <3>1. After(5, 1) /\ After(5, 2) /\ ~After(7, 1)
      BY <1>2, <2>1 DEF After
    <3> QED
      BY <1>1, <1>2, <1>3, <2>1, <3>1 DEF SafeInv, DirInv, DirUnchanged, Held, Labels
  <2>2. CASE task = 10
    <3>1. After(2, 1) /\ After(2, 2) /\ ~After(10, 1)
      BY <1>2, <2>2 DEF After
    <3> QED
      BY <1>1, <1>2, <1>3, <2>2, <3>1 DEF SafeInv, DirInv, DirUnchanged, Held, Labels
  <2> QED
    BY <1>2, <2>1, <2>2
<1>9. DirInv'
  <2>1. CASE task = 7
    <3>1. /\ After(2, 1)' /\ After(2, 2)' /\ After(4, 2)' /\ After(5, 1)' /\ After(5, 2)'
          /\ After(7, 1)' /\ ~After(10, 1)'
      BY <1>4, <2>1 DEF After
    <3>2. After(2, 1) /\ After(2, 2) /\ After(4, 2) /\ ~After(10, 1)
      BY <1>2, <2>1 DEF After
    <3>3. Dir = "d" /\ dirBefore'["d"] = None /\ ~Held("d")'
      BY <1>3, <1>5, <2>1 DEF Held
    <3>4. dirBefore'["root"] = dirBefore["root"] /\ Held("root")' = Held("root")
      BY <1>5, <1>6, <3>3 DEF Labels
    <3>5. shape["d"] = {entry[dirfd["d"]]} /\ Children(entry[dirfd["d"]]) = Expected("d")
      BY <1>8, <3>3
    <3> QED
      BY <1>1, <1>2, <1>7, <3>1, <3>2, <3>3, <3>4, <3>5
         DEF SafeInv, DirInv, treeVars, historyVars, Labels
  <2>2. CASE task = 10
    <3>1. /\ After(2, 1)' /\ After(2, 2)' /\ After(4, 2)' /\ After(5, 1)' /\ After(5, 2)'
          /\ After(7, 1)' /\ After(10, 1)'
      BY <1>4, <2>2 DEF After
    <3>2. After(2, 1) /\ After(2, 2) /\ After(4, 2) /\ After(5, 1) /\ After(5, 2) /\ After(7, 1)
      BY <1>2, <2>2 DEF After
    <3>3. Dir = "root" /\ dirBefore'["root"] = None /\ ~Held("root")'
      BY <1>3, <1>5, <2>2 DEF Held
    <3>4. dirBefore'["d"] = dirBefore["d"] /\ dirBefore["d"] = None /\ ~Held("d")'
      BY <1>2, <1>5, <3>2, <3>3 DEF SafeInv, DirInv, Labels, Held
    <3>5. shape["root"] = {entry["root"]} /\ Children(entry["root"]) = Expected("root")
      BY <1>8, <3>3 DEF SafeInv, DirInv
    <3> QED
      BY <1>1, <1>2, <1>7, <3>1, <3>2, <3>3, <3>4, <3>5
         DEF SafeInv, DirInv, treeVars, historyVars, Labels
  <2> QED
    BY <1>2, <2>1, <2>2
<1>10. FileInv' /\ LookedInv'
  BY <1>1, <1>4, NothingRead DEF AtFile, Running
<1>11. CapturedInv'
  <2>1. Held("root")' => Held("root")
    BY <1>3, <1>5, <1>6 DEF Held, Labels
  <2>2. After(10, 1)' => Held("root")
    BY <1>2, <1>3, <1>4, <1>8 DEF After
  <2> QED
    BY <1>1, <1>4, <2>1, <2>2, CapturedElsewhere DEF SafeInv, historyVars
<1>12. TypeOK'
  <2>1. dirBefore' \in [Labels -> 0 .. MaxChanges \cup {None}]
    BY <1>1, <1>3 DEF TypeOK, Labels
  <2> QED
    BY <1>1, <1>4, <2>1 DEF TypeOK, treeVars, historyVars
<1> QED
  BY <1>4, <1>9, <1>10, <1>11, <1>12 DEF IInv, SafeInv

\* The second half of a look at the end, and the look at d's name.
LEMMA EndKeeps ==
    ASSUME TypeOK, PositionInv, SafeInv, ~AtFile, Running, UNCHANGED <<kind, treeVars>>,
           kind = "bundle", step = Len(Calls),
           (task \in {7, 10} /\ step = 2) \/ task = 8,
           Advance,
           UNCHANGED <<dirfd, fd, looked, before, child, dirBefore, buffer, captured, historyVars>>
    PROVE  IInv'
<1>1. /\ task' = task + 1 /\ step' = 1 /\ PositionInv' /\ status' \in {"running", "accepted"}
      /\ task' \in 1 .. Len(Program[kind]) + 1
  BY AdvanceTask
<1>2. \A p \in {<<2, 1>>, <<2, 2>>, <<4, 2>>, <<5, 1>>, <<5, 2>>, <<7, 1>>, <<10, 1>>} :
          After(p[1], p[2])' = After(p[1], p[2])
  <2>1. CASE task = 7 /\ step = 2
    BY <1>1, <2>1 DEF After
  <2>2. CASE task = 8
    BY <1>1, <2>2 DEF After
  <2>3. CASE task = 10 /\ step = 2
    BY <1>1, <2>3 DEF After
  <2> QED
    BY <2>1, <2>2, <2>3
<1>3. DirInv'
  BY <1>2, DirSame DEF SafeInv, treeVars, historyVars
<1>4. FileInv' /\ LookedInv'
  BY <1>1, NothingRead
<1>5. CapturedInv'
  <2>1. Held("root")' = Held("root")
    BY DEF Held, treeVars
  <2>2. After(10, 1)' = After(10, 1)
    BY <1>2
  <2> QED
    BY <1>1, <2>1, <2>2, CapturedElsewhere DEF SafeInv, historyVars
<1>6. TypeOK'
  BY <1>1 DEF TypeOK, treeVars, historyVars
<1> QED
  BY <1>1, <1>3, <1>4, <1>5, <1>6 DEF IInv, SafeInv

LEMMA RelistKeeps ==
    ASSUME TypeOK, PositionInv, SafeInv, ~AtFile, Relist, ~Refuse
    PROVE  IInv'
<1>1. /\ Op = "relist" /\ UNCHANGED <<kind, treeVars>> /\ Running
      /\ Advance
      /\ UNCHANGED <<dirfd, fd, looked, before, child, dirBefore, buffer, captured, historyVars>>
  BY DEF Relist, Does
<1>2. kind = "bundle" /\ task \in {7, 10} /\ step = 2 /\ Len(Calls) = 2
  BY <1>1, OtherCalls
<1> QED
  BY <1>1, <1>2, EndKeeps

LEMMA AscendKeeps ==
    ASSUME TypeOK, PositionInv, SafeInv, ~AtFile, Ascend, ~Refuse
    PROVE  IInv'
<1>1. /\ Op = "ascend" /\ UNCHANGED <<kind, treeVars>> /\ Running
      /\ Advance
      /\ UNCHANGED <<dirfd, fd, looked, before, child, dirBefore, buffer, captured, historyVars>>
  BY DEF Ascend, Does
<1>2. kind = "bundle" /\ task = 8 /\ step = 1 /\ Len(Calls) = 1
  BY <1>1, OtherCalls
<1> QED
  BY <1>1, <1>2, EndKeeps

----------------------------------------------------------------------------
(* The invariant.                                                          *)

\* Which calls are about files.
LEMMA CallIsOf ==
    ASSUME TypeOK, PositionInv, Running
    PROVE  /\ Op \in {"open", "fstat", "read", "again", "restat", "digest"} => AtFile
           /\ Op \in {"descend", "look", "list", "relook", "relist", "ascend"} => ~AtFile
<1>1. CASE AtFile
  BY <1>1, FileCalls
<1>2. CASE ~AtFile
  BY <1>2, OtherCalls
<1> QED
  BY <1>1, <1>2

LEMMA InitIInv == Init => IInv
<1> SUFFICES ASSUME Init PROVE IInv
  OBVIOUS
<1>1. kind \in {"bundle", "release", "snapshot"} /\ task = 1 /\ step = 1 /\ status = "running"
  BY CaptureAssumption DEF Init
<1>2. Len(Program[kind]) \in {10, 4, 5}
  <2>1. kind = "bundle" \/ kind = "release" \/ kind = "snapshot"
    BY <1>1
  <2> QED
    BY <2>1, ProgramLength
<1>3. TypeOK
  <2>1. entry \in [Dirs -> [Names -> Files \cup Dirs \cup {None}]]
    BY DEF Init, InitialEntry, Files, Dirs
  <2>2. \A d \in Dirs, n \in Names : entry[d][n] \in (IF n = "d" THEN Dirs ELSE Files) \cup {None}
    BY DEF Init, InitialEntry, Files, Dirs, Names
  <2>3. content \in [Files -> Content]
    BY DEF Init, Content, Good
  <2>4. stamp \in [Dirs \cup Files -> 0 .. changes] /\ changes \in 0 .. MaxChanges
    BY CaptureAssumption DEF Init
  <2>5. /\ dirfd \in [Labels -> Dirs \cup {None}]
        /\ dirBefore \in [Labels -> 0 .. MaxChanges \cup {None}]
        /\ shape \in [Labels -> SUBSET [Names -> Files \cup Dirs \cup {None}]]
    BY DEF Init, Labels, Dirs
  <2>6. /\ captured \in [{"a", "b", "m"} -> {None, Good}]
        /\ whole \in [{"a", "b", "m"} -> SUBSET Content]
        /\ present \in [{"a", "b", "m"} -> SUBSET Content]
    BY DEF Init
  <2>7. /\ kind \in Kinds /\ removed \subseteq Files /\ fd \in Files \cup {None}
        /\ {looked, before, child} \subseteq Identities \cup {None}
        /\ buffer \in {<<>>} \cup {<<c>> : c \in {"good", "bad"}} \cup Content
    BY DEF Init
  <2>8. task \in 1 .. Len(Program[kind]) + 1 /\ step \in 1 .. 8
    BY <1>1, <1>2
  <2> QED
    BY <1>1, <2>1, <2>2, <2>3, <2>4, <2>5, <2>6, <2>7, <2>8 DEF TypeOK
<1>4. PositionInv
  <2>0. /\ \A n \in {10, 4, 5} : 1 \in 1 .. n /\ 1 <= n
        /\ \A n \in 1 .. 8 : 1 <= n
    OBVIOUS
  <2>1. 1 \in 1 .. Len(Program[kind])
    BY <1>2, <2>0
  <2>2. Len(Calls) \in 1 .. 8
    BY <1>1, <1>3, <2>1, CallsLength DEF Calls
  <2>3. 1 <= Len(Program[kind]) /\ 1 <= Len(Calls)
    BY <1>2, <2>0, <2>2
  <2> QED
    BY <1>1, <2>3 DEF PositionInv, Running
<1>5. FileInv /\ LookedInv
  <2>1. Skew \in {0, 1}
    BY DEF Skew
  <2>2. CASE Skew = 0
    BY <1>1, <2>2 DEF FileInv, LookedInv
  <2>3. CASE Skew = 1
    BY <1>1, <2>3 DEF FileInv, LookedInv
  <2> QED
    BY <2>1, <2>2, <2>3
<1>6. CapturedInv
  <2>1. \A n \in {"a", "b", "m"} : LastTask[kind][n] \in Nat /\ LastTask[kind][n] >= 1
    BY <1>1 DEF LastTask
  <2> QED
    BY <1>1, <2>1 DEF CapturedInv
<1>7. DirInv
  <2>1. dirfd["root"] = "root" /\ \A d \in Labels : dirBefore[d] = None
    BY DEF Init, Labels
  <2>2. /\ ~After(2, 1) /\ ~After(2, 2) /\ ~After(4, 2) /\ ~After(5, 1) /\ ~After(5, 2)
        /\ ~After(7, 1) /\ ~After(10, 1)
    BY <1>1 DEF After
  <2> QED
    BY <2>1, <2>2 DEF DirInv, Labels
<1> QED
  BY <1>3, <1>4, <1>5, <1>6, <1>7 DEF IInv, SafeInv

LEMMA OthersIInv ==
    ASSUME IInv, Others
    PROVE  IInv'
<1>1. TypeOK /\ PositionInv
  BY DEF IInv
<1>2. Running
  <2>1. Change => Running
    BY DEF Change
  <2> QED
    BY <2>1 DEF Others, Edit, MoveOut, MoveIn
<1>3. SafeInv
  BY <1>2 DEF IInv, Running
<1>4. Changed /\ TypeOK'
  BY <1>1, <1>3, OthersChange DEF SafeInv
<1>5. SafeInv'
  BY <1>1, <1>2, <1>3, <1>4, OthersKeepFile, OthersKeepLooked, OthersKeepCaptured, OthersKeepDir
     DEF SafeInv
<1>6. PositionInv'
  BY <1>1, <1>4 DEF PositionInv, Changed, readVars, Running, Calls
<1> QED
  BY <1>4, <1>5, <1>6 DEF IInv

LEMMA ReaderIInv ==
    ASSUME IInv, Reader
    PROVE  IInv'
<1>1. TypeOK /\ PositionInv
  BY DEF IInv
<1>2. Running /\ UNCHANGED <<kind, treeVars>>
  <2>1. \A op : Does(op) => Running /\ UNCHANGED <<kind, treeVars>>
    BY DEF Does
  <2> QED
    BY <2>1 DEF Reader, Stat, OpenFile, Fstat, Read, FstatAgain, StatAgain, Digest, Descend, Look,
                List, Relook, Relist, Ascend, Fail
<1>3. SafeInv
  BY <1>2 DEF IInv, Running
<1>4. CASE Refuse
  BY <1>1, <1>2, <1>4, RefuseKeeps
<1>5. CASE ~Refuse
  <2>1. CASE Stat
    <3>1. Found # None
      BY <1>5, <2>1 DEF Stat
    <3> QED
      BY <1>1, <1>3, <1>5, <2>1, <3>1, StatFileKeeps, StatDirKeeps
  <2>2. CASE OpenFile
    <3>1. AtFile
      BY <1>1, <1>2, <2>2, CallIsOf DEF OpenFile, Does
    <3>2. Found # None
      BY <1>5, <2>2 DEF OpenFile
    <3> QED
      BY <1>1, <1>3, <1>5, <2>2, <3>1, <3>2, OpenFileKeeps
  <2>3. CASE Fstat
    <3>1. AtFile
      BY <1>1, <1>2, <2>3, CallIsOf DEF Fstat, Does
    <3>2. IsLooked
      BY <1>5, <2>3 DEF Fstat
    <3> QED
      BY <1>1, <1>3, <1>5, <2>3, <3>1, <3>2, FstatKeeps
  <2>4. CASE Read
    <3>1. AtFile
      BY <1>1, <1>2, <2>4, CallIsOf DEF Read, Does
    <3> QED
      BY <1>1, <1>3, <1>5, <2>4, <3>1, ReadKeeps
  <2>5. CASE FstatAgain
    <3>1. AtFile
      BY <1>1, <1>2, <2>5, CallIsOf DEF FstatAgain, Does
    <3>2. Unchanged(fd)
      BY <1>5, <2>5 DEF FstatAgain
    <3> QED
      BY <1>1, <1>3, <1>5, <2>5, <3>1, <3>2, FstatAgainKeeps
  <2>6. CASE StatAgain
    <3>1. AtFile
      BY <1>1, <1>2, <2>6, CallIsOf DEF StatAgain, Does
    <3>2. Unchanged(Found)
      BY <1>5, <2>6 DEF StatAgain
    <3> QED
      BY <1>1, <1>3, <1>5, <2>6, <3>1, <3>2, StatAgainKeeps
  <2>7. CASE Digest
    <3>1. AtFile
      BY <1>1, <1>2, <2>7, CallIsOf DEF Digest, Does
    <3>2. Matches(buffer)
      BY <1>5, <2>7 DEF Digest
    <3> QED
      BY <1>1, <1>3, <1>5, <2>7, <3>1, <3>2, DigestKeeps
  <2>8. CASE Descend
    <3>1. ~AtFile
      BY <1>1, <1>2, <2>8, CallIsOf DEF Descend, Does
    <3>2. Finds(looked)
      BY <1>5, <2>8 DEF Descend
    <3> QED
      BY <1>1, <1>3, <1>5, <2>8, <3>1, <3>2, DescendKeeps
  <2>9. CASE Look
    <3>1. ~AtFile
      BY <1>1, <1>2, <2>9, CallIsOf DEF Look, Does
    <3> QED
      BY <1>1, <1>3, <1>5, <2>9, <3>1, LookKeeps
  <2>10. CASE List
    <3>1. ~AtFile
      BY <1>1, <1>2, <2>10, CallIsOf DEF List, Does
    <3>2. Children(entry[dirfd[Dir]]) = Expected(Dir)
      BY <1>5, <2>10 DEF List
    <3> QED
      BY <1>1, <1>3, <1>5, <2>10, <3>1, <3>2, ListKeeps
  <2>11. CASE Relook
    <3>1. ~AtFile
      BY <1>1, <1>2, <2>11, CallIsOf DEF Relook, Does
    <3>2. DirUnchanged
      BY <1>5, <2>11 DEF Relook
    <3> QED
      BY <1>1, <1>3, <1>5, <2>11, <3>1, <3>2, RelookKeeps
  <2>12. CASE Relist
    <3>1. ~AtFile
      BY <1>1, <1>2, <2>12, CallIsOf DEF Relist, Does
    <3> QED
      BY <1>1, <1>3, <1>5, <2>12, <3>1, RelistKeeps
  <2>13. CASE Ascend
    <3>1. ~AtFile
      BY <1>1, <1>2, <2>13, CallIsOf DEF Ascend, Does
    <3> QED
      BY <1>1, <1>3, <1>5, <2>13, <3>1, AscendKeeps
  <2>14. CASE Fail
    BY <1>5, <2>14 DEF Fail
  <2> QED
    BY <2>1, <2>2, <2>3, <2>4, <2>5, <2>6, <2>7, <2>8, <2>9, <2>10, <2>11, <2>12, <2>13, <2>14 DEF Reader
<1> QED
  BY <1>4, <1>5

\* The reader is where the program says, what it has read of a file is what the
\* file holds while the file's stamp stands, and a bundle's directories are as
\* listed while theirs stand.
THEOREM Invariance == Spec => []IInv
<1>1. ASSUME IInv, [Next]_vars
      PROVE  IInv'
  <2>1. CASE Reader
    BY <1>1, <2>1, ReaderIInv
  <2>2. CASE Others
    BY <1>1, <2>2, OthersIInv
  <2>3. CASE UNCHANGED vars
    <3> USE DEF vars, treeVars, readVars, historyVars
    <3>1. TypeOK' = TypeOK
      BY <2>3 DEF TypeOK
    <3>2. PositionInv' = PositionInv
      BY <2>3 DEF PositionInv, Running, Calls
    <3>3. FileInv' = FileInv
      BY <2>3 DEF FileInv, AtFile, Running, Name, Skew, Fresh, Identity
    <3>4. CapturedInv' = CapturedInv
      BY <2>3 DEF CapturedInv, OnPath, Held, After
    <3>5. LookedInv' = LookedInv
      BY <2>3 DEF LookedInv, AtFile, Running, Name, OnPath, Held
    <3>6. DirInv' = DirInv
      BY <2>3 DEF DirInv, Held, After, Children, Expected
    <3> QED
      BY <1>1, <2>3, <3>1, <3>2, <3>3, <3>4, <3>5, <3>6 DEF IInv, SafeInv
  <2> QED
    BY <1>1, <2>1, <2>2, <2>3 DEF Next
<1> QED
  BY <1>1, InitIInv, PTL DEF Spec

\* Every variable keeps its type.
THEOREM TypeCorrect == Spec => []TypeOK
<1>1. IInv => TypeOK
  BY DEF IInv
<1> QED
  BY <1>1, Invariance, PTL

LEMMA AcceptedIsPast ==
    ASSUME IInv, status = "accepted"
    PROVE  /\ SafeInv
           /\ \A n \in {"a", "b", "m"} : task > LastTask[kind][n]
           /\ kind = "bundle" => After(10, 1) /\ After(7, 1)
<1>1. task = Len(Program[kind]) + 1 /\ SafeInv /\ kind \in {"bundle", "release", "snapshot"}
  BY KindIsKnown DEF IInv, PositionInv
<1>2. /\ kind = "bundle" => task = 10 + 1
      /\ kind = "release" => task = 4 + 1
      /\ kind = "snapshot" => task = 5 + 1
  <2>1. CASE kind = "bundle"
    BY <1>1, <2>1, ProgramLength
  <2>2. CASE kind = "release"
    BY <1>1, <2>2, ProgramLength
  <2>3. CASE kind = "snapshot"
    BY <1>1, <2>3, ProgramLength
  <2> QED
    BY <1>1, <2>1, <2>2, <2>3
<1> QED
  BY <1>1, <1>2 DEF LastTask, After

\* What is accepted is what the manifest identifies, and each file was read as
\* it was at one instant.
THEOREM AcceptedIsWhole == Spec => []CaptureIsWhole
<1>1. IInv => CaptureIsWhole
  BY AcceptedIsPast DEF SafeInv, CapturedInv, CaptureIsWhole, IInv, TypeOK
<1> QED
  BY <1>1, Invariance, PTL

\* Every file of an accepted bundle stood under its full path with the content
\* captured.
THEOREM AcceptedWerePresent == Spec => []BundleFilesWerePresent
<1>1. IInv => BundleFilesWerePresent
  BY AcceptedIsPast DEF SafeInv, CapturedInv, BundleFilesWerePresent, IInv, TypeOK
<1> QED
  BY <1>1, Invariance, PTL

\* No name of an accepted bundle's directories came or went during the capture.
THEOREM AcceptedHeld == Spec => []BundleDirectoriesHeld
<1>1. IInv => BundleDirectoriesHeld
  BY AcceptedIsPast DEF SafeInv, DirInv, BundleDirectoriesHeld, Labels
<1> QED
  BY <1>1, Invariance, PTL
=============================================================================
