----------------------------- MODULE TreeCapture -----------------------------
(***************************************************************************)
(* Capture of a directory tree through descriptors while other processes   *)
(* change the tree, as three readers of ste-compiler do it:                *)
(*                                                                         *)
(*   bundle    artifacts.py open_verified_artifact_bundle                  *)
(*   release   training/release_reader.py read_training_release            *)
(*   snapshot  training/decoder_lora.py read_verified_model_snapshot...    *)
(*             and reference_release.py read_verified_reference_release    *)
(*                                                                         *)
(* All pin a manifest by its digest and every file by the manifest.  They  *)
(* differ in what they compare before and after they read: the bundle      *)
(* reader descends into directories and compares names with descriptors,   *)
(* the others read a flat directory and compare descriptors only.  The     *)
(* tree of a bundle is {a, d/b, m} and a flat tree {a, b, m}, with m the   *)
(* manifest.  A file is two chunks, read one at a time; <<"good", "good">> *)
(* is what the manifest identifies.                                        *)
(*                                                                         *)
(* A stamp stands for the fields of stat_result that the code compares     *)
(* besides the inode: every change of a file or directory gives it a new   *)
(* one.  A rename may leave the stamp of what it moves alone.              *)
(***************************************************************************)
EXTENDS Naturals, Sequences

CONSTANTS
    Kinds,       \* the readers to run
    None,        \* nothing
    MaxChanges   \* bound on changes made by others

ASSUME CaptureAssumption ==
    /\ Kinds \subseteq {"bundle", "release", "snapshot"}
    /\ MaxChanges \in Nat
    /\ None \notin Nat \cup {"root", "sub", "twin"} \cup {"fileA", "fileB", "fileM", "spare"}
    /\ None \notin {"a", "b", "d", "m", "x"}

Dirs == {"root", "sub", "twin"}        \* "twin" may take the place of "sub"
Files == {"fileA", "fileB", "fileM", "spare"}
Names == {"a", "b", "d", "m", "x"}     \* "x" is never expected
Good == <<"good", "good">>
Content == {"good", "bad"} \X {"good", "bad"}

VARIABLES
    kind,      \* which reader runs
    entry,     \* the directories: what each name of each names
    content,   \* the chunks of each file
    stamp,     \* the stamp of each file and directory
    removed,   \* files that lost their only name to another file
    changes,   \* changes made by others
    task,      \* what the reader is at: a file or a directory ...
    step,      \* ... and the system call of it that comes next
    status,    \* "running", "accepted" or "refused"
    dirfd,     \* the directories the reader has open: the root and d
    fd,        \* the file the reader has open
    looked,    \* identity found under the name before it was opened
    before,    \* identity of the descriptor before its file was read
    child,     \* identity of the open subdirectory before it was captured
    dirBefore, \* stamp of each open directory before it was enumerated
    buffer,    \* chunks read of the current file
    captured,  \* the contents captured under each name
    whole,     \* history: contents the file opened for each name has had since
    present,   \* history: contents under each full path while it was captured
    shape      \* history: entries of each open directory while captured

treeVars == <<entry, content, stamp, removed, changes>>
readVars == <<task, step, status, dirfd, fd, looked, before, child, dirBefore, buffer, captured>>
historyVars == <<whole, present, shape>>
vars == <<kind, treeVars, readVars, historyVars>>
-----------------------------------------------------------------------------
(* What each reader captures, in order, and with which system calls.       *)

Task(calls, d, n) == [calls |-> calls, dir |-> d, name |-> n]

(* _read_regular_bytes and _copy_regular_file *)
CheckedCalls == <<"stat", "open", "fstat", "read", "read", "again", "restat", "digest">>
CheckedFile(d, n) == Task(CheckedCalls, d, n)

(* _read_regular_entry, _read_regular_file and _read_regular *)
PlainCalls == <<"open", "fstat", "read", "read", "again", "digest">>
PlainFile(n) == Task(PlainCalls, "root", n)

(* read_training_release compares all digests after the last file; it      *)
(* keeps what it read, so that is the same as comparing each at once.      *)
Program ==
    [bundle |->
        <<CheckedFile("root", "m"),
          Task(<<"look", "list">>, "root", None),
          CheckedFile("root", "a"),
          Task(<<"stat", "descend">>, "root", "d"),
          Task(<<"look", "list">>, "d", None),
          CheckedFile("d", "b"),
          Task(<<"relook", "relist">>, "d", None),
          Task(<<"ascend">>, "root", "d"),
          CheckedFile("root", "m"),
          Task(<<"relook", "relist">>, "root", None)>>,
     release |->
        <<Task(<<"list">>, "root", None), PlainFile("m"), PlainFile("a"), PlainFile("b")>>,
     snapshot |->
        <<PlainFile("m"), Task(<<"list">>, "root", None), PlainFile("a"), PlainFile("b"),
          Task(<<"list">>, "root", None)>>]
-----------------------------------------------------------------------------
Calls == Program[kind][task].calls
Op == Calls[step]
Dir == Program[kind][task].dir
Name == Program[kind][task].name
Running == status = "running"

Expected(d) == IF kind # "bundle" THEN {"a", "b", "m"}
               ELSE IF d = "root" THEN {"a", "d", "m"} ELSE {"b"}
Children(e) == {n \in Names : e[n] # None}
Identity(n) == <<n, stamp[n]>>

(* The open directory a path goes through, and what the path leads to. *)
Home(n) == IF kind = "bundle" /\ n = "b" THEN entry["root"]["d"] ELSE "root"
At(n) == IF Home(n) = None THEN None ELSE entry[Home(n)][n]

InitialEntry(k) ==
    [d \in Dirs |-> [n \in Names |->
        CASE d = "root" /\ n = "m" -> "fileM"
          [] d = "root" /\ n = "a" -> "fileA"
          [] d = "root" /\ n = "b" /\ k # "bundle" -> "fileB"
          [] d = "sub" /\ n = "b" /\ k = "bundle" -> "fileB"
          [] d = "root" /\ n = "d" /\ k = "bundle" -> "sub"
          [] d = "twin" /\ n = "b" /\ k = "bundle" -> "spare"
          [] OTHER -> None]]

Init ==
    /\ kind \in Kinds
    /\ entry = InitialEntry(kind)
    /\ content \in [Files -> {Good, <<"good", "bad">>}]
    /\ content["fileM"] = Good /\ content["spare"] = Good
    /\ stamp = [n \in Dirs \cup Files |-> 0]
    /\ removed = {} /\ changes = 0
    /\ task = 1 /\ step = 1 /\ status = "running"
    /\ dirfd = [d \in {"root", "d"} |-> IF d = "root" THEN "root" ELSE None]
    /\ fd = None /\ looked = None /\ before = None /\ child = None
    /\ dirBefore = [d \in {"root", "d"} |-> None]
    /\ buffer = <<>>
    /\ captured = [n \in {"a", "b", "m"} |-> None]
    /\ whole = [n \in {"a", "b", "m"} |-> {}]
    /\ present = [n \in {"a", "b", "m"} |-> {}]
    /\ shape = [d \in {"root", "d"} |-> {}]
-----------------------------------------------------------------------------
(* Other processes.  Reading = the path whose capture is under way.        *)

Reading(n) == Running /\ Name = n /\ n # "d"
Watched(d) == Running /\ dirBefore[d] # None

(* What a change of the tree adds to the histories. *)
Record ==
    /\ whole' = [n \in DOMAIN whole |->
          IF Reading(n) /\ fd # None THEN whole[n] \cup {content'[fd]} ELSE whole[n]]
    /\ present' = [n \in DOMAIN present |->
          IF Reading(n) /\ At(n)' # None THEN present[n] \cup {content'[At(n)']} ELSE present[n]]
    /\ shape' = [d \in DOMAIN shape |->
          IF Watched(d) THEN shape[d] \cup {entry'[dirfd[d]]} ELSE shape[d]]

Change ==
    /\ Running /\ changes < MaxChanges
    /\ changes' = changes + 1
    /\ UNCHANGED <<kind, readVars>>

(* A chunk of a file is written in place, also of a file without a name. *)
Edit(f, i) ==
    /\ Change
    /\ content' = [content EXCEPT ![f][i] = IF @ = "good" THEN "bad" ELSE "good"]
    /\ stamp' = [stamp EXCEPT ![f] = @ + 1]
    /\ UNCHANGED <<entry, removed>>
    /\ Record

Outside == ((Files \ removed) \cup (Dirs \ {"root"})) \ {entry[d][n] : d \in Dirs, n \in Names}

(* A name is moved out of the tree. *)
MoveOut(d, n) ==
    /\ Change
    /\ entry[d][n] # None
    /\ entry' = [entry EXCEPT ![d][n] = None]
    /\ stamp' = [stamp EXCEPT ![d] = @ + 1]
    /\ UNCHANGED <<content, removed>>
    /\ Record

(* A file or a directory is moved in; a file may replace another file,     *)
(* whose link count and therefore stamp change.                            *)
MoveIn(d, n, x) ==
    LET old == entry[d][n] IN
    /\ Change
    /\ x \in Outside
    /\ (n = "d") <=> (x \in Dirs)
    /\ d # x
    /\ old # None => old \in Files
    /\ entry' = [entry EXCEPT ![d][n] = x]
    /\ stamp' = [s \in DOMAIN stamp |-> IF s \in {d, old} THEN stamp[s] + 1 ELSE stamp[s]]
    /\ removed' = removed \cup ({old} \ {None})
    /\ UNCHANGED content
    /\ Record

Others ==
    \/ \E f \in Files, i \in 1 .. 2 : Edit(f, i)
    \/ \E d \in Dirs, n \in Names : MoveOut(d, n)
    \/ \E d \in Dirs, n \in Names, x \in Files \cup Dirs : MoveIn(d, n, x)
-----------------------------------------------------------------------------
(* The reader.  A call that finds something else than it needs refuses.    *)

Advance ==
    IF step < Len(Calls)
    THEN step' = step + 1 /\ UNCHANGED <<task, status>>
    ELSE /\ step' = 1 /\ task' = task + 1
         /\ status' = IF task = Len(Program[kind]) THEN "accepted" ELSE status

Refuse ==
    /\ status' = "refused"
    /\ UNCHANGED <<task, step, dirfd, fd, looked, before, child, dirBefore, buffer, captured, historyVars>>

Does(op) == Running /\ Op = op /\ UNCHANGED <<kind, treeVars>>

Found == entry[dirfd[Dir]][Name]
Finds(identity) == Found # None /\ Identity(Found) = identity

(* What the file at a path holds, if there is one. *)
Holds(n) == IF At(n) = None THEN {} ELSE {content[At(n)]}

(* os.stat(name): history starts for the bundle's files. *)
Stat ==
    /\ Does("stat")
    /\ \/ Found = None /\ Refuse
       \/ /\ Found # None
          /\ looked' = Identity(Found)
          /\ present' = IF Name = "d" THEN present ELSE [present EXCEPT ![Name] = Holds(Name)]
          /\ Advance
          /\ UNCHANGED <<dirfd, fd, before, child, dirBefore, buffer, captured, whole, shape>>

OpenFile ==
    /\ Does("open")
    /\ \/ Found = None /\ Refuse
       \/ /\ Found # None
          /\ fd' = Found
          /\ buffer' = <<>>
          /\ whole' = [whole EXCEPT ![Name] = {content[Found]}]
          /\ present' = [present EXCEPT ![Name] = @ \cup Holds(Name)]
          /\ Advance
          /\ UNCHANGED <<dirfd, looked, before, child, dirBefore, captured, shape>>

(* The file must have one link and, for the bundle, be what was looked at. *)
IsLooked == fd \notin removed /\ (kind = "bundle" => Identity(fd) = looked)

Fstat ==
    /\ Does("fstat")
    /\ \/ ~IsLooked /\ Refuse
       \/ /\ IsLooked
          /\ before' = Identity(fd)
          /\ Advance
          /\ UNCHANGED <<dirfd, fd, looked, child, dirBefore, buffer, captured, historyVars>>

Read ==
    /\ Does("read")
    /\ buffer' = Append(buffer, content[fd][Len(buffer) + 1])
    /\ Advance
    /\ UNCHANGED <<dirfd, fd, looked, before, child, dirBefore, captured, historyVars>>

(* Mutant: what was read is not compared with what was opened. *)
UnchangedUnchecked(n) == TRUE

Unchanged(n) == n # None /\ Identity(n) = before

(* fstat after the last chunk. *)
FstatAgain ==
    /\ Does("again")
    /\ \/ ~Unchanged(fd) /\ Refuse
       \/ Unchanged(fd) /\ Advance /\ UNCHANGED <<dirfd, fd, looked, before, child, dirBefore, buffer, captured, historyVars>>

(* The bundle's reader also looks at the name again. *)
StatAgain ==
    /\ Does("restat")
    /\ \/ ~Unchanged(Found) /\ Refuse
       \/ /\ Unchanged(Found)
          /\ Advance
          /\ UNCHANGED <<dirfd, fd, looked, before, child, dirBefore, buffer, captured, historyVars>>

Matches(b) == b = Good

(* The digest of what was read is compared with the manifest, and that of  *)
(* the manifest with the digest given by the caller.                       *)
Digest ==
    /\ Does("digest")
    /\ \/ ~Matches(buffer) /\ Refuse
       \/ /\ Matches(buffer)
          /\ captured' = [captured EXCEPT ![Name] = buffer]
          /\ fd' = None
          /\ Advance
          /\ UNCHANGED <<dirfd, looked, before, child, dirBefore, buffer, historyVars>>

(* open and fstat of a directory below the root *)
Descend ==
    /\ Does("descend")
    /\ \/ ~Finds(looked) /\ Refuse
       \/ /\ Finds(looked)
          /\ dirfd' = [dirfd EXCEPT ![Name] = Found]
          /\ child' = looked
          /\ Advance
          /\ UNCHANGED <<fd, looked, before, dirBefore, buffer, captured, historyVars>>

(* fstat of a directory before its names are read *)
Look ==
    /\ Does("look")
    /\ dirBefore' = [dirBefore EXCEPT ![Dir] = stamp[dirfd[Dir]]]
    /\ shape' = [shape EXCEPT ![Dir] = {entry[dirfd[Dir]]}]
    /\ Advance
    /\ UNCHANGED <<dirfd, fd, looked, before, child, buffer, captured, whole, present>>

List ==
    /\ Does("list")
    /\ LET asExpected == Children(entry[dirfd[Dir]]) = Expected(Dir) IN
       \/ ~asExpected /\ Refuse
       \/ /\ asExpected
          /\ Advance
          /\ UNCHANGED <<dirfd, fd, looked, before, child, dirBefore, buffer, captured, historyVars>>

(* Mutant: only the names of a directory are compared. *)
DirUnchangedUnchecked == TRUE

DirUnchanged == stamp[dirfd[Dir]] = dirBefore[Dir]

(* fstat of a directory after its children were captured ... *)
Relook ==
    /\ Does("relook")
    /\ \/ ~DirUnchanged /\ Refuse
       \/ /\ DirUnchanged
          /\ dirBefore' = [dirBefore EXCEPT ![Dir] = None]
          /\ Advance
          /\ UNCHANGED <<dirfd, fd, looked, before, child, buffer, captured, historyVars>>

(* ... and its names again. *)
Relist ==
    /\ Does("relist")
    /\ LET asExpected == Children(entry[dirfd[Dir]]) = Expected(Dir) IN
       \/ ~asExpected /\ Refuse
       \/ /\ asExpected
          /\ Advance
          /\ UNCHANGED <<dirfd, fd, looked, before, child, dirBefore, buffer, captured, historyVars>>

(* A subdirectory must still be at its name, as it was opened. *)
Ascend ==
    /\ Does("ascend")
    /\ \/ ~Finds(child) /\ Refuse
       \/ /\ Finds(child)
          /\ Advance
          /\ UNCHANGED <<dirfd, fd, looked, before, child, dirBefore, buffer, captured, historyVars>>

(* Any of the system calls may fail. *)
Fail == Running /\ UNCHANGED <<kind, treeVars>> /\ Refuse

Reader == \/ Stat \/ OpenFile \/ Fstat \/ Read \/ FstatAgain \/ StatAgain \/ Digest
          \/ Descend \/ Look \/ List \/ Relook \/ Relist \/ Ascend \/ Fail

Next == Reader \/ Others

Spec == Init /\ [][Next]_vars
-----------------------------------------------------------------------------
Labels == {"root", "d"}
Identities == (Dirs \cup Files) \X (0 .. MaxChanges)

TypeOK ==
    /\ kind \in Kinds
    /\ entry \in [Dirs -> [Names -> Files \cup Dirs \cup {None}]]
    /\ \A d \in Dirs, n \in Names : entry[d][n] \in (IF n = "d" THEN Dirs ELSE Files) \cup {None}
    /\ content \in [Files -> Content]
    /\ stamp \in [Dirs \cup Files -> 0 .. changes]
    /\ removed \subseteq Files /\ changes \in 0 .. MaxChanges
    /\ task \in 1 .. Len(Program[kind]) + 1
    /\ step \in 1 .. 8
    /\ status \in {"running", "accepted", "refused"}
    /\ dirfd \in [Labels -> Dirs \cup {None}]
    /\ fd \in Files \cup {None}
    /\ {looked, before, child} \subseteq Identities \cup {None}
    /\ dirBefore \in [Labels -> 0 .. MaxChanges \cup {None}]
    /\ buffer \in {<<>>} \cup {<<c>> : c \in {"good", "bad"}} \cup Content
    /\ captured \in [{"a", "b", "m"} -> {None, Good}]
    /\ whole \in [{"a", "b", "m"} -> SUBSET Content]
    /\ present \in [{"a", "b", "m"} -> SUBSET Content]
    /\ shape \in [Labels -> SUBSET [Names -> Files \cup Dirs \cup {None}]]

(* What a reader accepts is what the manifest says, and every file was     *)
(* read as it was at one instant: chunks of two versions never combine,    *)
(* not even to the content that the manifest identifies                    *)
(* (artifacts.py:405-413, release_reader.py:158-175).                      *)
CaptureIsWhole ==
    status = "accepted" =>
        \A n \in DOMAIN captured : captured[n] = Good /\ captured[n] \in whole[n]

(* Every file of a bundle stood, with the content captured, under its full *)
(* path while it was captured, whatever was moved or exchanged on the way  *)
(* to it (artifacts.py:347-364, 396-413, 523-549).                                  *)
BundleFilesWerePresent ==
    status = "accepted" /\ kind = "bundle" =>
        \A n \in DOMAIN captured : captured[n] \in present[n]

(* From before its names are read until its last child is captured no name *)
(* of a directory of a bundle is added, removed or replaced, not even for  *)
(* a while (artifacts.py:477, 550-557).                                    *)
BundleDirectoriesHeld ==
    status = "accepted" /\ kind = "bundle" =>
        \A d \in Labels : \E e \in shape[d] :
            shape[d] = {e} /\ Children(e) = Expected(d)
-----------------------------------------------------------------------------
(* The inductive invariant behind the properties above.                     *)

(* The reader has made call s of task t.                                    *)
After(t, s) == task > t \/ (task = t /\ step > s)

(* The reader has calls left until it has accepted.                         *)
PositionInv ==
    /\ Running => task <= Len(Program[kind]) /\ step <= Len(Calls)
    /\ status = "accepted" => task = Len(Program[kind]) + 1

(* The bundle's reader looks at a file before it opens it.                  *)
Skew == IF kind = "bundle" THEN 1 ELSE 0
AtFile == Running /\ Name \in {"a", "b", "m"}
Fresh == Identity(fd) = before

(* What is read of a file is what the file holds, as long as its stamp is   *)
(* the one it had before.                                                   *)
FileInv ==
    AtFile =>
        /\ step > Skew + 1 => fd \in Files /\ content[fd] \in whole[Name]
        /\ step > Skew + 2 => before \in {fd} \X (0 .. stamp[fd])
        /\ step \in {Skew + 2, Skew + 3} => buffer = <<>>
        /\ step = Skew + 4 => \E c \in {"good", "bad"} :
               buffer = <<c>> /\ (Fresh => c = content[fd][1])
        /\ step >= Skew + 5 => buffer \in Content /\ (Fresh => buffer = content[fd])
        /\ step >= Skew + 6 => buffer \in whole[Name]

(* A directory has not changed since its names were about to be read.       *)
Held(d) == dirBefore[d] # None /\ stamp[dirfd[d]] = dirBefore[d]

(* A file below d is under its full path while the root has not changed.    *)
OnPath(n) == n = "b" => Held("root")

(* A bundle's file was at its path with what is read of it.                 *)
LookedInv ==
    kind = "bundle" /\ AtFile /\ step > 1 =>
        /\ \E f \in Files : \E s \in 0 .. stamp[f] :
               /\ looked = <<f, s>>
               /\ OnPath(Name) /\ stamp[f] = s => content[f] \in present[Name]
        /\ step > 3 => before = looked
        /\ step > 6 /\ OnPath(Name) => buffer \in present[Name]

(* The task that captures each file for good.                               *)
LastTask ==
    [bundle |-> [a |-> 3, b |-> 6, m |-> 9],
     release |-> [a |-> 3, b |-> 4, m |-> 2],
     snapshot |-> [a |-> 3, b |-> 4, m |-> 1]]

CapturedInv ==
    \A n \in {"a", "b", "m"} : task > LastTask[kind][n] =>
        /\ captured[n] = Good /\ Good \in whole[n]
        /\ kind = "bundle" /\ (OnPath(n) \/ After(10, 1)) => Good \in present[n]

(* While a directory of a bundle has not changed its names are those it was *)
(* expected to have, and the directory below the root is at its name.       *)
DirInv ==
    /\ dirfd["root"] = "root"
    /\ kind # "bundle" => \A d \in Labels : dirBefore[d] = None
    /\ kind = "bundle" =>
        /\ dirBefore["root"] # None <=> After(2, 1) /\ ~After(10, 1)
        /\ dirBefore["d"] # None <=> After(5, 1) /\ ~After(7, 1)
        /\ After(4, 2) => dirfd["d"] \in Dirs /\ (Held("root") => entry["root"]["d"] = dirfd["d"])
        /\ \A d \in Labels : dirBefore[d] # None =>
               /\ dirBefore[d] <= stamp[dirfd[d]]
               /\ Held(d) => shape[d] = {entry[dirfd[d]]}
        /\ After(2, 2) /\ Held("root") => Children(entry["root"]) = Expected("root")
        /\ After(5, 2) /\ Held("d") => Children(entry[dirfd["d"]]) = Expected("d")
        /\ After(10, 1) => \E e \in shape["root"] : shape["root"] = {e} /\ Children(e) = Expected("root")
        /\ After(7, 1) => \E e \in shape["d"] : shape["d"] = {e} /\ Children(e) = Expected("d")

SafeInv == FileInv /\ LookedInv /\ CapturedInv /\ DirInv

(* Nothing is claimed of a capture that was refused.                        *)
IInv == TypeOK /\ PositionInv /\ (status # "refused" => SafeInv)
=============================================================================
