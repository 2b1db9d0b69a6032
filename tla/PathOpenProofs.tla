---------------------------- MODULE PathOpenProofs ----------------------------
(***************************************************************************)
(* Theorems about PathOpen, for any number of openers, directories and     *)
(* removals.                                                               *)
(***************************************************************************)
EXTENDS PathOpen, TLAPS

(* Where ensure_lock_parent's cursor can be. *)
Cursor ==
  \A o \in Opener :
     /\ pc[o] = "inspect" => level[o] <= Depth
     /\ pc[o] \in {"create_dir", "tighten_dir"} => level[o] \in Level
     /\ pc[o] = "tighten_dir" => dirs[level[o]] # "absent"
     /\ pc[o] = "validate_dir" => dirs[Depth] # "absent"

(* Files are numbered as they come, and one that is named or open is one
   that has come. *)
Numbered ==
  /\ files <= removals + 1
  /\ entry = NoFile => files <= removals
  /\ entry <= files
  /\ \A o \in Opener : fd[o] <= files

(* Until the file is removed, every descriptor is of the file that the path
   names. *)
SameFile == removals = 0 => \A o \in Opener : fd[o] # NoFile => fd[o] = entry

Validated(o) ==
  pc[o] \in {"open", "create_file", "tighten_file", "validate_file", "canonicalize",
             "opened"}

(* What a Private opener has validated stays as it was. *)
PrivateKept ==
  \A o \in Private :
     /\ Validated(o) => dirs[Depth] = "private"
     /\ Past(o) => kind[fd[o]] = "private"

(* Openers among themselves only make private things. *)
Unspoiled ==
  ~spoiled =>
     /\ \A k \in Level : dirs[k] \in {"absent", "private"}
     /\ \A f \in File : kind[f] = "private"

IInv ==
  TypeOK /\ Cursor /\ Numbered /\ SameFile /\ PrivateKept /\ Unspoiled /\ NoSpuriousRefusal

LEMMA InitIInv == Init => IInv
<1> SUFFICES ASSUME Init PROVE IInv
  OBVIOUS
<1>1. Depth \in Level /\ 0 .. Depth + 1 # {} /\ Depth \in 0 .. Depth + 1
  BY PathAssumption DEF Level
<1>2. TypeOK
  <2>1. /\ pc \in [Opener -> Phase] /\ level \in [Opener -> 0 .. Depth + 1]
        /\ dirs \in [Level -> DirectoryEntry] /\ kind \in [File -> FileKind]
        /\ fd \in [Opener -> File \cup {NoFile}]
    BY <1>1 DEF Init, Phase, DirectoryEntry, FileKind
  <2>2. /\ files \in 0 .. MaxRemovals + 1 /\ removals \in 0 .. MaxRemovals
        /\ entry \in File \cup {NoFile}
    BY PathAssumption DEF Init, NoFile
  <2>0. spoiled \in BOOLEAN
    BY DEF Init
  <2>3. \A o \in Opener : pc[o] = "inspect" /\ fd[o] = NoFile
    BY DEF Init
  <2>4. QED
    BY <2>0, <2>1, <2>2, <2>3 DEF TypeOK
<1>3. Cursor /\ Numbered /\ SameFile /\ PrivateKept
  BY <1>1, PathAssumption
  DEF Init, Cursor, Numbered, SameFile, PrivateKept, Validated, Past, NoFile
<1>4. Unspoiled /\ NoSpuriousRefusal
  BY DEF Init, Unspoiled, NoSpuriousRefusal
<1>5. QED
  BY <1>2, <1>3, <1>4 DEF IInv

(* File numbers are numbers. *)
LEMMA Numbers ==
  ASSUME TypeOK
  PROVE  /\ files \in Nat /\ removals \in Nat /\ entry \in Nat
         /\ \A o \in Opener : fd[o] \in Nat
<1>1. \A f \in File \cup {NoFile} : f \in Nat
  BY PathAssumption DEF File, NoFile
<1>2. QED
  BY <1>1, PathAssumption DEF TypeOK

LEMMA DirectoryStep ==
  ASSUME IInv, NEW o \in Opener,
         \/ InspectFound(o) \/ InspectMissing(o) \/ InspectRefused(o)
         \/ CreateDirectory(o) \/ TightenDirectory(o) \/ ValidateDirectory(o)
  PROVE  IInv'
<1> USE PathAssumption DEF NoFile, File, Level, Directory, DirectoryEntry, FileKind, At, Goto, Fail, outside
<1>0. TypeOK /\ Cursor /\ Numbered /\ SameFile /\ PrivateKept /\ Unspoiled /\ NoSpuriousRefusal
  BY DEF IInv
<1>1. CASE InspectFound(o)
  <2>1. TypeOK'
    BY <1>0, <1>1 DEF TypeOK, InspectFound, IsDirectory, Descend, Phase, Cursor, Numbered
  <2>2. Cursor'
    BY <1>0, <1>1 DEF TypeOK, InspectFound, IsDirectory, Descend, Cursor
  <2>3. Numbered'
    BY <1>0, <1>1 DEF TypeOK, InspectFound, IsDirectory, Descend, Numbered
  <2>4. SameFile'
    BY <1>0, <1>1 DEF TypeOK, InspectFound, IsDirectory, Descend, SameFile
  <2>5. PrivateKept'
    BY <1>0, <1>1 DEF TypeOK, InspectFound, IsDirectory, Descend, PrivateKept, Validated, Past, Numbered
  <2>6. Unspoiled'
    BY <1>0, <1>1 DEF TypeOK, InspectFound, IsDirectory, Descend, Unspoiled
  <2>7. NoSpuriousRefusal'
    BY <1>0, <1>1 DEF TypeOK, InspectFound, IsDirectory, Descend, NoSpuriousRefusal, Unspoiled, SameFile, Cursor
  <2>8. QED
    BY <2>1, <2>2, <2>3, <2>4, <2>5, <2>6, <2>7 DEF IInv
<1>2. CASE InspectMissing(o)
  <2>1. TypeOK'
    BY <1>0, <1>2 DEF TypeOK, InspectMissing, Phase, Cursor, Numbered
  <2>2. Cursor'
    BY <1>0, <1>2 DEF TypeOK, InspectMissing, Cursor
  <2>3. Numbered'
    BY <1>0, <1>2 DEF TypeOK, InspectMissing, Numbered
  <2>4. SameFile'
    BY <1>0, <1>2 DEF TypeOK, InspectMissing, SameFile
  <2>5. PrivateKept'
    BY <1>0, <1>2 DEF TypeOK, InspectMissing, PrivateKept, Validated, Past, Numbered
  <2>6. Unspoiled'
    BY <1>0, <1>2 DEF TypeOK, InspectMissing, Unspoiled
  <2>7. NoSpuriousRefusal'
    BY <1>0, <1>2 DEF TypeOK, InspectMissing, NoSpuriousRefusal, Unspoiled, SameFile, Cursor
  <2>8. QED
    BY <2>1, <2>2, <2>3, <2>4, <2>5, <2>6, <2>7 DEF IInv
<1>3. CASE InspectRefused(o)
  <2>1. TypeOK'
    BY <1>0, <1>3 DEF TypeOK, InspectRefused, IsDirectory, Phase, Cursor, Numbered
  <2>2. Cursor'
    BY <1>0, <1>3 DEF TypeOK, InspectRefused, IsDirectory, Cursor
  <2>3. Numbered'
    BY <1>0, <1>3 DEF TypeOK, InspectRefused, IsDirectory, Numbered
  <2>4. SameFile'
    BY <1>0, <1>3 DEF TypeOK, InspectRefused, IsDirectory, SameFile
  <2>5. PrivateKept'
    BY <1>0, <1>3 DEF TypeOK, InspectRefused, IsDirectory, PrivateKept, Validated, Past, Numbered
  <2>6. Unspoiled'
    BY <1>0, <1>3 DEF TypeOK, InspectRefused, IsDirectory, Unspoiled
  <2>7. NoSpuriousRefusal'
    BY <1>0, <1>3 DEF TypeOK, InspectRefused, IsDirectory, NoSpuriousRefusal, Unspoiled, SameFile, Cursor
  <2>8. QED
    BY <2>1, <2>2, <2>3, <2>4, <2>5, <2>6, <2>7 DEF IInv
<1>4. CASE CreateDirectory(o)
  <2>1. TypeOK'
    BY <1>0, <1>4 DEF TypeOK, CreateDirectory, Phase, Cursor, Numbered
  <2>2. Cursor'
    BY <1>0, <1>4 DEF TypeOK, CreateDirectory, Cursor
  <2>3. Numbered'
    BY <1>0, <1>4 DEF TypeOK, CreateDirectory, Numbered
  <2>4. SameFile'
    BY <1>0, <1>4 DEF TypeOK, CreateDirectory, SameFile
  <2>5. PrivateKept'
    BY <1>0, <1>4 DEF TypeOK, CreateDirectory, PrivateKept, Validated, Past, Numbered
  <2>6. Unspoiled'
    BY <1>0, <1>4 DEF TypeOK, CreateDirectory, Unspoiled
  <2>7. NoSpuriousRefusal'
    BY <1>0, <1>4 DEF TypeOK, CreateDirectory, NoSpuriousRefusal, Unspoiled, SameFile, Cursor
  <2>8. QED
    BY <2>1, <2>2, <2>3, <2>4, <2>5, <2>6, <2>7 DEF IInv
<1>5. CASE TightenDirectory(o)
  <2>0. /\ level[o] \in Level /\ level[o] + 1 \in 0 .. Depth + 1
        /\ level[o] # Depth => level[o] + 1 \in Level
    BY <1>0, <1>5 DEF TightenDirectory, Cursor
  <2>1. TypeOK'
    <3>1. /\ pc' \in [Opener -> Phase] /\ level' \in [Opener -> 0 .. Depth + 1]
          /\ dirs' \in [Level -> DirectoryEntry] /\ fd' \in [Opener -> File \cup {NoFile}]
      BY <1>0, <1>5, <2>0 DEF TightenDirectory, Descend, TypeOK, Phase
    <3>2. \A u \in Opener : fd'[u] # NoFile <=>
             pc'[u] \in {"tighten_file", "validate_file", "canonicalize", "opened"}
      BY <1>0, <1>5 DEF TightenDirectory, Descend, TypeOK
    <3>3. QED
      BY <1>0, <1>5, <3>1, <3>2 DEF TightenDirectory, TypeOK
  <2>2. Cursor'
    <3>1. CASE dirs[level[o]] \in Directory
      <4>1. /\ dirs' = [dirs EXCEPT ![level[o]] = "private"]
            /\ level' = [level EXCEPT ![o] = level[o] + 1]
            /\ pc' = [pc EXCEPT ![o] = IF level[o] = Depth THEN "validate_dir"
                                                        ELSE "create_dir"]
        BY <1>5, <3>1 DEF TightenDirectory, Descend
      <4>2. \A k \in Level : dirs[k] # "absent" => dirs'[k] # "absent"
        BY <1>0, <4>1 DEF TypeOK
      <4>3. level[o] = Depth => dirs'[Depth] = "private"
        BY <1>0, <2>0, <4>1 DEF TypeOK
      <4>4. Depth \in Level
        OBVIOUS
      <4>5. QED
        BY <1>0, <2>0, <4>1, <4>2, <4>3, <4>4 DEF TypeOK, Cursor
    <3>2. CASE dirs[level[o]] \notin Directory
      BY <1>0, <1>5, <3>2 DEF TightenDirectory, TypeOK, Cursor
    <3>3. QED
      BY <3>1, <3>2
  <2>3. Numbered'
    BY <1>0, <1>5 DEF TypeOK, TightenDirectory, Descend, Numbered
  <2>4. SameFile'
    BY <1>0, <1>5 DEF TypeOK, TightenDirectory, Descend, SameFile
  <2>5. PrivateKept'
    BY <1>0, <1>5 DEF TypeOK, TightenDirectory, Descend, PrivateKept, Validated, Past, Numbered
  <2>6. Unspoiled'
    BY <1>0, <1>5 DEF TypeOK, TightenDirectory, Descend, Unspoiled
  <2>7. NoSpuriousRefusal'
    BY <1>0, <1>5 DEF TypeOK, TightenDirectory, Descend, NoSpuriousRefusal, Unspoiled, SameFile, Cursor
  <2>8. QED
    BY <2>1, <2>2, <2>3, <2>4, <2>5, <2>6, <2>7 DEF IInv
<1>6. CASE ValidateDirectory(o)
  <2>1. TypeOK'
    BY <1>0, <1>6 DEF TypeOK, ValidateDirectory, Phase, Cursor, Numbered
  <2>2. Cursor'
    BY <1>0, <1>6 DEF TypeOK, ValidateDirectory, Cursor
  <2>3. Numbered'
    BY <1>0, <1>6 DEF TypeOK, ValidateDirectory, Numbered
  <2>4. SameFile'
    BY <1>0, <1>6 DEF TypeOK, ValidateDirectory, SameFile
  <2>5. PrivateKept'
    BY <1>0, <1>6 DEF TypeOK, ValidateDirectory, PrivateKept, Validated, Past, Numbered
  <2>6. Unspoiled'
    BY <1>0, <1>6 DEF TypeOK, ValidateDirectory, Unspoiled
  <2>7. NoSpuriousRefusal'
    BY <1>0, <1>6 DEF TypeOK, ValidateDirectory, NoSpuriousRefusal, Unspoiled, SameFile, Cursor
  <2>8. QED
    BY <2>1, <2>2, <2>3, <2>4, <2>5, <2>6, <2>7 DEF IInv
<1>7. QED
  BY <1>1, <1>2, <1>3, <1>4, <1>5, <1>6

LEMMA FileStep ==
  ASSUME IInv, NEW o \in Opener,
         \/ OpenExisting(o) \/ CreateExclusive(o) \/ TightenFile(o)
         \/ ValidateFile(o) \/ Canonicalize(o)
  PROVE  IInv'
<1> USE PathAssumption DEF NoFile, File, Level, Directory, DirectoryEntry, FileKind, At, Goto, Fail, outside
<1>0. TypeOK /\ Cursor /\ Numbered /\ SameFile /\ PrivateKept /\ Unspoiled /\ NoSpuriousRefusal
  BY DEF IInv
<1>1. CASE OpenExisting(o)
  <2>1. TypeOK'
    BY <1>0, <1>1 DEF TypeOK, OpenExisting, Phase, Cursor, Numbered
  <2>2. Cursor'
    BY <1>0, <1>1 DEF TypeOK, OpenExisting, Cursor
  <2>3. Numbered'
    BY <1>0, <1>1 DEF TypeOK, OpenExisting, Numbered
  <2>4. SameFile'
    BY <1>0, <1>1 DEF TypeOK, OpenExisting, SameFile
  <2>5. PrivateKept'
    BY <1>0, <1>1 DEF TypeOK, OpenExisting, PrivateKept, Validated, Past, Numbered
  <2>6. Unspoiled'
    BY <1>0, <1>1 DEF TypeOK, OpenExisting, Unspoiled
  <2>7. NoSpuriousRefusal'
    BY <1>0, <1>1 DEF TypeOK, OpenExisting, NoSpuriousRefusal, Unspoiled, SameFile, Cursor
  <2>8. QED
    BY <2>1, <2>2, <2>3, <2>4, <2>5, <2>6, <2>7 DEF IInv
<1>2. CASE CreateExclusive(o)
  <2>1. TypeOK'
    <3>1. entry = NoFile => files + 1 \in File
      BY <1>0, Numbers DEF TypeOK, Numbered
    <3>2. CASE entry = NoFile
      <4>1. /\ pc' = [pc EXCEPT ![o] = "tighten_file"]
            /\ fd' = [fd EXCEPT ![o] = files + 1]
            /\ files' = files + 1 /\ entry' = files + 1
            /\ kind' = [kind EXCEPT ![files + 1] = "private"]
            /\ UNCHANGED <<level, dirs, removals, spoiled>>
        BY <1>2, <3>2 DEF CreateExclusive, NewFile
      <4>2. files + 1 \in File /\ files + 1 # NoFile
        BY <3>1, <3>2, PathAssumption
      <4>3. \A u \in Opener : fd'[u] # NoFile <=>
               pc'[u] \in {"tighten_file", "validate_file", "canonicalize", "opened"}
        BY <1>0, <4>1, <4>2 DEF TypeOK
      <4>4. /\ pc' \in [Opener -> Phase] /\ fd' \in [Opener -> File \cup {NoFile}]
            /\ kind' \in [File -> FileKind] /\ files' \in 0 .. MaxRemovals + 1
        BY <1>0, <4>1, <4>2 DEF TypeOK, Phase
      <4>5. QED
        BY <1>0, <4>1, <4>2, <4>3, <4>4 DEF TypeOK
    <3>3. CASE entry # NoFile
      BY <1>0, <1>2, <3>3 DEF CreateExclusive, TypeOK, Phase
    <3>4. QED
      BY <3>2, <3>3
  <2>2. Cursor'
    BY <1>0, <1>2 DEF TypeOK, CreateExclusive, NewFile, Cursor
  <2>3. Numbered'
    <3>1. CASE entry = NoFile
      BY <1>0, <1>2, <3>1, Numbers DEF TypeOK, CreateExclusive, NewFile, Numbered
    <3>2. CASE entry # NoFile
      BY <1>0, <1>2, <3>2 DEF CreateExclusive, Numbered
    <3>3. QED
      BY <3>1, <3>2
  <2>4. SameFile'
    BY <1>0, <1>2 DEF TypeOK, CreateExclusive, NewFile, SameFile
  <2>5. PrivateKept'
    BY <1>0, <1>2 DEF TypeOK, CreateExclusive, NewFile, PrivateKept, Validated, Past, Numbered
  <2>6. Unspoiled'
    BY <1>0, <1>2 DEF TypeOK, CreateExclusive, NewFile, Unspoiled
  <2>7. NoSpuriousRefusal'
    BY <1>0, <1>2 DEF TypeOK, CreateExclusive, NewFile, NoSpuriousRefusal, Unspoiled, SameFile, Cursor
  <2>8. QED
    BY <2>1, <2>2, <2>3, <2>4, <2>5, <2>6, <2>7 DEF IInv
<1>3. CASE TightenFile(o)
  <2>1. TypeOK'
    BY <1>0, <1>3 DEF TypeOK, TightenFile, Phase, Cursor, Numbered
  <2>2. Cursor'
    BY <1>0, <1>3 DEF TypeOK, TightenFile, Cursor
  <2>3. Numbered'
    BY <1>0, <1>3 DEF TypeOK, TightenFile, Numbered
  <2>4. SameFile'
    BY <1>0, <1>3 DEF TypeOK, TightenFile, SameFile
  <2>5. PrivateKept'
    BY <1>0, <1>3 DEF TypeOK, TightenFile, PrivateKept, Validated, Past, Numbered
  <2>6. Unspoiled'
    BY <1>0, <1>3 DEF TypeOK, TightenFile, Unspoiled
  <2>7. NoSpuriousRefusal'
    BY <1>0, <1>3 DEF TypeOK, TightenFile, NoSpuriousRefusal, Unspoiled, SameFile, Cursor
  <2>8. QED
    BY <2>1, <2>2, <2>3, <2>4, <2>5, <2>6, <2>7 DEF IInv
<1>4. CASE ValidateFile(o)
  <2>1. TypeOK'
    BY <1>0, <1>4 DEF TypeOK, ValidateFile, Phase, Cursor, Numbered
  <2>2. Cursor'
    BY <1>0, <1>4 DEF TypeOK, ValidateFile, Cursor
  <2>3. Numbered'
    BY <1>0, <1>4 DEF TypeOK, ValidateFile, Numbered
  <2>4. SameFile'
    BY <1>0, <1>4 DEF TypeOK, ValidateFile, SameFile
  <2>5. PrivateKept'
    BY <1>0, <1>4 DEF TypeOK, ValidateFile, PrivateKept, Validated, Past, Numbered
  <2>6. Unspoiled'
    BY <1>0, <1>4 DEF TypeOK, ValidateFile, Unspoiled
  <2>7. NoSpuriousRefusal'
    BY <1>0, <1>4 DEF TypeOK, ValidateFile, NoSpuriousRefusal, Unspoiled, SameFile, Cursor
  <2>8. QED
    BY <2>1, <2>2, <2>3, <2>4, <2>5, <2>6, <2>7 DEF IInv
<1>5. CASE Canonicalize(o)
  <2>1. TypeOK'
    BY <1>0, <1>5 DEF TypeOK, Canonicalize, Phase, Cursor, Numbered
  <2>2. Cursor'
    BY <1>0, <1>5 DEF TypeOK, Canonicalize, Cursor
  <2>3. Numbered'
    BY <1>0, <1>5 DEF TypeOK, Canonicalize, Numbered
  <2>4. SameFile'
    BY <1>0, <1>5 DEF TypeOK, Canonicalize, SameFile
  <2>5. PrivateKept'
    BY <1>0, <1>5 DEF TypeOK, Canonicalize, PrivateKept, Validated, Past, Numbered
  <2>6. Unspoiled'
    BY <1>0, <1>5 DEF TypeOK, Canonicalize, Unspoiled
  <2>7. NoSpuriousRefusal'
    BY <1>0, <1>5 DEF TypeOK, Canonicalize, NoSpuriousRefusal, Unspoiled, SameFile, Cursor
  <2>8. QED
    BY <2>1, <2>2, <2>3, <2>4, <2>5, <2>6, <2>7 DEF IInv
<1>6. QED
  BY <1>1, <1>2, <1>3, <1>4, <1>5

LEMMA OutsiderStep ==
  ASSUME IInv,
         \/ \E k \in Level, e \in DirectoryEntry \ {"absent"} : OutsiderCreatesDirectory(k, e)
         \/ \E k \in FileKind : OutsiderCreatesFile(k)
         \/ OutsiderRemovesFile
  PROVE  IInv'
<1> USE PathAssumption DEF NoFile, File, Level, Directory, DirectoryEntry, FileKind, At, Goto, Fail, outside
<1>0. TypeOK /\ Cursor /\ Numbered /\ SameFile /\ PrivateKept /\ Unspoiled /\ NoSpuriousRefusal
  BY DEF IInv
<1>1. ASSUME NEW k \in Level, NEW e \in DirectoryEntry \ {"absent"},
             OutsiderCreatesDirectory(k, e)
      PROVE  IInv'
  <2>1. TypeOK'
    BY <1>0, <1>1 DEF TypeOK, OutsiderCreatesDirectory, Phase, Cursor, Numbered
  <2>2. Cursor'
    BY <1>0, <1>1 DEF TypeOK, OutsiderCreatesDirectory, Cursor
  <2>3. Numbered'
    BY <1>0, <1>1 DEF TypeOK, OutsiderCreatesDirectory, Numbered
  <2>4. SameFile'
    BY <1>0, <1>1 DEF TypeOK, OutsiderCreatesDirectory, SameFile
  <2>5. PrivateKept'
    BY <1>0, <1>1 DEF TypeOK, OutsiderCreatesDirectory, PrivateKept, Validated, Past, Numbered
  <2>6. Unspoiled'
    BY <1>0, <1>1 DEF TypeOK, OutsiderCreatesDirectory, Unspoiled
  <2>7. NoSpuriousRefusal'
    BY <1>0, <1>1 DEF TypeOK, OutsiderCreatesDirectory, NoSpuriousRefusal, Unspoiled, SameFile, Cursor
  <2>8. QED
    BY <2>1, <2>2, <2>3, <2>4, <2>5, <2>6, <2>7 DEF IInv
<1>2. ASSUME NEW k \in FileKind, OutsiderCreatesFile(k) PROVE IInv'
  <2>1. TypeOK'
    BY <1>0, <1>2 DEF TypeOK, OutsiderCreatesFile, NewFile, Phase, Cursor, Numbered
  <2>2. Cursor'
    BY <1>0, <1>2 DEF TypeOK, OutsiderCreatesFile, NewFile, Cursor
  <2>3. Numbered'
    BY <1>0, <1>2, Numbers DEF TypeOK, OutsiderCreatesFile, NewFile, Numbered
  <2>4. SameFile'
    BY <1>0, <1>2 DEF TypeOK, OutsiderCreatesFile, NewFile, SameFile
  <2>5. PrivateKept'
    BY <1>0, <1>2 DEF TypeOK, OutsiderCreatesFile, NewFile, PrivateKept, Validated, Past, Numbered
  <2>6. Unspoiled'
    BY <1>0, <1>2 DEF TypeOK, OutsiderCreatesFile, NewFile, Unspoiled
  <2>7. NoSpuriousRefusal'
    BY <1>0, <1>2 DEF TypeOK, OutsiderCreatesFile, NewFile, NoSpuriousRefusal, Unspoiled, SameFile, Cursor
  <2>8. QED
    BY <2>1, <2>2, <2>3, <2>4, <2>5, <2>6, <2>7 DEF IInv
<1>3. CASE OutsiderRemovesFile
  <2>1. TypeOK'
    BY <1>0, <1>3 DEF TypeOK, OutsiderRemovesFile, Phase, Cursor, Numbered
  <2>2. Cursor'
    BY <1>0, <1>3 DEF TypeOK, OutsiderRemovesFile, Cursor
  <2>3. Numbered'
    BY <1>0, <1>3 DEF TypeOK, OutsiderRemovesFile, Numbered
  <2>4. SameFile'
    BY <1>0, <1>3 DEF TypeOK, OutsiderRemovesFile, SameFile
  <2>5. PrivateKept'
    BY <1>0, <1>3 DEF TypeOK, OutsiderRemovesFile, PrivateKept, Validated, Past, Numbered
  <2>6. Unspoiled'
    BY <1>0, <1>3 DEF TypeOK, OutsiderRemovesFile, Unspoiled
  <2>7. NoSpuriousRefusal'
    BY <1>0, <1>3 DEF TypeOK, OutsiderRemovesFile, NoSpuriousRefusal, Unspoiled, SameFile, Cursor
  <2>8. QED
    BY <2>1, <2>2, <2>3, <2>4, <2>5, <2>6, <2>7 DEF IInv
<1>4. QED
  BY <1>1, <1>2, <1>3

LEMMA NextIInv == IInv /\ [Next]_vars => IInv'
<1>1. CASE Next
  BY <1>1, DirectoryStep, FileStep, OutsiderStep DEF Next, OpenStep
<1>2. CASE UNCHANGED vars
  BY <1>2
  DEF vars, IInv, TypeOK, Cursor, Numbered, SameFile, PrivateKept, Unspoiled,
      NoSpuriousRefusal, Validated, Past, At
<1>3. QED
  BY <1>1, <1>2

(* The inductive invariant of the openers. *)
THEOREM IInvHolds == Spec => []IInv
  BY InitIInv, NextIInv, PTL DEF Spec

(* Every variable keeps its type. *)
THEOREM TypeCorrect == Spec => []TypeOK
<1>1. IInv => TypeOK
  BY DEF IInv
<1>2. QED
  BY <1>1, IInvHolds, PTL

(* Any number of openers that race for one path end with one file, unless
   it is removed. *)
THEOREM OneFilePerIdentityHolds == Spec => []OneFilePerIdentity
<1>1. IInv => OneFilePerIdentity
  BY DEF IInv, TypeOK, SameFile, OneFilePerIdentity, At, NoFile
<1>2. QED
  BY <1>1, IInvHolds, PTL

(* What a Private opener ends with is private, in a private directory. *)
THEOREM PrivateRendezvousHolds == Spec => []PrivateRendezvous
<1>1. IInv => PrivateRendezvous
  BY DEF IInv, PrivateKept, PrivateRendezvous, Validated, Past, At
<1>2. QED
  BY <1>1, IInvHolds, PTL

(* Openers never fail because of each other. *)
THEOREM NoSpuriousRefusalHolds == Spec => []NoSpuriousRefusal
  BY IInvHolds, PTL DEF IInv
-----------------------------------------------------------------------------
(* How many steps an opener takes. *)

Loop == 4 * (MaxRemovals - removals)

Rank(o) ==
  IF pc[o] = "inspect" THEN level[o] + 2 * Depth + 4 * MaxRemovals + 10
  ELSE IF pc[o] = "create_dir" THEN 2 * (Depth - level[o]) + 4 * MaxRemovals + 11
  ELSE IF pc[o] = "tighten_dir" THEN 2 * (Depth - level[o]) + 4 * MaxRemovals + 10
  ELSE IF pc[o] = "validate_dir" THEN 4 * MaxRemovals + 9
  ELSE IF pc[o] = "open" THEN Loop + (IF entry = NoFile THEN 8 ELSE 4)
  ELSE IF pc[o] = "create_file" THEN Loop + (IF entry = NoFile THEN 6 ELSE 5)
  ELSE IF pc[o] = "tighten_file" THEN 3
  ELSE IF pc[o] = "validate_file" THEN 2
  ELSE IF pc[o] = "canonicalize" THEN 1 ELSE 0

(* Each step of an opener brings it nearer to its answer, and nobody sets it
   back: the loop goes round again only after a removal. *)
OpensAreShort ==
  [][\A o \in Opener : /\ Rank(o)' <= Rank(o)
                       /\ OpenStep(o) => Rank(o)' < Rank(o)]_vars

LEMMA RankStep ==
  ASSUME IInv, NEW o \in Opener, OpenStep(o), NEW u \in Opener
  PROVE  Rank(u)' <= Rank(u) /\ (u = o => Rank(u)' < Rank(u))
<1>1. /\ TypeOK /\ Cursor /\ Depth \in Nat /\ MaxRemovals \in Nat
      /\ removals \in Nat /\ removals <= MaxRemovals
      /\ level[u] \in Nat /\ level[o] \in Nat
      /\ level[o] <= Depth + 1
  BY PathAssumption, Numbers DEF IInv, TypeOK
<1> USE <1>1 DEF TypeOK, Phase, At, Goto, Fail, outside, Rank, Loop
<1>2. CASE InspectFound(o)
  BY <1>2 DEF InspectFound, Descend, Cursor
<1>3. CASE InspectMissing(o) \/ InspectRefused(o)
  BY <1>3 DEF InspectMissing, InspectRefused, Cursor
<1>4. CASE CreateDirectory(o)
  BY <1>4 DEF CreateDirectory
<1>5. CASE TightenDirectory(o)
  <2>1. level[o] \in 1 .. Depth
    BY <1>5 DEF TightenDirectory, Cursor, Level
  <2>2. QED
    BY <1>5, <2>1 DEF TightenDirectory, Descend
<1>6. CASE ValidateDirectory(o) \/ OpenExisting(o)
  BY <1>6 DEF ValidateDirectory, OpenExisting
<1>7. CASE CreateExclusive(o)
  <2>1. files + 1 # NoFile
    BY Numbers DEF NoFile
  <2>2. QED
    BY <1>7, <2>1 DEF CreateExclusive, NewFile
<1>8. CASE TightenFile(o) \/ ValidateFile(o) \/ Canonicalize(o)
  BY <1>8 DEF TightenFile, ValidateFile, Canonicalize
<1>9. QED
  BY <1>2, <1>3, <1>4, <1>5, <1>6, <1>7, <1>8 DEF OpenStep

LEMMA RankOutside ==
  ASSUME IInv, NEW u \in Opener,
         \/ \E k \in Level, e \in DirectoryEntry \ {"absent"} : OutsiderCreatesDirectory(k, e)
         \/ \E k \in FileKind : OutsiderCreatesFile(k)
         \/ OutsiderRemovesFile
  PROVE  Rank(u)' <= Rank(u)
<1>1. /\ TypeOK /\ Depth \in Nat /\ MaxRemovals \in Nat
      /\ removals \in Nat /\ removals <= MaxRemovals
      /\ level[u] \in Nat /\ files + 1 # NoFile
  BY PathAssumption, Numbers DEF IInv, TypeOK, NoFile
<1> USE <1>1 DEF TypeOK, Rank, Loop
<1>2. CASE \E k \in Level, e \in DirectoryEntry \ {"absent"} : OutsiderCreatesDirectory(k, e)
  BY <1>2 DEF OutsiderCreatesDirectory
<1>3. CASE \E k \in FileKind : OutsiderCreatesFile(k)
  BY <1>3 DEF OutsiderCreatesFile, NewFile
<1>4. CASE OutsiderRemovesFile
  BY <1>4 DEF OutsiderRemovesFile
<1>5. QED
  BY <1>2, <1>3, <1>4

Longest == 3 * Depth + 4 * MaxRemovals + 10

RankBounded == \A o \in Opener : Rank(o) \in 0 .. Longest

LEMMA InitRank == Init => RankBounded
<1>1. Depth \in Nat /\ MaxRemovals \in Nat
  BY PathAssumption
<1>2. Longest \in Nat /\ Depth + 2 * Depth + 4 * MaxRemovals + 10 = Longest
  BY <1>1 DEF Longest
<1>3. Longest \in 0 .. Longest
  BY <1>2
<1>4. ASSUME Init, NEW o \in Opener PROVE Rank(o) = Longest
  BY <1>2, <1>4 DEF Init, Rank
<1>5. ASSUME Init, NEW o \in Opener PROVE Rank(o) \in 0 .. Longest
  BY <1>3, <1>4, <1>5
<1>6. QED
  BY <1>5 DEF RankBounded

(* Never less than nothing is left. *)
RankNatural == \A o \in Opener : Rank(o) \in Nat

LEMMA RankIsNat == ASSUME IInv, NEW o \in Opener PROVE Rank(o) \in Nat
<1>1. /\ TypeOK /\ Cursor /\ Depth \in Nat /\ MaxRemovals \in Nat
      /\ removals \in Nat /\ removals <= MaxRemovals
      /\ level[o] \in Nat /\ level[o] <= Depth + 1
  BY PathAssumption DEF IInv, TypeOK
<1>2. pc[o] \in {"create_dir", "tighten_dir"} => level[o] <= Depth
  BY <1>1 DEF Cursor, Level
<1>3. QED
  BY <1>1, <1>2 DEF TypeOK, Phase, Rank, Loop

(* An opener below Depth missing directories has its answer after at most
   3 * Depth + 10 of its own steps and four more for each removal of the file,
   whatever other openers and programs create. *)
THEOREM OpensAreShortHolds == Spec => OpensAreShort /\ []RankBounded
<1> DEFINE Nearer(o) == /\ Rank(o)' <= Rank(o)
                        /\ OpenStep(o) => Rank(o)' < Rank(o)
<1>1. IInv /\ [Next]_vars => [\A o \in Opener : Nearer(o)]_vars
  <2> SUFFICES ASSUME IInv, Next, NEW u \in Opener
               PROVE  Rank(u)' <= Rank(u) /\ (OpenStep(u) => Rank(u)' < Rank(u))
    OBVIOUS
  <2>1. ASSUME NEW o \in Opener, OpenStep(o) PROVE Rank(u)' <= Rank(u)
    BY <2>1, RankStep
  <2>2. QED
    BY <2>1, RankStep, RankOutside DEF Next
<1>2. IInv => RankNatural
  BY RankIsNat DEF RankNatural
<1>3. RankNatural' /\ RankBounded /\ [\A o \in Opener : Nearer(o)]_vars => RankBounded'
  <2>1. Longest \in Nat
    BY PathAssumption DEF Longest
  <2>2. CASE UNCHANGED vars
    BY <2>2 DEF vars, RankBounded, Rank, Loop
  <2>3. CASE \A o \in Opener : Nearer(o)
    BY <2>1, <2>3 DEF RankNatural, RankBounded
  <2>4. QED
    BY <2>2, <2>3
<1> HIDE DEF Nearer
<1>4. QED
  BY <1>1, <1>2, <1>3, InitRank, IInvHolds, PTL DEF Spec, OpensAreShort, Nearer
=============================================================================
