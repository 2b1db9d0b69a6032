------------------------------- MODULE PathOpen -------------------------------
(***************************************************************************)
(* open_lock_file (src/path_security.rs, Unix): several openers, in any    *)
(* processes of one user, make their way to one rendezvous file, creating  *)
(* what is missing of its directories and the file itself.  Each system    *)
(* call is a step.  Other programs create things in the way and remove the *)
(* file.                                                                   *)
(*                                                                         *)
(* A lock is on a file, an identity is a path: that openers who end with   *)
(* one identity hold descriptors of one file is what LockManager takes for *)
(* granted of its identities.                                              *)
(***************************************************************************)
EXTENDS Naturals

CONSTANTS
  Opener,           \* calls of open_lock_file
  Private,          \* those with PathSecurityPolicy::Private; the others are Shared
  Depth,            \* directories above the file that may be missing
  MaxRemovals       \* bound: how often the file is removed

ASSUME PathAssumption ==
  /\ Private \subseteq Opener
  /\ Depth \in Nat \ {0}
  /\ MaxRemovals \in Nat

Level == 1 .. Depth

File == 1 .. MaxRemovals + 1        \* inodes, in the order of their creation

NoFile == 0

(* What a directory entry can be: a directory, with or without group and
   other write (mode & 0o022), or something refused. *)
Directory == {"private", "shared"}

DirectoryEntry == Directory \cup {"absent", "symlink", "not_a_directory"}

(* What the final component can be: a regular file of mode 0600, one with
   group or other bits, a symlink, anything else. *)
FileKind == {"private", "wide", "symlink", "not_a_file"}

Phase ==
  {"inspect", "create_dir", "tighten_dir", "validate_dir", "open", "create_file",
   "tighten_file", "validate_file", "canonicalize", "opened", "failed"}

VARIABLES
  pc,               \* the next system call of each opener
  level,            \* ensure_lock_parent's cursor, then the directory being created
  fd,               \* the file an opener has a descriptor of
  dirs,             \* the directory entries above the file
  entry,            \* the file that the final component names
  kind,             \* what each file is
  files,            \* files created so far
  removals,         \* files removed so far
  spoiled           \* another program made something that may be refused

vars == <<pc, level, fd, dirs, entry, kind, files, removals, spoiled>>
outside == <<removals, spoiled>>

Init ==
  /\ pc = [o \in Opener |-> "inspect"]
  /\ level = [o \in Opener |-> Depth]
  /\ fd = [o \in Opener |-> NoFile]
  /\ dirs = [k \in Level |-> "absent"]
  /\ entry = NoFile
  /\ kind = [f \in File |-> "private"]
  /\ files = 0 /\ removals = 0 /\ spoiled = FALSE

At(o, phase) == pc[o] = phase

Goto(o, phase) == pc' = [pc EXCEPT ![o] = phase]

(* Mutant: an error leaves the descriptor open. *)
FailLeaksDescriptor(o) == Goto(o, "failed") /\ UNCHANGED fd

(* Any error closes what was open. *)
Fail(o) == Goto(o, "failed") /\ fd' = [fd EXCEPT ![o] = NoFile]

-----------------------------------------------------------------------------
(* ensure_lock_parent *)

IsDirectory(k) == k \in Level => dirs[k] \in Directory

(* After directory k there is the next missing one, or the validation. *)
Descend(o, k) ==
  /\ level' = [level EXCEPT ![o] = k + 1]
  /\ Goto(o, IF k = Depth THEN "validate_dir" ELSE "create_dir")

(* symlink_metadata of the cursor, from the parent upwards. *)
InspectFound(o) ==
  /\ At(o, "inspect")
  /\ IsDirectory(level[o])
  /\ Descend(o, level[o])
  /\ UNCHANGED <<fd, dirs, entry, kind, files, outside>>

(* Below a dangling symlink nothing is found; below a file the call fails
   with another error than NotFound. *)
InspectMissing(o) ==
  /\ At(o, "inspect")
  /\ level[o] > 0
  /\ dirs[level[o]] = "absent"
  /\ \A k \in Level : k < level[o] => dirs[k] # "not_a_directory"
  /\ level' = [level EXCEPT ![o] = @ - 1]
  /\ UNCHANGED <<pc, fd, dirs, entry, kind, files, outside>>

InspectRefused(o) ==
  /\ At(o, "inspect")
  /\ ~IsDirectory(level[o])
  /\ \/ dirs[level[o]] # "absent"
     \/ \E k \in Level : k < level[o] /\ dirs[k] = "not_a_directory"
  /\ Fail(o)
  /\ UNCHANGED <<level, dirs, entry, kind, files, outside>>

(* Mutant: a directory that somebody else created meanwhile is an error. *)
CreateDirectoryStrict(o) ==
  /\ At(o, "create_dir")
  /\ IF dirs[level[o]] = "absent"
     THEN dirs' = [dirs EXCEPT ![level[o]] = "private"] /\ Goto(o, "tighten_dir")
                                                         /\ UNCHANGED fd
     ELSE Fail(o) /\ UNCHANGED dirs
  /\ UNCHANGED <<level, entry, kind, files, outside>>

(* create_lock_directory: mkdir with mode 0700; AlreadyExists is as good. *)
CreateDirectory(o) ==
  /\ At(o, "create_dir")
  /\ dirs' = [dirs EXCEPT ![level[o]] = IF @ = "absent" THEN "private" ELSE @]
  /\ Goto(o, "tighten_dir")
  /\ UNCHANGED <<level, fd, entry, kind, files, outside>>

(* ... then open with O_NOFOLLOW and O_DIRECTORY and set mode 0700, also on
   a directory that was not created here. *)
TightenDirectory(o) ==
  /\ At(o, "tighten_dir")
  /\ IF dirs[level[o]] \in Directory
     THEN dirs' = [dirs EXCEPT ![level[o]] = "private"] /\ Descend(o, level[o])
                                                         /\ UNCHANGED fd
     ELSE Fail(o) /\ UNCHANGED <<dirs, level>>
  /\ UNCHANGED <<entry, kind, files, outside>>

(* Mutant: the policy is not asked. *)
ValidateDirectoryShared(o) ==
  /\ At(o, "validate_dir")
  /\ IF dirs[Depth] \in Directory THEN Goto(o, "open") /\ UNCHANGED fd ELSE Fail(o)
  /\ UNCHANGED <<level, dirs, entry, kind, files, outside>>

(* validate_existing_lock_directory, by name and without following a link. *)
ValidateDirectory(o) ==
  /\ At(o, "validate_dir")
  /\ IF dirs[Depth] = "private" \/ (dirs[Depth] = "shared" /\ o \notin Private)
     THEN Goto(o, "open") /\ UNCHANGED fd
     ELSE Fail(o)
  /\ UNCHANGED <<level, dirs, entry, kind, files, outside>>

-----------------------------------------------------------------------------
(* open_final_component: open what exists, else create exclusively, else
   open again what was created in between. *)

OpenExisting(o) ==
  /\ At(o, "open")
  /\ IF entry = NoFile THEN Goto(o, "create_file") /\ UNCHANGED fd
     ELSE IF kind[entry] = "symlink" THEN Fail(o)
     ELSE Goto(o, "validate_file") /\ fd' = [fd EXCEPT ![o] = entry]
  /\ UNCHANGED <<level, dirs, entry, kind, files, outside>>

NewFile(k) ==
  /\ files + 1 \in File                         \* bound, met when MaxRemovals is
  /\ files' = files + 1
  /\ entry' = files + 1
  /\ kind' = [kind EXCEPT ![files + 1] = k]

(* Mutant: the file is created beside and renamed into place. *)
CreateByRename(o) ==
  /\ At(o, "create_file")
  /\ NewFile("private")
  /\ fd' = [fd EXCEPT ![o] = files + 1]
  /\ Goto(o, "tighten_file")
  /\ UNCHANGED <<level, dirs, outside>>

(* Mutant: after AlreadyExists the creation is tried again. *)
CreateAgain(o) ==
  /\ At(o, "create_file")
  /\ entry = NoFile
  /\ NewFile("private")
  /\ fd' = [fd EXCEPT ![o] = files + 1]
  /\ Goto(o, "tighten_file")
  /\ UNCHANGED <<level, dirs, outside>>

CreateExclusive(o) ==
  /\ At(o, "create_file")
  /\ IF entry = NoFile
     THEN /\ NewFile("private")
          /\ fd' = [fd EXCEPT ![o] = files + 1]
          /\ Goto(o, "tighten_file")
     ELSE Goto(o, "open") /\ UNCHANGED <<fd, entry, kind, files>>
  /\ UNCHANGED <<level, dirs, outside>>

(* Mode 0600 through the descriptor. *)
TightenFile(o) ==
  /\ At(o, "tighten_file")
  /\ kind' = [kind EXCEPT ![fd[o]] = "private"]
  /\ Goto(o, "validate_file")
  /\ UNCHANGED <<level, fd, dirs, entry, files, outside>>

(* validate_opened_lock_file, through the descriptor. *)
ValidateFile(o) ==
  /\ At(o, "validate_file")
  /\ IF kind[fd[o]] = "private" \/ (kind[fd[o]] = "wide" /\ o \notin Private)
     THEN Goto(o, "canonicalize") /\ UNCHANGED fd
     ELSE Fail(o)
  /\ UNCHANGED <<level, dirs, entry, kind, files, outside>>

(* The identity is found by name, after the file was opened. *)
Canonicalize(o) ==
  /\ At(o, "canonicalize")
  /\ IF entry # NoFile /\ kind[entry] # "symlink"
     THEN Goto(o, "opened") /\ UNCHANGED fd
     ELSE Fail(o)
  /\ UNCHANGED <<level, dirs, entry, kind, files, outside>>

OpenStep(o) ==
  \/ InspectFound(o) \/ InspectMissing(o) \/ InspectRefused(o)
  \/ CreateDirectory(o) \/ TightenDirectory(o) \/ ValidateDirectory(o)
  \/ OpenExisting(o) \/ CreateExclusive(o) \/ TightenFile(o)
  \/ ValidateFile(o) \/ Canonicalize(o)

-----------------------------------------------------------------------------
(* Other programs. *)

OutsiderCreatesDirectory(k, e) ==
  /\ IsDirectory(k - 1)
  /\ dirs[k] = "absent"
  /\ dirs' = [dirs EXCEPT ![k] = e]
  /\ spoiled' = (spoiled \/ e # "private")
  /\ UNCHANGED <<pc, level, fd, entry, kind, files, removals>>

OutsiderCreatesFile(k) ==
  /\ IsDirectory(Depth)
  /\ entry = NoFile
  /\ NewFile(k)
  /\ spoiled' = (spoiled \/ k # "private")
  /\ UNCHANGED <<pc, level, fd, dirs, removals>>

OutsiderRemovesFile ==
  /\ entry # NoFile
  /\ removals < MaxRemovals                     \* bound
  /\ entry' = NoFile
  /\ removals' = removals + 1
  /\ UNCHANGED <<pc, level, fd, dirs, kind, files, spoiled>>

Next ==
  \/ \E o \in Opener : OpenStep(o)
  \/ \E k \in Level, e \in DirectoryEntry \ {"absent"} : OutsiderCreatesDirectory(k, e)
  \/ \E k \in FileKind : OutsiderCreatesFile(k)
  \/ OutsiderRemovesFile

Spec == Init /\ [][Next]_vars

(* An opener goes on until it has an answer. *)
FairSpec == Spec /\ \A o \in Opener : WF_vars(OpenStep(o))

-----------------------------------------------------------------------------

Past(o) == pc[o] \in {"canonicalize", "opened"}

(* Every variable has its type, and an opener past the open has a file. *)
TypeOK ==
  /\ pc \in [Opener -> Phase]
  /\ level \in [Opener -> 0 .. Depth + 1]
  /\ fd \in [Opener -> File \cup {NoFile}]
  /\ dirs \in [Level -> DirectoryEntry]
  /\ entry \in File \cup {NoFile}
  /\ kind \in [File -> FileKind]
  /\ files \in 0 .. MaxRemovals + 1 /\ removals \in 0 .. MaxRemovals
  /\ spoiled \in BOOLEAN
  /\ \A o \in Opener : fd[o] # NoFile <=>
        pc[o] \in {"tighten_file", "validate_file", "canonicalize", "opened"}

(* However many openers race to create the file, they end with descriptors
   of one file, so that a lock on a descriptor is a lock on the identity;
   unless somebody removes a "stable rendezvous object". *)
OneFilePerIdentity ==
  removals = 0 =>
     \A o, u \in Opener : At(o, "opened") /\ At(u, "opened") => fd[o] = fd[u]

(* A Private opener ends with an owner-only file in a directory that nobody
   else may write, whoever created the two and whenever: what was checked
   before still holds at the end. *)
PrivateRendezvous ==
  \A o \in Private : At(o, "opened") => kind[fd[o]] = "private" /\ dirs[Depth] = "private"

(* Openers do not fail because of each other: when nobody else puts
   something refusable in the way or removes the file, all of them succeed. *)
NoSpuriousRefusal ==
  ~spoiled /\ removals = 0 => \A o \in Opener : pc[o] # "failed"

(* Every opener comes to an end: the loop that alternates between opening
   and creating goes round only as often as the file disappears. *)
EveryOpenEnds == \A o \in Opener : <>(pc[o] \in {"opened", "failed"})

=============================================================================
