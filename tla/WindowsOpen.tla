------------------------------ MODULE WindowsOpen ------------------------------
(***************************************************************************)
(* The Windows branches of open_lock_file (src/path_security.rs): several  *)
(* openers of one user create and tighten the directory and the rendezvous *)
(* file by path, each call a step, where what is created starts with an    *)
(* inherited DACL.  Another program may set a DACL.  What the branches for *)
(* both systems share (links, the walk up the parents, removals) is in     *)
(* PathOpen.                                                               *)
(***************************************************************************)
EXTENDS Sddl

CONSTANTS
  Opener,           \* calls of open_lock_file
  Private,          \* those with PathSecurityPolicy::Private
  Users,            \* the SIDs that the openers may run as
  Lists,            \* the lists that may be inherited or set
  MaxResets,        \* bound: how often another program sets a DACL
  Absent            \* no such directory or file

ASSUME WindowsAssumption ==
  /\ Private \subseteq Opener /\ MaxResets \in Nat
  /\ \A sid \in Users : UserSid(sid)
  /\ \A aces \in Lists : \A k \in DOMAIN aces : aces[k].rights \in Rights

Phase ==
  {"inspect", "create_dir", "apply_dir", "require_dir", "validate_dir", "open",
   "create_file", "tighten_file", "validate_file", "require_file", "opened", "failed"}

VARIABLES
  user,             \* the SID that all openers run as
  pc,               \* the next call of each opener
  inherited,        \* the DACL that new directories and files get
  dir,              \* the DACL of the lock directory, or Absent
  file,             \* the DACL of the lock file, or Absent
  resets            \* DACLs set by another program

vars == <<user, pc, inherited, dir, file, resets>>

Dacl == [protected: BOOLEAN, aces: Lists]

ASSUME AbsentAssumption == Absent \notin Dacl \cup {Canonical(sid) : sid \in Users}

Unprotected(aces) == [protected |-> FALSE, aces |-> aces]

(* The directory and the file may be there already, with inherited DACLs. *)
Init ==
  /\ user \in Users
  /\ pc = [o \in Opener |-> "inspect"]
  /\ inherited \in {Unprotected(aces) : aces \in Lists}
  /\ dir \in {Absent, inherited}
  /\ file \in IF dir = Absent THEN {Absent} ELSE {Absent, inherited}
  /\ resets = 0

Goto(o, phase) == pc' = [pc EXCEPT ![o] = phase]

Answer(o, ok, next) == Goto(o, IF ok THEN next ELSE "failed")

(* Mutant: what is read is compared with the list as it was written. *)
ProtectedAsWritten(acl) ==
  acl.protected /\ HasSameDaclAces(acl.aces, UserPrivate(user).aces)

(* require_protected_user_private_dacl: the control bit and the entries, both
   read as Windows renders them. *)
ProtectedUserPrivate(acl) ==
  acl.protected /\ HasSameDaclAces(acl.aces, Canonical(user).aces)

(* ensure_lock_parent finds the directory or creates it. *)
Inspect(o) ==
  /\ pc[o] = "inspect"
  /\ Goto(o, IF dir = Absent THEN "create_dir" ELSE "validate_dir")
  /\ UNCHANGED <<user, inherited, dir, file, resets>>

CreateDirectory(o) ==
  /\ pc[o] = "create_dir"
  /\ dir' = IF dir = Absent THEN inherited ELSE dir
  /\ Goto(o, "apply_dir")
  /\ UNCHANGED <<user, inherited, file, resets>>

(* apply_user_private_dacl, also where somebody else created it. *)
ApplyDirectory(o) ==
  /\ pc[o] = "apply_dir"
  /\ dir' = Canonical(user)
  /\ Goto(o, "require_dir")
  /\ UNCHANGED <<user, inherited, file, resets>>

RequireDirectory(o) ==
  /\ pc[o] = "require_dir"
  /\ Answer(o, ProtectedUserPrivate(dir), "validate_dir")
  /\ UNCHANGED <<user, inherited, dir, file, resets>>

(* validate_existing_lock_directory *)
ValidateDirectory(o) ==
  /\ pc[o] = "validate_dir"
  /\ Answer(o, o \in Private => SddlIsUserPrivate(dir.aces, user), "open")
  /\ UNCHANGED <<user, inherited, dir, file, resets>>

(* Mutant: a missing file is not told apart. *)
OpenAssumed(o) ==
  /\ pc[o] = "open"
  /\ Goto(o, "validate_file")
  /\ UNCHANGED <<user, inherited, dir, file, resets>>

(* open_final_component *)
OpenExisting(o) ==
  /\ pc[o] = "open"
  /\ Goto(o, IF file = Absent THEN "create_file" ELSE "validate_file")
  /\ UNCHANGED <<user, inherited, dir, file, resets>>

CreateExclusive(o) ==
  /\ pc[o] = "create_file"
  /\ IF file = Absent
     THEN file' = inherited /\ Goto(o, "tighten_file")
     ELSE UNCHANGED file /\ Goto(o, "open")
  /\ UNCHANGED <<user, inherited, dir, resets>>

(* tighten_created_lock_file *)
TightenFile(o) ==
  /\ pc[o] = "tighten_file"
  /\ file' = Canonical(user)
  /\ Goto(o, "validate_file")
  /\ UNCHANGED <<user, inherited, dir, resets>>

(* Mutant: a file that is private enough is left as it is. *)
ValidateFileLax(o) ==
  /\ pc[o] = "validate_file"
  /\ IF o \in Private /\ ~SddlIsUserPrivate(file.aces, user)
     THEN file' = Canonical(user) /\ Goto(o, "require_file")
     ELSE UNCHANGED file /\ Goto(o, "opened")
  /\ UNCHANGED <<user, inherited, dir, resets>>

(* validate_opened_lock_file: "Private tightens then re-validates". *)
ValidateFile(o) ==
  /\ pc[o] = "validate_file"
  /\ IF o \in Private
     THEN file' = Canonical(user) /\ Goto(o, "require_file")
     ELSE UNCHANGED file /\ Goto(o, "opened")
  /\ UNCHANGED <<user, inherited, dir, resets>>

RequireFile(o) ==
  /\ pc[o] = "require_file"
  /\ Answer(o, ProtectedUserPrivate(file), "opened")
  /\ UNCHANGED <<user, inherited, dir, file, resets>>

(* Another program gives the directory or the file the inherited DACL. *)
Reset ==
  /\ resets < MaxResets                         \* bound
  /\ resets' = resets + 1
  /\ \/ dir # Absent /\ dir' = inherited /\ UNCHANGED file
     \/ file # Absent /\ file' = inherited /\ UNCHANGED dir
  /\ UNCHANGED <<user, pc, inherited>>

OpenStep(o) ==
  \/ Inspect(o) \/ CreateDirectory(o) \/ ApplyDirectory(o) \/ RequireDirectory(o)
  \/ ValidateDirectory(o) \/ OpenExisting(o) \/ CreateExclusive(o)
  \/ TightenFile(o) \/ ValidateFile(o) \/ RequireFile(o)

Next == (\E o \in Opener : OpenStep(o)) \/ Reset

Spec == Init /\ [][Next]_vars

-----------------------------------------------------------------------------

PastDirectory(o) ==
  pc[o] \in {"open", "create_file", "tighten_file", "validate_file", "require_file",
             "opened"}

(* Every variable has its type, and an opener past a creation finds what it
   or another one created. *)
TypeOK ==
  /\ user \in Users
  /\ pc \in [Opener -> Phase]
  /\ inherited \in Dacl
  /\ dir \in Dacl \cup {Absent, Canonical(user)} /\ file \in Dacl \cup {Absent, Canonical(user)}
  /\ resets \in 0 .. MaxResets
  /\ \A o \in Opener :
        /\ pc[o] \notin {"inspect", "create_dir", "failed"} => dir # Absent
        /\ pc[o] \in {"tighten_file", "validate_file", "require_file", "opened"} =>
              file # Absent

(* A Private opener goes on only in a directory whose list gives a trusted
   controller full control and lets no broad group modify, but for what the
   tokens LC and RP give, which sddl_rights_can_modify takes for reading;
   and this stays so while other openers tighten the directory. *)
DirectoryMeansPrivate ==
  resets = 0 => \A o \in Private : PastDirectory(o) =>
    /\ Controls(dir.aces, Controllers(user))
    /\ \A k \in DOMAIN dir.aces :
          LetsBroadModify(dir.aces[k]) =>
             dir.aces[k].type = "A" /\ Overlooked(dir.aces[k].rights)

(* A Private opener ends with a protected file that gives the user full
   control and nobody else anything, under whatever name Windows writes the
   user's SID; and another opener's late tightening leaves it so. *)
FileStaysProtected ==
  resets = 0 => \A o \in Private : pc[o] = "opened" => MeansExclusive(file, user)

(* No opener is refused what zed-lock itself has set.  If the directory that
   it starts from would pass, then every opener passes, whichever of them
   creates and tightens the directory and the file, and when. *)
NoSpuriousRefusal ==
  resets = 0 /\ SddlIsUserPrivate(inherited.aces, user) =>
     \A o \in Opener : pc[o] # "failed"

=============================================================================
