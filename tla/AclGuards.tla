----------------------------- MODULE AclGuards -----------------------------
(***************************************************************************)
(* The access lists a Windows jail edits and the guards that put them back *)
(* (wrap/windows.rs).  A jail adds entries to the DACL of directories and  *)
(* kernel objects that others use too; each edit reads the list, keeps it  *)
(* in an AclRestore and writes the longer list.  The plan of a run is the  *)
(* sequence of edits, each with the call that makes it: the call decides   *)
(* what a failed edit does.                                                *)
(***************************************************************************)
EXTENDS Sequences, Integers

CONSTANTS
  Object,     \* directories, files and kernel objects whose DACL is edited
  RwRoots,    \* sequence: the ReadWrite grants of the policy
  ReadRoots,  \* sequence: the Read grants, without those that are ReadWrite
  DestDenied, \* sequence: the dest-deny paths of the policy that exist
  Secrets,    \* sequence: the secret directories of the profile
  Names,      \* sequence: \BaseNamedObjects and that of the session
  Spaces,     \* sequence: the Restricted directories of the object namespace
  Helper,     \* the helper program a network-blocked run starts
  Program,    \* the program of the command
  Device,     \* \Device\NamedPipe
  SystemPath  \* objects under SystemRoot or Program Files

ASSUME AclAssumption ==
  /\ RwRoots \in Seq(Object) /\ ReadRoots \in Seq(Object) /\ DestDenied \in Seq(Object)
  /\ Secrets \in Seq(Object) /\ Names \in Seq(Object) /\ Spaces \in Seq(Object)
  /\ Helper \in Object /\ Program \in Object /\ Device \in Object

\* The Restricted directories are kernel objects, the denied paths are files.
ASSUME SpacesApart ==
  \A i \in 1..Len(Spaces) :
    /\ \A j \in 1..Len(DestDenied) : Spaces[i] # DestDenied[j]
    /\ \A j \in 1..Len(Secrets) : Spaces[i] # Secrets[j]

Sid == {"restricted", "world", "package"}
Ace == [sid : Sid \cup {"any"}, mode : {"grant", "deny", "null"}]
Everybody == [sid |-> "any", mode |-> "null"]

Mode == {"workspace", "blocked", "reexec"}

\* The calls that edit a DACL.
Call == {"write", "deny", "secrets", "session", "root", "read", "packageDeny",
         "packageSecrets", "helper", "secret", "program", "pipe", "space"}

Step == [obj : Object, ace : Ace, call : Call]
Guard == [obj : Object, saved : SUBSET Ace, call : Call]

Each(objs, sid, mode, call) ==
  [i \in 1..Len(objs) |->
     [obj |-> objs[i], ace |-> [sid |-> sid, mode |-> mode], call |-> call]]

WriteGrants == Each(RwRoots, "restricted", "grant", "write")
DestDenies(sid, call) == Each(DestDenied, sid, "deny", call)
SecretDenies(sid, call) == Each(Secrets, sid, "deny", call)
SessionGrants == Each(Names, "restricted", "grant", "session")

\* The edits of prepare_write_restricted, which every run makes.
FirstPlan ==
  WriteGrants \o DestDenies("world", "deny")
    \o SecretDenies("restricted", "secrets") \o SessionGrants

PackageRoots == Each(RwRoots, "package", "grant", "root")
PackageReads == Each(ReadRoots, "package", "grant", "read")
HelperGrant == Each(<<Helper>>, "package", "grant", "helper")
ProgramGrant == Each(<<Program>>, "package", "grant", "program")

\* The edits for the package of the AppContainer, made after those.
SecondPlan(mode) ==
  IF mode = "blocked"
    THEN PackageRoots \o PackageReads \o DestDenies("package", "packageDeny")
           \o SecretDenies("package", "packageSecrets") \o HelperGrant
    ELSE PackageRoots \o PackageReads \o SecretDenies("package", "secret")
           \o ProgramGrant

\* The edits an MSYS program needs: the pipe device, then a null DACL on the
\* Restricted directories.
PipeGrant == Each(<<Device>>, "restricted", "grant", "pipe")
NullSpaces == Each(Spaces, "any", "null", "space")
MsysPlan == PipeGrant \o NullSpaces

-----------------------------------------------------------------------------
\* The list after an edit: an entry more, or no list at all.
Edited(list, ace) == IF ace = Everybody THEN {ace} ELSE list \cup {ace}

\* What a failed edit does: the run goes on without it, the call takes back
\* what it did and fails, or it only fails.
Skips(step) ==
  \/ step.call \in {"session", "pipe", "space"}
  \/ step.call \in {"read", "program"} /\ step.obj \in SystemPath
Undoes(step) ==
  step.call \in {"write", "deny", "secrets", "packageDeny", "packageSecrets"}

\* The guard of an edit holds the list from before it.
GuardOf(step, dacl) ==
  [obj |-> step.obj, saved |-> dacl[step.obj], call |-> step.call]

\* AclRestore::restore writes the saved list back.
Restored(dacl, guard) == [dacl EXCEPT ![guard.obj] = guard.saved]

WithoutLast(guards) == SubSeq(guards, 1, Len(guards) - 1)
WithoutAt(guards, k) == SubSeq(guards, 1, k - 1) \o SubSeq(guards, k + 1, Len(guards))

\* Dropping a Vec drops its first element first.  A call that failed drops
\* its own guards before its caller drops the others.
DropFirst(guards, call) ==
  LET own == {k \in 1..Len(guards) : guards[k].call = call}
      from == IF own = {} THEN 1..Len(guards) ELSE own
  IN {k \in from : \A j \in from : k <= j}
=============================================================================
