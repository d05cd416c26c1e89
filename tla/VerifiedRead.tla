---------------------------- MODULE VerifiedRead ----------------------------
(***************************************************************************)
(* open_verified_read of deny.rs on Unix: check_dest, the open, and        *)
(* verify_post_open, with the hardlink scan that both make, one directory  *)
(* per step, while other processes rename, link and unlink.                *)
(*                                                                         *)
(* Simplifications:                                                        *)
(* - a path is denied or not by its glob, once and for all; Asked is not;  *)
(* - no symlinks, directories or special files at the modelled paths, and  *)
(*   no PathGuard: the raw and the resolved path are the same;             *)
(* - extra_link_dirs are read in any order;                                *)
(* - MaxChanges bounds what the other processes do during the call.        *)
(***************************************************************************)
EXTENDS Integers, FiniteSets

CONSTANTS
  Path,        \* directory entries
  Dir,
  DirOf,       \* the directory of each path
  Denied,      \* paths that a deny glob matches
  Asked,       \* the path the caller wants to read
  LinkDirs,    \* extra_link_dirs
  Inode,
  MaxChanges   \* bound: steps of other processes

NoInode == "none"

ASSUME ReadAssumption ==
  /\ IsFiniteSet(Path)
  /\ DirOf \in [Path -> Dir]
  /\ Denied \subseteq Path
  /\ Asked \in Path \ Denied
  /\ LinkDirs \subseteq Dir
  /\ NoInode \notin Inode
  /\ MaxChanges \in Nat

VARIABLES
  at,        \* at[p]: the inode p names, or none
  pc,        \* stat, own, extra, open, lstat, fstat, returned, refused
  round,     \* which scan: raw and resolved in check_dest, then verify
  want,      \* inode being looked for
  nlink,     \* its link count when the scan began
  parents,   \* directories of the scan that were visited
  found,     \* names of it counted so far
  unread,    \* history: directories of the scan that could not be read
  fd,        \* the file that was opened
  seen,      \* inode of the lstat in verify_post_open
  why,       \* why the call was refused
  changes,   \* steps of the other processes so far
  touched    \* since then fd was given a name, or lost the asked one

readVars == <<at, pc, round, want, nlink, parents, found, unread, fd, seen, why, changes, touched>>
scanVars == <<want, nlink, parents, found, unread>>
openVars == <<fd, seen>>
worldVars == <<at, changes, touched>>

Names(i) == {p \in Path : at[p] = i}
Links(i) == Cardinality(Names(i))

Rounds == {"raw", "resolved", "verify"}
Reasons == {"none", "unreadable", "sibling", "unseen", "io", "toctou"}

TypeOK ==
  /\ at \in [Path -> Inode \union {NoInode}]
  /\ pc \in {"stat", "own", "extra", "open", "lstat", "fstat", "returned", "refused"}
  /\ round \in Rounds
  /\ want \in Inode \union {NoInode}
  /\ nlink \in Nat
  /\ parents \subseteq Dir
  /\ found \in Nat /\ unread \subseteq Dir
  /\ fd \in Inode \union {NoInode} /\ seen \in Inode \union {NoInode}
  /\ why \in Reasons
  /\ changes \in 0 .. MaxChanges
  /\ touched \in BOOLEAN

ReadInit ==
  /\ at \in [Path -> Inode \union {NoInode}]
  /\ pc = "stat" /\ round = "raw"
  /\ want = NoInode /\ nlink = 0 /\ parents = {} /\ found = 0 /\ unread = {}
  /\ fd = NoInode /\ seen = NoInode
  /\ why = "none"
  /\ changes = 0 /\ touched = FALSE

-----------------------------------------------------------------------------
(* Other processes: rename, link, unlink and create. *)

\* What a verification can stand: fd loses names other than the asked one.
LosesOnly(new) == new[Asked] = fd /\ {p \in Path : new[p] = fd} \subseteq Names(fd)

Change(new) ==
  /\ pc \notin {"returned", "refused"}
  /\ changes < MaxChanges /\ changes' = changes + 1
  /\ at' = new
  /\ touched' = (touched \/ (round = "verify" /\ ~ LosesOnly(new)))
  /\ UNCHANGED <<pc, round, scanVars, openVars, why>>

Rename(p, q) == p # q /\ at[p] # NoInode /\ Change([at EXCEPT ![q] = at[p], ![p] = NoInode])
LinkTo(p, q) == at[p] # NoInode /\ at[q] = NoInode /\ Change([at EXCEPT ![q] = at[p]])
Unlink(p)    == at[p] # NoInode /\ Change([at EXCEPT ![p] = NoInode])
Create(p, i) == at[p] = NoInode /\ Names(i) = {} /\ i # fd /\ Change([at EXCEPT ![p] = i])

OtherStep ==
  \/ \E p, q \in Path : Rename(p, q) \/ LinkTo(p, q)
  \/ \E p \in Path : Unlink(p) \/ \E i \in Inode : Create(p, i)

-----------------------------------------------------------------------------
(* hardlink_sibling_hit_unix. *)

Refuse(reason) == pc' = "refused" /\ why' = reason /\ UNCHANGED round

\* The scan allows the path: check_dest makes two, raw and resolved.
Allow ==
  /\ pc' = IF round = "raw" THEN "stat" ELSE IF round = "resolved" THEN "open" ELSE "returned"
  /\ round' = IF round = "raw" THEN "resolved" ELSE round
  /\ UNCHANGED why

\* stat: a missing file and a file with one name are allowed.
Stat ==
  /\ pc = "stat"
  /\ want' = at[Asked]
  /\ nlink' = Links(at[Asked])
  /\ parents' = {} /\ found' = 0 /\ unread' = {}
  /\ \/ at[Asked] = NoInode /\ Allow
     \/ at[Asked] # NoInode /\ Links(at[Asked]) <= 1 /\ Allow
     \/ at[Asked] # NoInode /\ Links(at[Asked]) > 1 /\ pc' = "own" /\ UNCHANGED <<round, why>>
     \/ Refuse("unreadable")
  /\ UNCHANGED <<worldVars, openVars>>

\* extra_link_dirs without the directories that were visited.
NewDir(d) == pc = "extra" /\ d \notin parents

Here(d) == {p \in Names(want) : DirOf[p] = d}

\* fold_link_parent: one directory is read and its entries are compared.
Count(d) ==
  /\ parents' = parents \union {d}
  /\ found' = found + Cardinality(Here(d))
  /\ UNCHANGED <<worldVars, openVars, want, nlink, unread>>

\* The parent of the path itself: unreadable denies.
ScanOwn ==
  /\ pc = "own"
  /\ \/ /\ Count(DirOf[Asked])
        /\ IF Here(DirOf[Asked]) \cap Denied # {} THEN Refuse("sibling")
           ELSE pc' = "extra" /\ UNCHANGED <<round, why>>
     \/ Refuse("unreadable") /\ UNCHANGED <<worldVars, openVars, scanVars>>

\* One more directory, as long as names are missing: unreadable is skipped.
ScanExtra(d) ==
  /\ NewDir(d) /\ found < nlink
  /\ \/ /\ Count(d)
        /\ IF Here(d) \cap Denied # {} THEN Refuse("sibling")
           ELSE UNCHANGED <<pc, round, why>>
     \/ /\ parents' = parents \union {d} /\ unread' = unread \union {d}
        /\ UNCHANGED <<worldVars, openVars, want, nlink, found, pc, round, why>>

\* Every name was seen, or the directories are used up.
Judge ==
  /\ pc = "extra" /\ (found >= nlink \/ LinkDirs \subseteq parents)
  /\ IF found < nlink THEN Refuse("unseen") ELSE Allow
  /\ UNCHANGED <<worldVars, openVars, scanVars>>

-----------------------------------------------------------------------------
(* The open, and verify_post_open_unix. *)

Open ==
  /\ pc = "open"
  /\ fd' = at[Asked]
  /\ IF at[Asked] = NoInode THEN Refuse("io")
     ELSE pc' = "lstat" /\ UNCHANGED <<round, why>>
  /\ UNCHANGED <<worldVars, scanVars, seen>>

Lstat ==
  /\ pc = "lstat"
  /\ seen' = at[Asked]
  /\ IF at[Asked] = NoInode THEN Refuse("toctou")
     ELSE pc' = "fstat" /\ round' = "verify" /\ UNCHANGED why
  /\ UNCHANGED <<worldVars, scanVars, fd>>

\* Mutant: the link count is not looked at again.
FstatOnly ==
  /\ pc = "fstat"
  /\ IF seen # fd THEN Refuse("toctou") ELSE Allow
  /\ UNCHANGED <<worldVars, scanVars, openVars>>

Fstat ==
  /\ pc = "fstat"
  /\ IF seen # fd THEN Refuse("toctou")
     ELSE IF Links(fd) > 1 THEN pc' = "stat" /\ UNCHANGED <<round, why>>
     ELSE Allow
  /\ UNCHANGED <<worldVars, scanVars, openVars>>

ReadStep ==
  \/ Stat \/ ScanOwn \/ \E d \in LinkDirs : ScanExtra(d)
  \/ Judge \/ Open \/ Lstat \/ Fstat

ReadNext == ReadStep \/ OtherStep

ReadSpec == ReadInit /\ [][ReadNext]_readVars

-----------------------------------------------------------------------------
(* Correctness. *)

\* A file that is handed out has no denied name at that moment, whatever was
\* renamed or linked between check and open.  What happens to other files, and
\* names this one loses, change nothing during the verification either.
\* (verify_post_open)
ReadIsClean == (pc = "returned" /\ ~ touched) => Names(fd) \cap Denied = {}

=============================================================================
