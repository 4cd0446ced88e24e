------------------------------ MODULE VfsPaths ------------------------------
(***************************************************************************)
(* From a guest path to a host path (ps4_vfs_resolve in ps4_vfs.c): below  *)
(* the mount's or the application's directory, "." and ".." are folded     *)
(* away and the names are looked up without regard to case.  The game      *)
(* creates, removes and renames what it resolves.  A path is a sequence of *)
(* names below that directory.                                             *)
(***************************************************************************)
EXTENDS Naturals, Sequences, FiniteSets, FiniteSetsExt, SequencesExt

CONSTANTS HostNames,  \* names of files and directories
          Folded(_),  \* a name in lower case
          PathDepth   \* bound: depth of the tree

ASSUME PathsAssumption == PathDepth \in Nat /\ \A n \in HostNames : Folded(n) \in HostNames

VARIABLES host_tree,  \* path -> "dir" or "file"; the root is always there
          made        \* what the game made and did not remove, names folded

path_vars == <<host_tree, made>>

HostPaths == UNION {[1..n -> HostNames] : n \in 1..PathDepth}
GuestPaths == UNION {[1..n -> HostNames \cup {".."}] : n \in 1..PathDepth + 1}
FoldedPath(p) == [i \in DOMAIN p |-> Folded(p[i])]

\* The game's directory holds one file, in some spelling.
PathsInit ==
  /\ \E p \in HostPaths :
       host_tree = [q \in {SubSeq(p, 1, n) : n \in 0..Len(p)} |-> IF q = p THEN "file" ELSE "dir"]
  /\ made = {}

Exists(p) == p \in DOMAIN host_tree
Children(p) == {q \in DOMAIN host_tree : Len(q) = Len(p) + 1 /\ SubSeq(q, 1, Len(p)) = p}

\* Mutant: ".." at the top leaves the directory.
normalize_leaves(path) ==
  FoldLeft(LAMBDA segs, n : CASE n = "." -> segs [] n = ".." /\ segs # <<>> -> Front(segs) [] OTHER -> Append(segs, n), <<>>, path)
normalize_chroot_subpath(path) ==
  FoldLeft(LAMBDA segs, n : CASE n = "." -> segs
                              [] n = ".." -> IF segs = <<>> THEN segs ELSE Front(segs)
                              [] OTHER -> Append(segs, n), <<>>, path)

\* Mutant: a name is kept as it is written when it is not there.
next_part_exact(p, name) == {Append(p, name)}
\* One name below p: as it is spelled, else in any spelling the directory
\* holds, else as it is spelled.
next_part(p, name) ==
  LET spellings == {q \in Children(p) : Folded(q[Len(q)]) = Folded(name)}
  IN  IF Exists(Append(p, name)) \/ spellings = {} THEN {Append(p, name)} ELSE spellings

\* The longest part of the path that exists as spelled, then name by name:
\* readdir's order picks among several spellings.
case_insensitive_lookup(path) ==
  LET there == Max({n \in 0..Len(path) : Exists(SubSeq(path, 1, n))})
  IN  FoldLeft(LAMBDA found, name : UNION {next_part(p, name) : p \in found},
               {SubSeq(path, 1, there)}, SubSeq(path, there + 1, Len(path)))

ps4_vfs_resolve_path(path) == case_insensitive_lookup(normalize_chroot_subpath(path))

IsDirPath(p) == Exists(p) /\ host_tree[p] = "dir"
TreeWith(p, kind) == [q \in DOMAIN host_tree \cup {p} |-> IF q = p THEN kind ELSE host_tree[q]]
TreeWithout(p) == [q \in DOMAIN host_tree \ {p} |-> host_tree[q]]

MakeAt(p, kind) ==
  /\ p # <<>> /\ Len(p) <= PathDepth /\ ~Exists(p) /\ IsDirPath(Front(p))
  /\ host_tree' = TreeWith(p, kind) /\ made' = made \cup {FoldedPath(p)}
\* open with O_CREAT makes the file at the resolved path.
shim_open(path) == \E p \in ps4_vfs_resolve_path(path) : MakeAt(p, "file")
shim_mkdir(path) == \E p \in ps4_vfs_resolve_path(path) : MakeAt(p, "dir")

DeleteAt(p, kind) ==
  /\ p # <<>> /\ Exists(p) /\ host_tree[p] = kind /\ Children(p) = {}
  /\ host_tree' = TreeWithout(p) /\ made' = made \ {FoldedPath(p)}
shim_unlink(path) == \E p \in ps4_vfs_resolve_path(path) : DeleteAt(p, "file")
shim_rmdir(path) == \E p \in ps4_vfs_resolve_path(path) : DeleteAt(p, "dir")

\* Both paths are resolved before the host renames; a file that is there is
\* replaced.
shim_rename(old, new) ==
  \E p \in ps4_vfs_resolve_path(old), q \in ps4_vfs_resolve_path(new) :
    /\ p # <<>> /\ q # <<>> /\ Len(q) <= PathDepth /\ p # q
    /\ Exists(p) /\ host_tree[p] = "file" /\ IsDirPath(Front(q)) /\ (Exists(q) => host_tree[q] = "file")
    /\ host_tree' = [x \in (DOMAIN host_tree \ {p}) \cup {q} |-> IF x = q THEN "file" ELSE host_tree[x]]
    /\ made' = (made \ {FoldedPath(p)}) \cup {FoldedPath(q)}

PathsNext ==
  \/ \E path \in GuestPaths :
       shim_open(path) \/ shim_mkdir(path) \/ shim_unlink(path) \/ shim_rmdir(path)
  \/ \E old, new \in HostPaths : shim_rename(old, new)

-----------------------------------------------------------------------------
\* Whatever the game does through these paths, no directory comes to hold two
\* spellings of one name, everything made is found under any spelling, at one
\* place, and no path leads out of its directory.
OneSpelling ==
  /\ \A p, q \in DOMAIN host_tree : FoldedPath(p) = FoldedPath(q) => p = q
  /\ \A path \in GuestPaths :
       LET found == ps4_vfs_resolve_path(path)
       IN  /\ Cardinality(found) = 1
           /\ \A p \in found : ".." \notin Range(p) /\ (FoldedPath(normalize_chroot_subpath(path)) \in made => Exists(p))
=============================================================================
