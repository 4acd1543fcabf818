----------------------------- MODULE Discovery -----------------------------
(* The files that a command is about.  crates/runtime/src/discovery.rs.    *)
EXTENDS Integers, Sequences, FiniteSets

(* A path is [dir, stem, ext]: dir is the sequence of its directories,     *)
(* stem that of the words of its name.  A disk is [files, links, dirs]:    *)
(* what exists, and which of the files are reached by symbolic links.  A   *)
(* root names a path, a directory or a pattern in a directory; a pattern   *)
(* is a word that occurs in a name.  A request is [roots, recursive,       *)
(* follow, includes, excludes].                                            *)

IsMkv(path) == path.ext = "mkv"

Matches(pattern, words) == \E i \in DOMAIN words : words[i] = pattern

(* Without a pattern to include, every MKV file is included.               *)
PassesFilters(words, request) ==
  /\ request.includes = {} \/ \E pattern \in request.includes : Matches(pattern, words)
  /\ ~ \E pattern \in request.excludes : Matches(pattern, words)

Below(dir, root, recursive) ==
  IF recursive
  THEN Len(root) <= Len(dir) /\ SubSeq(dir, 1, Len(root)) = root
  ELSE dir = root

(* A path as it is seen from a directory above it.                         *)
Relative(path, dir) == SubSeq(path.dir, Len(dir) + 1, Len(path.dir)) \o path.stem

(* WalkDir: links are only met when they are followed.                     *)
Walk(disk, dir, request) ==
  {path \in disk.files : /\ Below(path.dir, dir, request.recursive)
                         /\ path \in disk.links => request.follow
                         /\ IsMkv(path)
                         /\ PassesFilters(Relative(path, dir), request)}

(* A root that is missing, a link that is not to be followed or a file of  *)
(* another kind is an error, not an empty search.                          *)
PathCollects(disk, path, request) ==
  /\ path \in disk.files
  /\ path \in disk.links => request.follow
  /\ IsMkv(path)

(* A pattern may match directories too, and each match is a root.          *)
Globbed(disk, root) ==
  {path \in disk.files : path.dir = root.dir /\ Matches(root.pattern, path.stem)}

GlobbedDirs(disk, root) ==
  {dir \in disk.dirs : /\ dir # <<>>
                       /\ SubSeq(dir, 1, Len(dir) - 1) = root.dir
                       /\ dir[Len(dir)] = root.pattern}

RootCollects(disk, root, request) ==
  CASE root.kind = "path" -> PathCollects(disk, root.path, request)
    [] root.kind = "dir"  -> root.dir \in disk.dirs
    [] root.kind = "glob" ->
         /\ Globbed(disk, root) # {} \/ GlobbedDirs(disk, root) # {}
         /\ \A path \in Globbed(disk, root) : PathCollects(disk, path, request)

Named(paths, request) == {path \in paths : PassesFilters(path.stem, request)}

Collected(disk, root, request) ==
  CASE root.kind = "path" -> Named({root.path}, request)
    [] root.kind = "dir"  -> Walk(disk, root.dir, request)
    [] root.kind = "glob" ->
         Named(Globbed(disk, root), request)
           \cup UNION {Walk(disk, dir, request) : dir \in GlobbedDirs(disk, root)}

Discoverable(disk, request) ==
  /\ request.roots # {}
  /\ \A root \in request.roots : RootCollects(disk, root, request)

(* However many roots lead to a file, it is found once.                    *)
Discovered(disk, request) ==
  UNION {Collected(disk, root, request) : root \in request.roots}
=============================================================================
