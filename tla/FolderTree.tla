----------------------------- MODULE FolderTree -----------------------------
(***************************************************************************)
(* The file system a search runs over, as search_files and                 *)
(* filesystem_identity see it (src/search.cpp): paths, what a folder       *)
(* lists, and which folders and files a search is meant to reach.          *)
(***************************************************************************)
EXTENDS Naturals, Sequences

CONSTANTS Dir, File,       \* paths of folders and of files
          Contents,        \* Contents[d]: the entries a listing of d yields
          Identity,        \* Identity[p]: what filesystem_identity returns
          Reparse,         \* entries with FILE_ATTRIBUTE_REPARSE_POINT
          A1,              \* files that has_a1_extension accepts
          Denied,          \* folders the user may not list
          Flaky,           \* paths that may be gone when they are looked at
          Failing,         \* folders that may fail to open or to list to the end
          Roots,           \* the roots of the search, in plan order
          Recursive        \* SearchOptions::recursive

Path == Dir \cup File

\* The children of d that a search goes into.
Subfolders(d) ==
    IF Recursive THEN (Contents[d] \cap Dir) \ Reparse ELSE {}

\* The children of d that are candidates.
Matches(d) == Contents[d] \cap File \cap A1

RootSet == {Roots[i] : i \in DOMAIN Roots}

\* D has the roots, and the sub-folders of its members outside skip.
ClosedUnder(D, skip) ==
    /\ RootSet \subseteq D
    /\ \A d \in D \ skip : Subfolders(d) \subseteq D

\* The folders reached from the roots without looking inside those of skip.
Reachable(skip) ==
    {d \in Dir : \A D \in SUBSET Dir : ClosedUnder(D, skip) => d \in D}

\* The files a search that may miss the paths of skip is to find.
Targets(skip) ==
    {f \in File \ skip : \E d \in Reachable(skip) \ skip : f \in Matches(d)}

ASSUME TreeAssumption ==
    /\ Dir \cap File = {}
    /\ Contents \in [Dir -> SUBSET Path]
    /\ DOMAIN Identity = Path
    /\ Roots \in Seq(Dir)
    /\ Recursive \in BOOLEAN

\* A folder has the same contents, and fails in the same way, under every path
\* that leads to it.
ASSUME AliasAssumption ==
    \A d, e \in Dir :
        Identity[d] = Identity[e] =>
            /\ d \in Denied <=> e \in Denied
            /\ d \in Flaky <=> e \in Flaky
            /\ \A c \in Subfolders(d) : \E b \in Subfolders(e) : Identity[b] = Identity[c]
            /\ \A f \in Matches(d) \ Flaky :
                  \E g \in Matches(e) \ Flaky : Identity[g] = Identity[f]

=============================================================================
