--------------------------- MODULE PathResolver ---------------------------
(***************************************************************************)
(* PathResolver of src/src/path_resolver.cpp.  A request target is the     *)
(* sequence of its separators and names; the directory tree below the root *)
(* is a function from relative paths to what std::filesystem::canonical()  *)
(* makes of them: links may lead elsewhere below the root, or outside.     *)
(***************************************************************************)
EXTENDS Integers, Sequences, SequencesExt

CONSTANTS
    Lower,          \* lowerAscii() on names
    Dotted,         \* a list item with a dot in front, if it had none
    Extension,      \* lower-case extension of a name
    Forbidden,      \* control characters, \ : ? #
    Overlong,       \* components of more than 255 characters
    MaxComponents,
    MaxFileBytes,   \* fastdl_max_file_mb
    Tree            \* entries: [kind, under, at, size]

\* The canonical location of an entry below the root is free of links: what it
\* starts with is a directory of its own, found under its own name.
ASSUME TreeIsCanonical ==
    \A p \in DOMAIN Tree :
      /\ Tree[p] \in [kind : {"file", "dir", "error"}, under : BOOLEAN, at : Seq(STRING), size : Nat]
      /\ Tree[p].under => Len(Tree[p].at) > 0
      /\ Tree[p].under /\ Len(Tree[p].at) > 1 =>
           LET top == <<Tree[p].at[1]>> IN
           top \in DOMAIN Tree /\ Tree[top] = [kind |-> "dir", under |-> TRUE, at |-> top, size |-> 0]

-----------------------------------------------------------------------------
(* configure() *)

\* splitList() drops blank items and ignores case.
SplitList(items) == {Lower[i] : i \in items \ {""}}

Configure(dirs, types, rootTypes) ==
    LET dirList == SplitList(dirs)
        typeList == SplitList(types)
        rootList == SplitList(rootTypes) IN
    [dirs |-> dirList, allDirs |-> "*" \in dirList,
     types |-> {Dotted[i] : i \in typeList \ {"*"}}, allTypes |-> "*" \in typeList,
     rootTypes |-> {Dotted[i] : i \in rootList \ {"*"}}, allRootTypes |-> "*" \in rootList]

AllowedDirectory(lists, name) == lists.allDirs \/ name \in lists.dirs
AllowedExtension(lists, e) == lists.allTypes \/ e \in lists.types
AllowedRootExtension(lists, e) == lists.allRootTypes \/ e \in lists.rootTypes

-----------------------------------------------------------------------------
(* resolve() *)

\* validate() skips empty components, so repeated separators do not count.
Components(url) == SelectSeq(url, LAMBDA t : t # "/")

Validate(url) ==
    LET parts == Components(url) IN
    /\ url # <<>> /\ Head(url) = "/"
    /\ ToSet(url) \cap Forbidden = {}
    /\ parts # <<>> /\ Len(parts) <= MaxComponents
    /\ ToSet(parts) \cap ({".", ".."} \cup Overlong) = {}

Missing == [kind |-> "missing", under |-> FALSE, at |-> <<>>, size |-> 0]
Canonical(parts) == IF parts \in DOMAIN Tree THEN Tree[parts] ELSE Missing

\* componentsUnder(): the canonical location, in lower case
PartsUnder(node) == [i \in DOMAIN node.at |-> Lower[node.at[i]]]
ExtensionOf(node) == Extension[Last(node.at)]

\* A root-level target stays at root level; any other has a served directory.
LocatedAsAsked(lists, parts, node) ==
    IF Len(parts) = 1
    THEN AllowedRootExtension(lists, ExtensionOf(node))
    ELSE AllowedDirectory(lists, Lower[Head(parts)])
Located(lists, parts, node) ==
    LET under == PartsUnder(node) IN
    IF Len(parts) = 1
    THEN Len(under) = 1 /\ AllowedRootExtension(lists, ExtensionOf(node))
    ELSE Len(under) >= 2 /\ AllowedDirectory(lists, Head(under))

\* The checks of resolve() in their order, for the entry found at the target
Resolve(lists, url, node) ==
    IF ~Validate(url) THEN "InvalidPath"
    ELSE IF node.kind = "missing" THEN "NotFound"
    ELSE IF node.kind = "error" THEN "IoError"
    ELSE IF ~node.under THEN "OutsideRoot"
    ELSE IF node.kind # "file" THEN "NotAFile"
    ELSE IF ~Located(lists, Components(url), node) THEN "DirectoryDenied"
    ELSE IF ~AllowedExtension(lists, ExtensionOf(node)) THEN "ExtensionDenied"
    ELSE IF node.size > MaxFileBytes THEN "TooLarge"
    ELSE "Ok"

-----------------------------------------------------------------------------
(* scanDirectories(), for the build of the gzip cache *)

ScanDirectories(lists) ==
    {Tree[p].at : p \in {q \in DOMAIN Tree :
       /\ Len(q) = 1
       /\ Tree[q].kind = "dir" /\ Tree[q].under
       /\ Len(Tree[q].at) = 1
       /\ AllowedDirectory(lists, Head(PartsUnder(Tree[q])))}}
=============================================================================
