----------------------------- MODULE VendorImport -----------------------------
(***************************************************************************)
(* How src/vendor.py fills the target directory: the items of a mapping    *)
(* are copied one after the other out of a checkout, each with its patches.*)
(*                                                                         *)
(* A checkout is a function from paths to the texts of its files; a text   *)
(* is a revision and the patches it went through.  A tree is what stands   *)
(* in the target directory: its directories and its files.                 *)
(***************************************************************************)
EXTENDS VendorDesc, FiniteSets

NoTree == [dirs |-> {}, files |-> <<>>]

Exists(tree, path) == path \in tree.dirs \/ path \in DOMAIN tree.files

Parents(path) == {SubSeq(path, 1, i) : i \in 0 .. Len(path) - 1}

Dirs(src) == UNION {Parents(f) : f \in DOMAIN src}

\* One function laid over another.
Over(new, old) ==
    [q \in DOMAIN new \cup DOMAIN old |-> IF q \in DOMAIN new THEN new[q] ELSE old[q]]

Within(path, dir) == IsPrefix(dir, path)
Below(path, dir) == IsStrictPrefix(dir, path)

\* Where an item puts what it finds at `path`.
Dest(item, path) == item.to \o SubSeq(path, Len(item.from) + 1, Len(path))

\* ignore_patterns: matched relative to the checkout, name by name on the way
\* down, so the item's own directory is never asked for.
Ignores(item, path, excludes) ==
    \E i \in Len(item.from) + 1 .. Len(path) : SubSeq(path, 1, i) \in excludes

\* to_path.parent.mkdir(parents=True): the target directory's own parent is there.
CanMakeParents(tree, path) == Parents(path) \cap DOMAIN tree.files = {}

\* Fault: the directories are taken to be there.
NoParents(tree, path) == tree

MakeParents(tree, path) == [tree EXCEPT !.dirs = @ \cup Parents(path)]

-----------------------------------------------------------------------------
\* shutil.copy: into a directory if there is one of that name.
FileDest(tree, item) ==
    IF item.to \in tree.dirs THEN Append(item.to, Last(item.from)) ELSE item.to

CopyFile(tree, src, item) ==
    LET dest == FileDest(tree, item)
    IN  [ok   |-> dest \notin tree.dirs,
         tree |-> IF dest \in tree.dirs THEN tree
                  ELSE [tree EXCEPT !.files = Over([q \in {dest} |-> src[item.from]], @)]]

Copied(src, item, excludes) ==
    {f \in DOMAIN src : Below(f, item.from) /\ ~Ignores(item, f, excludes)}

CopiedDirs(src, item, excludes) ==
    {d \in Dirs(src) : Within(d, item.from) /\ ~Ignores(item, d, excludes)}

\* shutil.copytree: the source must be there and the destination must not.
CopyTree(tree, src, item, excludes) ==
    LET ok == item.from \in Dirs(src) /\ ~Exists(tree, item.to)
        files == Copied(src, item, excludes)
    IN  [ok   |-> ok,
         tree |-> IF ~ok THEN tree
                  ELSE [dirs  |-> tree.dirs \cup {Dest(item, d) : d \in CopiedDirs(src, item, excludes)},
                        files |-> Over([q \in {Dest(item, f) : f \in files} |->
                                           src[item.from \o SubSeq(q, Len(item.to) + 1, Len(q))]],
                                       tree.files)]]

Copy(tree, src, item, excludes) ==
    IF ~CanMakeParents(tree, item.to) THEN [ok |-> FALSE, tree |-> tree]
    ELSE LET made == MakeParents(tree, item.to)
         IN  IF item.from \in DOMAIN src THEN CopyFile(made, src, item)
             ELSE CopyTree(made, src, item, excludes)

-----------------------------------------------------------------------------
\* A patch is a file in a directory of patches: its number orders it, it
\* changes one file and fits its text at some revisions.

\* sorted(), by number.
InOrder(patches) ==
    CHOOSE s \in [1 .. Cardinality(patches) -> patches] :
        \A i, j \in DOMAIN s : i < j => s[i].n < s[j].n

PatchesFor(patches, item) == InOrder({p \in patches : p.dir = item.patch_dir})

Fits(text, p) == text.rev \in p.fits

Patch(tree, item, p) ==
    LET path == item.to \o p.file
        ok == path \in DOMAIN tree.files /\ Fits(tree.files[path], p)
    IN  [ok   |-> ok,
         tree |-> IF ~ok THEN tree
                  ELSE [tree EXCEPT !.files[path].patched = Append(@, p.n)]]

-----------------------------------------------------------------------------
(***************************************************************************)
(* What an import is for, said without its steps: a path carries the text  *)
(* of the last item that writes there, with that item's patches to it.     *)
(***************************************************************************)
Source(src, item, q, excludes) ==
    LET f == item.from \o SubSeq(q, Len(item.to) + 1, Len(q))
    IN  IF item.from \in DOMAIN src
        THEN IF q = item.to THEN {item.from} ELSE {}
        ELSE IF Within(q, item.to) /\ f \in Copied(src, item, excludes) THEN {f} ELSE {}

PatchNumbers(patches, item, q) ==
    LET s == InOrder({p \in patches : p.dir = item.patch_dir /\ q = item.to \o p.file})
    IN  [i \in DOMAIN s |-> s[i].n]

Expected(src, items, excludes, patches) ==
    LET Sources(q) == {k \in DOMAIN items : Source(src, items[k], q, excludes) # {}}
        candidates == UNION {{Dest(items[k], f) : f \in {g \in DOMAIN src : Within(g, items[k].from)}} :
                                k \in DOMAIN items}
        Text(q) ==
            LET k == CHOOSE i \in Sources(q) : \A j \in Sources(q) : j <= i
                f == CHOOSE g \in Source(src, items[k], q, excludes) : TRUE
            IN  [rev |-> src[f].rev, patched |-> PatchNumbers(patches, items[k], q)]
    IN  [q \in {c \in candidates : Sources(c) # {}} |-> Text(q)]
=============================================================================
