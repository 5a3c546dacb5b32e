------------------------------ MODULE VendorDesc ------------------------------
(***************************************************************************)
(* The description file of src/vendor.py (its name ends in .vendor.hjson), *)
(* as data: which descriptions are accepted, what the command line may     *)
(* override and which lock file belongs to which description.              *)
(*                                                                         *)
(* A field that is absent is None, one of the wrong type is Bad.  A path   *)
(* is the sequence of its components, "/" first if it is absolute.         *)
(***************************************************************************)
EXTENDS Integers, Sequences, SequencesExt

CONSTANTS
    None, Bad,
    Dotted           \* names that begin with `..` and are longer

-----------------------------------------------------------------------------
\* Names are strings, these among them.
Name == STRING \cup {"..", ".git", "HEAD"}

ASSUME DottedAssumption == Dotted \subseteq STRING \ {"/", ".", "..", ".git"}

IsPath(path) == path \in Seq(Name) /\ \A i \in 2 .. Len(path) : path[i] # "/"

\* os.path.normpath, a component at a time.
Enter(path, name) ==
    CASE name = "."                                 -> path
      [] name # "." /\ name # ".."                  -> Append(path, name)
      [] name = ".." /\ path = <<"/">>              -> path
      [] name = ".." /\ path # <<"/">> ->
            IF path = <<>> \/ Last(path) = ".." THEN Append(path, "..") ELSE Front(path)

NormPath(path) == FoldLeft(Enter, <<>>, path)

Escapes(path) == path # <<>> /\ Head(path) \in {"/", ".."}

-----------------------------------------------------------------------------
\* get_field: a mandatory field is there and has its type, an optional one may
\* be absent.
Has(value) == value \notin {None, Bad}
MayHave(value) == value # Bad

UpstreamOK(u) == Has(u) /\ Has(u.url) /\ Has(u.rev) /\ MayHave(u.only_subdir)
PatchRepoOK(r) == Has(r) /\ Has(r.url) /\ Has(r.rev_base) /\ Has(r.rev_patched)

\* A lock file holds an upstream and nothing else.
LockOK(l) == UpstreamOK(l)

\* The name of the file, as what stands between its dots, matches
\* `.+\.vendor\.hjson`, which is not anchored at the end.
NameOK(parts) ==
    \E i \in 2 .. Len(parts) - 1 :
        /\ parts[i] = "vendor" /\ parts[i + 1] = "hjson"
        /\ i > 2 \/ parts[1] # ""

\* Fault: the path is judged as it is written.
PathAsWritten(path) == Has(path) /\ ~Escapes(path)

\* The check is for a string that begins with `..`, so `..rtl` is refused too.
PathOK(path) ==
    /\ Has(path) /\ ~Escapes(NormPath(path))
    /\ NormPath(path) # <<>> => Head(NormPath(path)) \notin Dotted

ItemOK(i) ==
    /\ Has(i)
    /\ PathOK(i.from) /\ PathOK(i.to)
    /\ i.patch_dir # None => PathOK(i.patch_dir)

MakeItem(i) ==
    [from |-> NormPath(i.from), to |-> NormPath(i.to),
     patch_dir |-> IF i.patch_dir = None THEN None ELSE NormPath(i.patch_dir)]

HasPatchDir(mapping) == \E i \in DOMAIN mapping : mapping[i].patch_dir # None

FieldsOK(d) ==
    /\ Has(d.name) /\ Has(d.target_dir) /\ UpstreamOK(d.upstream)
    /\ MayHave(d.patch_dir)
    /\ d.patch_repo # None => PatchRepoOK(d.patch_repo)
    /\ d.exclude_from_upstream # None => Has(d.exclude_from_upstream)
    /\ d.mapping # None =>
          Has(d.mapping) /\ \A i \in DOMAIN d.mapping : ItemOK(d.mapping[i])

\* The checks across fields: patches need a place; patch_repo and mapping
\* exclude each other; with a mapping, patch_dir is there iff an item uses it.
FieldsAgree(d) ==
    /\ d.patch_repo # None => d.patch_dir # None /\ d.mapping = None
    /\ d.mapping # None => (d.patch_dir # None <=> HasPatchDir(d.mapping))

\* exclude_from_upstream is the set of paths its patterns match.
ExcludesOK(d) == d.exclude_from_upstream # None => Bad \notin d.exclude_from_upstream

Accepted(d) == NameOK(d.file) /\ FieldsOK(d) /\ FieldsAgree(d) /\ ExcludesOK(d)

\* Without a mapping everything goes straight through.
Items(d) ==
    IF d.mapping # None THEN [i \in DOMAIN d.mapping |-> MakeItem(d.mapping[i])]
    ELSE <<[from |-> <<>>, to |-> <<>>,
            patch_dir |-> IF d.patch_dir # None THEN <<>> ELSE None]>>

ExcludeAlways == {<<".git">>}

Excludes(d) ==
    ExcludeAlways \cup
    (IF d.exclude_from_upstream = None THEN {} ELSE d.exclude_from_upstream)

-----------------------------------------------------------------------------
\* -D section.field=value

OverridableKeys ==
    {<<"patch_repo", "url">>, <<"patch_repo", "rev_base">>, <<"patch_repo", "rev_patched">>,
     <<"upstream", "url">>, <<"upstream", "rev">>}

\* An argument, as what stands between its `=` signs: key and value.
ArgumentOK(parts) == Len(parts) = 2 /\ parts[1] \in OverridableKeys

EmptySection ==
    [upstream   |-> [url |-> None, rev |-> None, only_subdir |-> None],
     patch_repo |-> [url |-> None, rev_base |-> None, rev_patched |-> None]]

\* A section that is missing is made; what its other fields lack shows later.
Override(d, argument) ==
    LET section == argument[1][1]
        old == IF d[section] = None THEN EmptySection[section] ELSE d[section]
    IN  [d EXCEPT ![section] =
            IF old = Bad THEN Bad ELSE [old EXCEPT ![argument[1][2]] = argument[2]]]

Overridden(d, arguments) == FoldLeft(Override, d, arguments)

=============================================================================
