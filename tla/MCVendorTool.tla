---------------------------- MODULE MCVendorTool ----------------------------
(***************************************************************************)
(* Two upstream repositories, one of which moves on, two revisions, eight  *)
(* descriptions of which four are refused.                                 *)
(***************************************************************************)
EXTENDS VendorTool

MCMoves ==
    LET grows == [r1 |-> {"r2"}, r2 |-> {}]
        rests == [r1 |-> {}, r2 |-> {}]
    IN  [one |-> grows, two |-> rests, fork |-> grows]

MCFiles(r) == {<<"rtl", "a">>, <<"doc">>} \cup IF r = "r2" THEN {<<"rtl", "b">>} ELSE {}

PatchFile(n, dir, file, fits) == [n |-> n, dir |-> dir, file |-> file, fits |-> fits]

\* Rebased on r2, the second patch is not needed any more.
MCExport(r) ==
    {PatchFile(1, <<>>, <<"rtl", "a">>, {r})} \cup
    IF r = "r1" THEN {PatchFile(2, <<>>, <<"doc">>, Rev)} ELSE {}

MCHandMade == {PatchFile(1, <<"p">>, <<"a">>, Rev), PatchFile(2, <<"p">>, <<"a">>, {"r1"})}

MCGitIgnored == {<<"rtl", "b">>}

Plain == [file |-> <<"ip", "vendor", "hjson">>, name |-> "ip", target_dir |-> "vendor",
          upstream |-> [url |-> "one", rev |-> Branch, only_subdir |-> None],
          patch_dir |-> None, patch_repo |-> None,
          exclude_from_upstream |-> {<<"doc">>}, mapping |-> None]

Patched == [Plain EXCEPT !.patch_dir = "patches", !.exclude_from_upstream = None,
                         !.patch_repo = [url |-> Fork, rev_base |-> Branch, rev_patched |-> "p"]]

Other == [Plain EXCEPT !.upstream = [url |-> "two", rev |-> Branch, only_subdir |-> <<"rtl">>]]

Mapped == [Plain EXCEPT
    !.patch_dir = "patches",
    !.mapping = <<[from |-> <<".", "rtl">>, to |-> <<"hw">>, patch_dir |-> <<"x", "..", "p">>],
                  [from |-> <<"doc">>, to |-> <<"doc", "doc">>, patch_dir |-> None]>>]

\* Refused: a path that leaves the target directory, one that only looks so,
\* patches of a fork with a mapping, a file without a name.
Escaping == [Plain EXCEPT
    !.mapping = <<[from |-> <<"rtl">>, to |-> <<"hw", "..", "..", "etc">>, patch_dir |-> None]>>]
Dots == [Plain EXCEPT !.mapping = <<[from |-> <<"rtl">>, to |-> <<"..hw">>, patch_dir |-> None]>>]
Both == [Mapped EXCEPT !.patch_repo = Patched.patch_repo]
Nameless == [Plain EXCEPT !.file = <<"", "vendor", "hjson">>]

MCDescription == {Plain, Patched, Other, Mapped, Escaping, Dots, Both, Nameless}

Arg(update, refresh, commit, overrides) ==
    [update |-> update, refresh |-> refresh, commit |-> commit, overrides |-> overrides]

MCArgument ==
    {Arg(FALSE, FALSE, FALSE, <<>>), Arg(FALSE, TRUE, TRUE, <<>>),
     Arg(TRUE, FALSE, TRUE, <<>>), Arg(TRUE, TRUE, TRUE, <<>>),
     Arg(TRUE, FALSE, FALSE, << <<<<"upstream", "rev">>, "r1">> >>),
     Arg(TRUE, FALSE, FALSE, << <<<<"upstream", "only_subdir">>, "doc">> >>)}

\* What the theorems about the lock file suppose of the descriptions is so here.
ASSUME MCFilesKeepTheirPlace == FilesKeepTheirPlace
=============================================================================
