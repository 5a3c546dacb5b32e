------------------------------ MODULE VendorTool ------------------------------
(***************************************************************************)
(* A run of src/vendor.py, step by step as far as a step changes files:    *)
(* it refreshes patches, clones the upstream repository, replaces the      *)
(* target directory, rewrites the lock file and commits.  Any program it   *)
(* calls may fail and the run may be stopped between two steps; the next   *)
(* run finds what was left.  Upstream moves on meanwhile, or rewrites its  *)
(* history, and between runs the user edits the description or resets the  *)
(* working tree.                                                           *)
(***************************************************************************)
EXTENDS VendorImport

CONSTANTS
    Description,     \* descriptions the user writes, as raw data
    Argument,        \* command lines: [update, refresh, commit, overrides]
    Url, Branch,     \* upstream repositories and the branch they are asked for
    Fork,            \* the patch repository
    Rev,             \* revisions, each a string
    Files(_),        \* the paths in the repository at a revision
    First, Moves,    \* the first revision; per repository, what may follow one
    Export(_),       \* the patches a patch repository based on a revision exports
    HandMade,        \* patches below the patch directory, committed by hand
    GitIgnored,      \* paths below the target directory that .gitignore names
    MaxFaults,       \* bound: failures and stops in a behaviour
    MaxRuns          \* bound: runs in a behaviour

ASSUME VendorAssumption ==
    /\ First \in Rev /\ Rev \subseteq STRING /\ Url \subseteq STRING
    /\ Branch \in STRING \ Rev
    /\ Moves \in [Url \cup {Fork} -> [Rev -> SUBSET Rev]]
    /\ MaxFaults \in Nat /\ MaxRuns \in Nat

\* What is absent or of a wrong type is none of the data that the code expects.
UpstreamData == [url : Url, rev : STRING, only_subdir : {None} \cup Seq(Name)]

ASSUME NoneAssumption ==
    /\ None # Bad
    /\ \A nothing \in {None, Bad} :
          nothing \notin STRING /\ nothing \notin Seq(Name) /\ nothing \notin UpstreamData

\* The constructor of Desc takes data of these types only, and upstream
\* repositories that cannot be reached are failed clones.
Typed(d) ==
    /\ d.upstream \in UpstreamData
    /\ d.mapping # None =>
          /\ Len(d.mapping) \in Nat /\ DOMAIN d.mapping = 1 .. Len(d.mapping)
          /\ \A i \in DOMAIN d.mapping : IsPath(d.mapping[i].from) /\ IsPath(d.mapping[i].to)

ASSUME InputAssumption ==
    /\ \A a \in Argument :
          /\ DOMAIN a = {"update", "refresh", "commit", "overrides"}
          /\ a.update \in BOOLEAN /\ a.refresh \in BOOLEAN /\ a.commit \in BOOLEAN
    /\ \A d \in Description, a \in Argument :
          LET e == Overridden(d, a.overrides) IN Accepted(e) => Typed(e)

\* The paths in a repository are normal, none leads out of it, no file is a
\* directory too, and .git is git's own.
ASSUME FilesAssumption ==
    \A r \in Rev : \A f \in Files(r) :
        /\ IsPath(f) /\ NormPath(f) = f /\ ~Escapes(f)
        /\ f # <<>> /\ f[1] # ".git"
        /\ \A g \in Files(r) : f \notin Parents(g)

\* git format-patch numbers the patches it puts into the patch directory; what
\* is made by hand for an item is in a directory of its own.  The numbers of the
\* files in one directory differ.
ASSUME PatchAssumption ==
    /\ \A p \in HandMade : p.dir # <<>>
    /\ \A r \in Rev : \A p \in Export(r) : p.dir = <<>>
    /\ \A made \in {HandMade} \cup {Export(r) : r \in Rev} :
          /\ IsFiniteSet(made)
          /\ \A p \in made : p.n \in Nat /\ p.file \in Seq(Name)
          /\ \A p, q \in made : p.dir = q.dir /\ p.n = q.n => p = q

VARIABLES
    remote,          \* per URL: the commits its branch leads to, oldest first
    rebased,         \* the revision the patch repository is based on
    data,            \* the description file
    lock,            \* the lock file: None, Torn or an upstream
    target,          \* the target directory
    patches,         \* the patch directory
    index, head,     \* git: what is staged, what is committed
    message,         \* the message of the last commit
    pc, run,         \* the run: its next step, what it has read so far
    faults, runs     \* bounded: failures so far, runs so far

files == <<lock, target, patches>>
git == <<index, head, message>>
outside == <<remote, rebased, data>>
bounds == <<faults, runs>>
vars == <<outside, files, git, pc, run, bounds>>

Torn == Bad

\* desc.upstream as it goes on is `upstream`, upstream_new_rev is `rev`; `known`
\* are the commits in the clone, oldest first, `item` and `todo` the mapping item
\* at hand and its patches still to come, `kept` the files rmtree could not remove.
NoRun == [args |-> None, desc |-> None, old |-> None, upstream |-> None, rev |-> None,
          known |-> <<>>, item |-> 0, todo |-> <<>>, kept |-> {}]

Stops == pc' = "idle" /\ run' = NoRun
Goes(next) == pc' = next /\ UNCHANGED run

Checkout(r, subdir) ==
    LET dir == IF subdir = None THEN <<>> ELSE subdir
        names == Files(r) \cup {<<".git", "HEAD">>}
    IN  [f \in {SubSeq(n, Len(dir) + 1, Len(n)) : n \in {m \in names : Below(m, dir)}} |->
            [rev |-> r, patched |-> <<>>]]

HasSubdir(r, subdir) == subdir = None \/ subdir \in Dirs(Checkout(r, None))

\* git clone; git checkout --force; git rev-parse HEAD
Resolves(commits, name) == name = Branch \/ name \in Range(commits)
Resolve(commits, name) == IF name = Branch THEN Last(commits) ELSE name

-----------------------------------------------------------------------------
\* Fault: the patches are not looked at.
CleanButPatches ==
    /\ index = head
    /\ head.lock # None => lock = head.lock
    /\ \A f \in DOMAIN head.files :
          f \in DOMAIN target.files /\ target.files[f] = head.files[f]

\* git status --untracked-files=no: is what git knows of as it was committed?
Clean ==
    /\ index = head
    /\ head.lock # None => lock = head.lock
    /\ \A f \in DOMAIN head.files :
          f \in DOMAIN target.files /\ target.files[f] = head.files[f]
    /\ head.patches \subseteq patches

MayStart(a, d) ==
    /\ \A i \in DOMAIN a.overrides : ArgumentOK(a.overrides[i])
    /\ Accepted(d)
    /\ lock # None => LockOK(lock)
    /\ a.commit => Clean
    /\ a.refresh => d.patch_repo # None

\* Up to the first step that changes a file.  A run that is refused changes
\* nothing and is not a step.
Start(a) ==
    LET d == Overridden(data, a.overrides)
        update == a.update \/ lock = None
    IN  /\ pc = "idle"
        /\ runs < MaxRuns /\ runs' = runs + 1
        /\ MayStart(a, d)
        /\ run' = [NoRun EXCEPT !.args = [a EXCEPT !.update = update], !.desc = d, !.old = lock,
                                !.upstream = IF update THEN d.upstream ELSE lock]
        /\ pc' = IF a.refresh THEN "unlink" ELSE "clone"
        /\ UNCHANGED <<outside, files, git, faults>>

-----------------------------------------------------------------------------
\* refresh_patches: the old patches in the patch directory itself go one by
\* one, then the new ones come one by one.

Old == {p \in patches : p.dir = <<>>}

\* Fault: the old patches stay.
KeepPatches ==
    /\ pc = "unlink"
    /\ Goes("fetch")
    /\ UNCHANGED <<outside, files, git, bounds>>

Unlink ==
    /\ pc = "unlink"
    /\ IF Old = {} THEN Goes("fetch") /\ UNCHANGED patches
       ELSE (\E p \in Old : patches' = patches \ {p}) /\ Goes("unlink")
    /\ UNCHANGED <<outside, lock, target, git, bounds>>

FetchPatches ==
    /\ pc = "fetch"
    /\ run' = [run EXCEPT !.todo = InOrder(Export(rebased))]
    /\ pc' = "export"
    /\ UNCHANGED <<outside, files, git, bounds>>

SameFile(p, q) == p.dir = q.dir /\ p.n = q.n

ExportPatch ==
    /\ pc = "export"
    /\ IF run.todo = <<>> THEN Goes("clone") /\ UNCHANGED patches
       ELSE LET new == Head(run.todo)
            IN  /\ patches' = {p \in patches : ~SameFile(p, new)} \cup {new}
                /\ run' = [run EXCEPT !.todo = Tail(@)] /\ UNCHANGED pc
    /\ UNCHANGED <<outside, lock, target, git, bounds>>

-----------------------------------------------------------------------------
\* The clone, the revision check and the subdirectory check.

\* Fault: another revision than the locked one is taken without a word.
CloneUnchecked ==
    LET commits == remote[run.upstream.url]
        rev == Resolve(commits, run.upstream.rev)
    IN  /\ pc = "clone"
        /\ IF Resolves(commits, run.upstream.rev) /\ HasSubdir(rev, run.upstream.only_subdir)
           THEN run' = [run EXCEPT !.rev = rev, !.known = commits] /\ pc' = "remove"
           ELSE Stops
        /\ UNCHANGED <<outside, files, git, bounds>>

Clone ==
    LET commits == remote[run.upstream.url]
        rev == Resolve(commits, run.upstream.rev)
    IN  /\ pc = "clone"
        /\ IF /\ Resolves(commits, run.upstream.rev)
              /\ ~run.args.update => rev = run.old.rev
              /\ HasSubdir(rev, run.upstream.only_subdir)
           THEN run' = [run EXCEPT !.rev = rev, !.known = commits] /\ pc' = "remove"
           ELSE Stops
        /\ UNCHANGED <<outside, files, git, bounds>>

\* shutil.rmtree(ignore_errors=True): a file may stay, with the directories it is in.
RemoveTarget ==
    /\ pc = "remove"
    /\ \/ target' = NoTree /\ UNCHANGED <<run, faults>>
       \/ /\ faults < MaxFaults /\ faults' = faults + 1
          /\ \E f \in DOMAIN target.files :
                /\ target' = [dirs |-> Parents(f), files |-> [g \in {f} |-> target.files[g]]]
                /\ run' = [run EXCEPT !.kept = {f}]
    /\ pc' = "next"
    /\ UNCHANGED <<outside, lock, patches, git, runs>>

\* The loop over the mapping, and over the patches of an item.
NextItem ==
    /\ pc = "next" /\ run.todo = <<>>
    /\ IF run.item < Len(Items(run.desc))
       THEN run' = [run EXCEPT !.item = @ + 1] /\ pc' = "copy"
       ELSE Goes(IF run.args.update THEN "truncate" ELSE "stage")
    /\ UNCHANGED <<outside, files, git, bounds>>

Item == Items(run.desc)[run.item]

CopyOfItem ==
    Copy(target, Checkout(run.rev, run.upstream.only_subdir), Item, Excludes(run.desc))

CopyItem ==
    /\ pc = "copy"
    /\ target' = CopyOfItem.tree
    /\ IF CopyOfItem.ok
       THEN run' = [run EXCEPT !.todo = PatchesFor(patches, Item)] /\ pc' = "next"
       ELSE Stops
    /\ UNCHANGED <<outside, lock, patches, git, bounds>>

ApplyPatch ==
    /\ pc = "next" /\ run.todo # <<>>
    /\ LET result == Patch(target, Item, Head(run.todo))
       IN  /\ target' = result.tree
           /\ IF result.ok THEN run' = [run EXCEPT !.todo = Tail(@)] /\ UNCHANGED pc ELSE Stops
    /\ UNCHANGED <<outside, lock, patches, git, bounds>>

-----------------------------------------------------------------------------
\* open(lock, 'w') empties the lock file, the dump fills it.

Truncate ==
    /\ pc = "truncate"
    /\ lock' = Torn
    /\ Goes("write")
    /\ UNCHANGED <<outside, target, patches, git, bounds>>

\* Fault: the lock holds what the description asked for.
LockAsAsked == run.upstream

LockData == [run.upstream EXCEPT !.rev = run.rev]

WriteLock ==
    /\ pc = "write"
    /\ lock' = LockData
    /\ Goes("stage")
    /\ UNCHANGED <<outside, target, patches, git, bounds>>

-----------------------------------------------------------------------------
\* The log of changes since the lock, if there is one to compare with.

\* git log old..new lists the commits after the old one up to the new one.  It
\* fails where a rewritten history does not have the old one any more, and lists
\* nothing after the branch itself, or on the way back; the message then goes
\* without.
LogListsSome(old) ==
    \E i, j \in DOMAIN run.known : i < j /\ run.known[i] = old /\ run.known[j] = run.rev

\* Fault: the log is taken across repositories.
ChangesAnyUrl ==
    IF run.args.update /\ run.old # None /\ LogListsSome(run.old.rev)
    THEN run.old.rev ELSE None

ChangesSince ==
    IF /\ run.args.update /\ run.old # None
       /\ run.desc.upstream.url = run.old.url
       /\ LogListsSome(run.old.rev)
    THEN run.old.rev ELSE None

Message == [url |-> run.upstream.url, rev |-> run.rev, since |-> ChangesSince]

\* git add leaves alone what .gitignore names, unless git knows it already.
Tracked(f) == f \notin GitIgnored \/ f \in DOMAIN index.files

ToCommit == Restrict(target.files, {f \in DOMAIN target.files : Tracked(f)})
PatchesToCommit == IF run.args.refresh THEN patches ELSE index.patches

\* git add <target> [<patches>] <lock>
Added == [lock |-> lock, files |-> ToCommit, patches |-> PatchesToCommit]

\* git add refuses a directory that is not there and of which it knows nothing.
Stage ==
    /\ pc = "stage"
    /\ IF ~run.args.commit THEN Goes("done") /\ UNCHANGED index
       ELSE IF target = NoTree /\ DOMAIN index.files = {} THEN Stops /\ UNCHANGED index
       ELSE index' = Added /\ Goes("commit")
    /\ UNCHANGED <<outside, files, head, message, bounds>>

\* git commit; a hook may refuse it, or there may be nothing to commit.  Either
\* way the run goes on with a warning.
Commit ==
    /\ pc = "commit"
    /\ \/ /\ head' = index
          /\ message' = IF index = head THEN message ELSE Message
          /\ UNCHANGED faults
       \/ faults < MaxFaults /\ faults' = faults + 1 /\ UNCHANGED <<head, message>>
    /\ Goes("done")
    /\ UNCHANGED <<outside, files, index, runs>>

Finish ==
    /\ pc = "done"
    /\ Stops
    /\ UNCHANGED <<outside, files, git, bounds>>

-----------------------------------------------------------------------------
\* A program that is called fails, or the run is stopped.  A copy that stops
\* has put some of its files there.

PartOfCopy ==
    LET there == DOMAIN target.files
        new == DOMAIN CopyOfItem.tree.files \ there
    IN  {[CopyOfItem.tree EXCEPT !.files = Restrict(@, there \cup part)] :
            part \in {{}} \cup {{f} : f \in new}}

Fail ==
    /\ pc \notin {"idle", "done"}
    /\ faults < MaxFaults /\ faults' = faults + 1
    /\ Stops
    /\ target' \in {target} \cup (IF pc = "copy" THEN PartOfCopy ELSE {})
    /\ UNCHANGED <<outside, lock, patches, git, runs>>

-----------------------------------------------------------------------------
\* The world around a run.  It stands still when the last run has ended.

\* Upstream gets a new commit, on top of its last one or instead of it.
Push(u) ==
    /\ \E r \in Moves[u][Last(remote[u])] :
          remote' \in {[remote EXCEPT ![u] = Append(@, r)],
                       [remote EXCEPT ![u] = Append(Front(@), r)]}
    /\ UNCHANGED <<rebased, data, files, git, pc, run, bounds>>

\* The patch branches are moved to another revision.
Rebase ==
    /\ rebased' \in Moves[Fork][rebased]
    /\ UNCHANGED <<remote, data, files, git, pc, run, bounds>>

\* The user edits (and commits) the description.
Edit ==
    /\ pc = "idle"
    /\ data' \in Description
    /\ UNCHANGED <<remote, rebased, files, git, pc, run, bounds>>

\* The user gives up on what is there: git reset --hard, git clean.
Reset ==
    /\ pc = "idle"
    /\ target' = [files |-> head.files, dirs |-> Dirs(head.files)]
    /\ lock' = head.lock
    /\ patches' = head.patches
    /\ index' = head
    /\ UNCHANGED <<outside, head, message, pc, run, bounds>>

Init ==
    /\ remote = [u \in Url |-> <<First>>]
    /\ rebased = First
    /\ data \in Description
    /\ lock \in {None} \cup [url : Url, rev : {Branch}, only_subdir : {None}]
    /\ target = NoTree /\ patches = HandMade
    /\ head = [lock |-> None, files |-> <<>>, patches |-> HandMade]
    /\ index = head /\ message = None
    /\ pc = "idle" /\ run = NoRun
    /\ faults = 0 /\ runs = 0

Step ==
    \/ Unlink \/ FetchPatches \/ ExportPatch
    \/ Clone \/ RemoveTarget \/ NextItem \/ CopyItem \/ ApplyPatch
    \/ Truncate \/ WriteLock \/ Stage \/ Commit \/ Finish

World ==
    /\ runs < MaxRuns \/ pc # "idle"
    /\ Edit \/ Reset \/ Rebase \/ \E u \in Url : Push(u)

Next == (\E a \in Argument : Start(a)) \/ Step \/ Fail \/ World

Spec == Init /\ [][Next]_vars

-----------------------------------------------------------------------------
\* What a run may be asked for: the descriptions it accepts, the checkouts.
Asked ==
    {e \in {Overridden(d, a.overrides) : d \in Description,
               a \in {b \in Argument : \A i \in DOMAIN b.overrides : ArgumentOK(b.overrides[i])}} :
        Accepted(e)}

Subdirs == {None} \cup {e.upstream.only_subdir : e \in Asked}
Checkouts == {Checkout(r, s) : r \in Rev, s \in Subdirs}

\* The directories an item makes.
MadeBy(src, item, excludes) ==
    Parents(item.to) \cup
    (IF item.from \in DOMAIN src THEN {}
     ELSE {Dest(item, d) : d \in CopiedDirs(src, item, excludes)})

\* The directories any run makes.
Made ==
    UNION {UNION {MadeBy(src, Items(e)[i], Excludes(e)) : i \in DOMAIN Items(e)} :
              e \in Asked, src \in Checkouts}

\* No description copies a file to where it, or another one, makes a directory:
\* shutil.copy would put the file into that directory.
FilesKeepTheirPlace ==
    \A e \in Asked, src \in Checkouts : \A i \in DOMAIN Items(e) :
        Items(e)[i].from \in DOMAIN src => Items(e)[i].to \notin Made

-----------------------------------------------------------------------------
TypeOK ==
    /\ \A u \in Url : remote[u] # <<>> /\ Range(remote[u]) \subseteq Rev
    /\ rebased \in Rev /\ data \in Description
    /\ lock = None \/ lock = Torn \/ LockOK(lock)
    /\ \A f \in DOMAIN target.files :
          target.files[f].rev \in Rev /\ Parents(f) \subseteq target.dirs
    /\ target.dirs \cap DOMAIN target.files = {}
    /\ pc \in {"idle", "unlink", "fetch", "export", "clone", "remove", "next", "copy",
               "truncate", "write", "stage", "commit", "done"}
    /\ pc # "idle" => Accepted(run.desc) /\ UpstreamOK(run.upstream)
    /\ pc = "copy" => run.item \in DOMAIN Items(run.desc)
    /\ faults \in 0 .. MaxFaults /\ runs \in 0 .. MaxRuns

\* Whatever the mapping says, nothing is put outside of the target directory.
NothingOutside ==
    \A path \in target.dirs \cup DOMAIN target.files : NormPath(path) = path /\ ~Escapes(path)

\* What a lock file and the patches promise to be in the target directory.
Promised(l) ==
    Expected(Checkout(l.rev, l.only_subdir), Items(run.desc), Excludes(run.desc), patches)

\* A run that ends normally ("Import finished") leaves the lock file and the
\* target directory in step: what is there is what the locked revision, the
\* mapping and the patches say, whatever failed runs left before it, up to
\* files that could not be removed.
FinishedIsLocked ==
    pc = "done" =>
        /\ LockOK(lock) /\ lock.rev \in Rev
        /\ LET promised == Promised(lock)
           IN  /\ DOMAIN promised \subseteq DOMAIN target.files
               /\ \A f \in DOMAIN promised : target.files[f] = promised[f]
               /\ DOMAIN target.files \ DOMAIN promised \subseteq run.kept

\* What a commit makes of itself: its lock file's revision, the mapping and its
\* own patches.
Own(c) ==
    Expected(Checkout(c.lock.rev, c.lock.only_subdir), Items(run.desc), Excludes(run.desc), c.patches)

\* Its files are those, all but what .gitignore names and what could not be removed.
Reproducible(c) ==
    /\ LockOK(c.lock) /\ c.lock.rev \in Rev
    /\ LET own == Own(c)
       IN  /\ DOMAIN own \ GitIgnored \subseteq DOMAIN c.files
           /\ \A f \in DOMAIN own \cap DOMAIN c.files : c.files[f] = own[f]
           /\ DOMAIN c.files \ DOMAIN own \subseteq run.kept

\* A commit made with --commit can be made again from what is in it: its files
\* are what its own lock file and its own patches say.  So a run that commits
\* does not import without patches git knows of, and the patches a refresh makes
\* go with it.  Patches that git has never seen are git_add_commit's business
\* only in a run that refreshes: CommitHoldsItsPatches.
CommitIsReproducible ==
    [][head' # head /\ (run.args.refresh \/ patches \subseteq head.patches) =>
          Reproducible(head')]_vars

\* "A clean git working directory is required for --commit" (vendor.py:656), so
\* no commit depends on what is not in git: every one can be made again from its
\* own lock file and patches.
CommitHoldsItsPatches == [][head' # head => Reproducible(head')]_vars

Unnamed(ps) == {p \in ps : p.dir = <<>>}

\* The patches that a patch repository exports are committed by a refresh only,
\* and then all of one export: never a part of a refresh that failed, never
\* mixed with older ones, and no other commit adds or drops any.
CommittedPatchesAreWhole ==
    [][head' # head =>
          \/ Unnamed(head'.patches) = Unnamed(head.patches)
          \/ run.args.refresh /\ Unnamed(head'.patches) \in {Export(r) : r \in Rev}]_vars

\* The changes a commit message lists begin where the commit before it was, and
\* the revision it names is the one it locks.
MessageCoversTheChange ==
    [][head' # head =>
          /\ message'.rev = head'.lock.rev /\ message'.url = head'.lock.url
          /\ message'.since # None /\ head.lock # None =>
                message'.since = head.lock.rev /\ head'.lock.url = head.lock.url]_vars

\* Without --update a run never moves to another revision: it leaves the lock
\* file alone and writes files of the locked revision only.
NoSilentUpgrade ==
    [][pc # "idle" /\ ~run.args.update =>
          /\ lock' = lock
          /\ \A f \in DOMAIN target'.files :
                \/ f \in DOMAIN target.files /\ target'.files[f].rev = target.files[f].rev
                \/ target'.files[f].rev = lock.rev]_vars
=============================================================================
