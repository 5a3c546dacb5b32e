----------------------------- MODULE VendorProofs -----------------------------
(***************************************************************************)
(* Proofs about vendor.py for every repository, description and command    *)
(* line, any number of runs and any number of failures.                    *)
(***************************************************************************)
EXTENDS VendorTool, TLAPS, FiniteSetTheorems, SequenceTheorems, WellFoundedInduction

-----------------------------------------------------------------------------
(* What a run knows.  It agrees with the lock file it found until it       *)
(* writes a new one, and with that one afterwards.                         *)

LockFile == {None, Torn} \cup UpstreamData

Commits == [lock : LockFile, files : {index.files, head.files}, patches : {index.patches, head.patches}]

Records ==
    /\ run = [args |-> run.args, desc |-> run.desc, old |-> run.old, upstream |-> run.upstream,
              rev |-> run.rev, known |-> run.known, item |-> run.item, todo |-> run.todo,
              kept |-> run.kept]
    /\ lock \in LockFile /\ index \in Commits /\ head \in Commits

Commands == [update : BOOLEAN, refresh : BOOLEAN, commit : BOOLEAN, overrides : {run.args.overrides}]

Cloned == {"remove", "next", "copy", "truncate", "write", "stage", "commit", "done"}
Locked == {"stage", "commit", "done"}
Point == {"idle", "unlink", "fetch", "export", "clone"} \cup Cloned

\* The run has read the command line, the description and the lock file.
Started ==
    pc # "idle" =>
        /\ run.args \in Commands /\ Accepted(run.desc) /\ Typed(run.desc)
        /\ run.upstream \in UpstreamData
        /\ IF run.args.update THEN run.upstream = run.desc.upstream
           ELSE run.upstream = run.old /\ run.old = lock
        /\ pc \notin Locked \cup {"write"} => lock = run.old

\* It has a clone, at the locked revision unless it is an update.
HasClone ==
    pc \in Cloned =>
        /\ run.rev \in Rev
        /\ ~run.args.update => run.rev = run.upstream.rev

\* It has locked what it imported.
HasLocked ==
    /\ pc \in {"truncate", "write"} => run.args.update
    /\ pc \in Locked => lock = LockData
    /\ pc = "commit" => run.args.commit /\ index.lock = lock

\* A run that commits began with what was committed.
BeganClean ==
    pc \notin {"idle", "done"} /\ run.args.commit /\ head.lock # None => run.old = head.lock

WorldOK ==
    /\ remote \in [Url -> Seq(Rev) \ {<<>>}]
    /\ rebased \in Rev /\ data \in Description

RunInv ==
    /\ pc \in Point /\ Records /\ WorldOK
    /\ Started /\ HasClone /\ HasLocked /\ BeganClean
-----------------------------------------------------------------------------
\* Data of the type expected are there.
LEMMA UpstreamThere == ASSUME NEW u \in UpstreamData PROVE UpstreamOK(u)
BY NoneAssumption, VendorAssumption DEF UpstreamData, UpstreamOK, Has, MayHave

\* The lock file as it is written names a revision, in a repository.
LEMMA LockDataTyped ==
    ASSUME run.upstream \in UpstreamData, run.rev \in Rev
    PROVE  /\ LockData \in UpstreamData
           /\ LockData.rev = run.rev /\ LockData.url = run.upstream.url
           /\ run.rev = run.upstream.rev => LockData = run.upstream
BY VendorAssumption DEF LockData, UpstreamData

\* A lock file is what a run starts with.
LEMMA StartRun == ASSUME RunInv, NEW a \in Argument, Start(a) PROVE RunInv'
<1> DEFINE d == Overridden(data, a.overrides)
           update == a.update \/ lock = None
<1>1. /\ pc = "idle" /\ MayStart(a, d)
      /\ run' = [NoRun EXCEPT !.args = [a EXCEPT !.update = update], !.desc = d, !.old = lock,
                              !.upstream = IF update THEN d.upstream ELSE lock]
      /\ pc' = IF a.refresh THEN "unlink" ELSE "clone"
      /\ UNCHANGED <<outside, files, git>>
  BY DEF Start
<1> HIDE DEF d
<1>2. /\ run'.args = [a EXCEPT !.update = update] /\ run'.desc = d /\ run'.old = lock
      /\ run'.upstream = IF update THEN d.upstream ELSE lock
      /\ Records'
  BY <1>1 DEF NoRun, Records, RunInv, Commits, files, git
<1>3. Accepted(d) /\ Typed(d) /\ lock \in LockFile
  BY <1>1, InputAssumption DEF d, MayStart, RunInv, WorldOK, Records
<1>4. run'.args \in Commands'
  BY <1>2, InputAssumption DEF Commands
<1>5. ~update => lock \in UpstreamData
  BY <1>1, <1>3 DEF MayStart, LockFile, LockOK, UpstreamOK, Has, Torn
<1>6. run'.args.update = update /\ run'.args.commit = a.commit
  BY <1>2, InputAssumption
<1>7. /\ pc' \in Point /\ pc' \notin Cloned /\ pc' \notin Locked \cup {"write"}
      /\ pc' \notin {"truncate", "write", "commit"}
  BY <1>1 DEF Point, Cloned, Locked
<1>8. lock' = lock /\ head' = head
  BY <1>1 DEF files, git
<1>9. Started'
  BY <1>2, <1>3, <1>4, <1>5, <1>6, <1>8 DEF Started, Typed
<1>10. HasClone' /\ HasLocked'
  BY <1>7 DEF HasClone, HasLocked, Locked, Cloned
<1>11. BeganClean'
  BY <1>1, <1>2, <1>6, <1>8 DEF BeganClean, MayStart, Clean
<1>12. WorldOK'
  BY <1>1 DEF WorldOK, RunInv, outside
<1> QED BY <1>2, <1>7, <1>9, <1>10, <1>11, <1>12 DEF RunInv

\* A run that ends, as it should or otherwise.
LEMMA StopRun == ASSUME RunInv, Stops, UNCHANGED <<outside, lock, index, head>> PROVE RunInv'
<1>1. pc' = "idle" /\ run' = NoRun
  BY DEF Stops
<1>2. WorldOK' /\ Records'
  BY <1>1 DEF RunInv, WorldOK, Records, outside, NoRun, Commits
<1> QED BY <1>1, <1>2
        DEF RunInv, Point, Started, HasClone, HasLocked, BeganClean, Cloned, Locked

\* A step that leaves the lock file and what is committed alone, and takes the
\* run on with no more than its place in the mapping, its patches and what rmtree left.
LEMMA GoOn ==
    ASSUME RunInv, pc # "idle", UNCHANGED <<outside, lock, index, head>>,
           NEW i, NEW t, NEW k, run' = [run EXCEPT !.item = i, !.todo = t, !.kept = k],
           pc' \in Point \ {"idle", "commit"},
           pc' \in Cloned => pc \in Cloned,
           pc' \in Locked => pc \in Locked \/ ~run.args.update,
           pc \in Locked => pc' \in Locked, pc = "write" => FALSE,
           pc' \in {"truncate", "write"} => run.args.update,
           pc = "done" => pc' = "done"
    PROVE  RunInv'
<1>1. /\ Records' /\ run'.args = run.args /\ run'.desc = run.desc /\ run'.old = run.old
      /\ run'.upstream = run.upstream /\ run'.rev = run.rev
  BY DEF Records, RunInv, Commits
<1>2. WorldOK'
  BY DEF WorldOK, RunInv, outside
<1>3. Started'
  BY <1>1 DEF RunInv, Started, Typed, Commands
<1>4. HasClone'
  BY <1>1 DEF RunInv, HasClone
<1>5. pc' \in Locked => lock' = LockData'
  <2> SUFFICES ASSUME pc' \in Locked PROVE lock = LockData'
    OBVIOUS
  <2>1. LockData' = LockData
    BY <1>1 DEF LockData
  <2>2. CASE pc \in Locked
    BY <2>1, <2>2 DEF RunInv, HasLocked
  <2>3. CASE ~run.args.update
    <3>1. /\ run.upstream = lock /\ run.upstream \in UpstreamData
          /\ run.rev \in Rev /\ run.rev = run.upstream.rev
      BY <2>3 DEF RunInv, Started, HasClone, Cloned, Locked
    <3> QED BY <2>1, <3>1, LockDataTyped
  <2> QED BY <2>2, <2>3
<1>6. HasLocked'
  BY <1>1, <1>5 DEF HasLocked, Point
<1>7. BeganClean'
  BY <1>1 DEF RunInv, BeganClean, Point
<1> QED BY <1>1, <1>2, <1>3, <1>4, <1>6, <1>7 DEF RunInv

\* Steps that leave the run alone but for its place.
LEMMA PlaceStep ==
    ASSUME RunInv,
           Unlink \/ FetchPatches \/ ExportPatch \/ RemoveTarget \/ NextItem \/ CopyItem \/ ApplyPatch
    PROVE  RunInv'
<1> DEFINE Changed(i, t, k) == [run EXCEPT !.item = i, !.todo = t, !.kept = k]
<1>1. run = Changed(run.item, run.todo, run.kept)
  BY DEF RunInv, Records
<1>2. \A t : [run EXCEPT !.todo = t] = Changed(run.item, t, run.kept)
  BY DEF RunInv, Records
<1>3. \A i : [run EXCEPT !.item = i] = Changed(i, run.todo, run.kept)
  BY DEF RunInv, Records
<1>4. \A k : [run EXCEPT !.kept = k] = Changed(run.item, run.todo, k)
  BY DEF RunInv, Records
<1>9. ASSUME NEW i, NEW t, NEW k, run' = Changed(i, t, k), pc \notin Locked \cup {"idle", "write"},
             pc' \in Point \ {"idle", "commit", "write"}, UNCHANGED <<outside, lock, index, head>>,
             pc' \in Cloned => pc \in Cloned, pc' \in Locked => ~run.args.update,
             pc' = "truncate" => run.args.update
      PROVE  RunInv'
  BY <1>9, GoOn DEF Locked
<1> HIDE DEF Changed
<1>5. CASE Unlink \/ FetchPatches \/ ExportPatch
  <2>1. /\ pc \in {"unlink", "fetch", "export"} /\ pc' \in {"unlink", "fetch", "export", "clone"}
        /\ UNCHANGED <<outside, lock, index, head>>
    BY <1>5 DEF Unlink, FetchPatches, ExportPatch, Goes, git, files
  <2>2. run' = run \/ \E t : run' = [run EXCEPT !.todo = t]
    BY <1>5 DEF Unlink, FetchPatches, ExportPatch, Goes
  <2>3. \E i, t, k : run' = Changed(i, t, k)
    BY <1>1, <1>2, <2>2
  <2> QED BY <2>1, <2>3, <1>9 DEF Point, Cloned, Locked
<1>6. CASE RemoveTarget
  <2>1. /\ pc = "remove" /\ pc' = "next" /\ UNCHANGED <<outside, lock, index, head>>
    BY <1>6 DEF RemoveTarget, git
  <2>2. run' = run \/ \E k : run' = [run EXCEPT !.kept = k]
    BY <1>6 DEF RemoveTarget
  <2>3. \E i, t, k : run' = Changed(i, t, k)
    BY <1>1, <1>4, <2>2
  <2> QED BY <2>1, <2>3, <1>9 DEF Point, Cloned, Locked
<1>7. CASE NextItem
  <2>1. /\ pc = "next" /\ UNCHANGED <<outside, lock, index, head>>
        /\ \/ pc' = "copy"
           \/ pc' = "truncate" /\ run.args.update
           \/ pc' = "stage" /\ ~run.args.update
    BY <1>7 DEF NextItem, Goes, git, files
  <2>2. run' = run \/ \E i : run' = [run EXCEPT !.item = i]
    BY <1>7 DEF NextItem, Goes
  <2>3. \E i, t, k : run' = Changed(i, t, k)
    BY <1>1, <1>3, <2>2
  <2> QED BY <2>1, <2>3, <1>9 DEF Point, Cloned, Locked
<1>8. CASE CopyItem \/ ApplyPatch
  <2>1. pc \in {"copy", "next"} /\ UNCHANGED <<outside, lock, index, head>>
    BY <1>8 DEF CopyItem, ApplyPatch, git
  <2>2. Stops \/ (pc' = "next" /\ \E t : run' = [run EXCEPT !.todo = t])
    BY <1>8 DEF CopyItem, ApplyPatch
  <2>3. CASE Stops
    BY <2>1, <2>3, StopRun
  <2>4. CASE pc' = "next" /\ \E t : run' = [run EXCEPT !.todo = t]
    <3>1. \E i, t, k : run' = Changed(i, t, k)
      BY <1>2, <2>4, Zenon
    <3> QED BY <2>1, <2>4, <3>1, <1>9 DEF Point, Cloned, Locked
  <2> QED BY <2>2, <2>3, <2>4
<1> QED BY <1>5, <1>6, <1>7, <1>8

\* git clone, checkout and the checks of the revision.
LEMMA CloneRun == ASSUME RunInv, Clone PROVE RunInv'
<1> DEFINE commits == remote[run.upstream.url]
           rev == Resolve(commits, run.upstream.rev)
<1>1. pc = "clone" /\ UNCHANGED <<outside, lock, index, head>>
  BY DEF Clone, files, git
<1>2. CASE Stops
  BY <1>1, <1>2, StopRun
<1>3. CASE ~Stops
  <2>1. /\ Resolves(commits, run.upstream.rev)
        /\ ~run.args.update => rev = run.old.rev
        /\ run' = [run EXCEPT !.rev = rev, !.known = commits] /\ pc' = "remove"
    BY <1>3 DEF Clone
  <2>2. /\ run.upstream \in UpstreamData
        /\ ~run.args.update => run.upstream = run.old /\ run.old = lock
        /\ lock = run.old
    BY <1>1 DEF RunInv, Started, Cloned, Locked
  <2>3. commits \in Seq(Rev) /\ commits # <<>>
    BY <2>2 DEF RunInv, WorldOK, UpstreamData
  <2>4. rev \in Rev
    <3>1. Last(commits) \in Rev
      BY <2>3 DEF Last
    <3> QED BY <2>1, <2>3, <3>1 DEF Resolve, Resolves, Range
  <2> HIDE DEF commits, rev
  <2>5. /\ Records' /\ run'.args = run.args /\ run'.desc = run.desc /\ run'.old = run.old
        /\ run'.upstream = run.upstream /\ run'.rev = rev
    BY <1>1, <2>1 DEF Records, RunInv, Commits
  <2>6. WorldOK'
    BY <1>1 DEF WorldOK, RunInv, outside
  <2>7. Started'
    BY <1>1, <2>1, <2>5 DEF RunInv, Started, Typed, Commands, Locked
  <2>8. HasClone'
    BY <2>1, <2>2, <2>4, <2>5 DEF HasClone
  <2>9. HasLocked' /\ pc' \in Point
    BY <2>1 DEF HasLocked, Locked, Point, Cloned
  <2>10. BeganClean'
    BY <1>1, <2>1, <2>5 DEF RunInv, BeganClean
  <2> QED BY <2>5, <2>6, <2>7, <2>8, <2>9, <2>10 DEF RunInv
<1> QED BY <1>2, <1>3

\* The lock file is emptied and written.
LEMMA LockRun == ASSUME RunInv, Truncate \/ WriteLock PROVE RunInv'
<1>1. /\ pc \in {"truncate", "write"} /\ run' = run /\ UNCHANGED <<outside, index, head>>
      /\ \/ pc = "truncate" /\ pc' = "write" /\ lock' = Torn
         \/ pc = "write" /\ pc' = "stage" /\ lock' = LockData
  BY DEF Truncate, WriteLock, Goes, git
<1>2. /\ run.args.update /\ run.upstream \in UpstreamData /\ run.rev \in Rev
      /\ run.upstream = run.desc.upstream
  BY <1>1 DEF RunInv, Started, HasClone, HasLocked, Cloned
<1>3. LockData \in UpstreamData /\ LockData' = LockData
  BY <1>1, <1>2, LockDataTyped DEF LockData
<1>4. Records'
  BY <1>1, <1>3 DEF RunInv, Records, LockFile, Commits
<1>5. WorldOK'
  BY <1>1 DEF WorldOK, RunInv, outside
<1>6. Started'
  BY <1>1, <1>2 DEF RunInv, Started, Typed, Commands, Locked
<1>7. HasClone' /\ HasLocked' /\ pc' \in Point
  BY <1>1, <1>2, <1>3 DEF RunInv, HasClone, HasLocked, Point, Cloned, Locked
<1>8. BeganClean'
  BY <1>1 DEF RunInv, BeganClean
<1> QED BY <1>4, <1>5, <1>6, <1>7, <1>8 DEF RunInv

\* git add, git commit.
LEMMA CommitRun == ASSUME RunInv, Stage \/ Commit PROVE RunInv'
<1>1. CASE Stops
  <2>1. UNCHANGED <<outside, lock, index, head>>
    <3>1. pc' = "idle"
      BY <1>1 DEF Stops
    <3> QED BY <3>1 DEF Stage, Commit, Goes, files
  <2> QED BY <1>1, <2>1, StopRun
<1>2. CASE ~Stops
  <2>1. /\ run' = run /\ lock' = lock /\ UNCHANGED outside
        /\ \/ pc = "stage" /\ pc' = "done" /\ UNCHANGED <<index, head>>
           \/ /\ pc = "stage" /\ pc' = "commit" /\ run.args.commit
              /\ index' = Added /\ head' = head
           \/ pc = "commit" /\ pc' = "done" /\ index' = index /\ head' \in {index, head}
    BY <1>2 DEF Stage, Commit, Goes, files
  <2>2. lock = LockData /\ LockData' = LockData /\ lock \in LockFile
    BY <2>1 DEF RunInv, HasLocked, Locked, LockData, Records
  <2>3. Records'
    BY <2>1, <2>2 DEF RunInv, Records, Commits, Added
  <2>4. WorldOK'
    BY <2>1 DEF WorldOK, RunInv, outside
  <2>5. Started'
    BY <2>1 DEF RunInv, Started, Typed, Commands, Locked
  <2>6. HasClone' /\ HasLocked' /\ pc' \in Point
    BY <2>1, <2>2 DEF RunInv, HasClone, HasLocked, Point, Cloned, Locked, Added
  <2>7. BeganClean'
    BY <2>1 DEF RunInv, BeganClean
  <2> QED BY <2>3, <2>4, <2>5, <2>6, <2>7 DEF RunInv
<1> QED BY <1>1, <1>2

\* Upstream, the patch branches and the user.
LEMMA WorldRun == ASSUME RunInv, World PROVE RunInv'
<1>1. CASE \E u \in Url : Push(u)
  <2>1. PICK u \in Url : Push(u)
    BY <1>1
  <2>2. PICK r \in Moves[u][Last(remote[u])] :
           remote' \in {[remote EXCEPT ![u] = Append(@, r)],
                        [remote EXCEPT ![u] = Append(Front(@), r)]}
    BY <2>1 DEF Push
  <2>3. remote[u] \in Seq(Rev) /\ remote[u] # <<>> /\ Last(remote[u]) \in Rev
    BY DEF RunInv, WorldOK, Last
  <2>4. r \in Rev
    BY <2>2, <2>3, VendorAssumption
  <2>5. Append(remote[u], r) \in Seq(Rev) \ {<<>>}
    BY <2>3, <2>4
  <2>6. Append(Front(remote[u]), r) \in Seq(Rev) \ {<<>>}
    <3>1. Front(remote[u]) \in Seq(Rev)
      BY <2>3 DEF Front
    <3> QED BY <2>4, <3>1
  <2>7. remote' \in [Url -> Seq(Rev) \ {<<>>}]
    BY <2>2, <2>5, <2>6 DEF RunInv, WorldOK
  <2>8. UNCHANGED <<rebased, data, files, git, pc, run>>
    BY <2>1 DEF Push
  <2> QED BY <2>7, <2>8
          DEF RunInv, WorldOK, Records, Started, HasClone, HasLocked, BeganClean, Commits,
              Commands, LockData, files, git, Typed
<1>2. CASE Rebase \/ Edit
  <2>1. /\ rebased' \in Rev /\ data' \in Description
        /\ UNCHANGED <<remote, files, git, pc, run>>
    BY <1>2, VendorAssumption DEF Rebase, Edit, RunInv, WorldOK
  <2> QED BY <2>1
          DEF RunInv, WorldOK, Records, Started, HasClone, HasLocked, BeganClean, Commits,
              Commands, LockData, files, git, Typed
<1>3. CASE Reset
  <2>1. /\ pc = "idle" /\ pc' = "idle" /\ run' = run /\ lock' = head.lock
        /\ index' = head /\ head' = head /\ UNCHANGED outside
    BY <1>3 DEF Reset
  <2>2. Records' /\ WorldOK'
    BY <2>1 DEF RunInv, Records, WorldOK, outside, Commits
  <2> QED BY <2>1, <2>2
          DEF RunInv, Point, Started, HasClone, HasLocked, BeganClean, Cloned, Locked
<1> QED BY <1>1, <1>2, <1>3 DEF World

\* The invariant of the run.
LEMMA RunStep ==
    /\ Init => RunInv
    /\ RunInv /\ [Next]_vars => RunInv'
<1>1. ASSUME Init PROVE RunInv
  <2>1. pc = "idle" /\ run = NoRun
    BY <1>1 DEF Init
  <2>2. lock \in LockFile
    BY <1>1, VendorAssumption DEF Init, LockFile, UpstreamData
  <2>3. Records
    BY <1>1, <2>1, <2>2 DEF Init, Records, NoRun, Commits, LockFile
  <2>4. WorldOK
    <3>1. First \in Rev
      BY VendorAssumption
    <3>2. <<First>> \in Seq(Rev) \ {<<>>}
      BY <3>1
    <3> QED BY <1>1, <3>1, <3>2 DEF Init, WorldOK
  <2> QED BY <2>1, <2>3, <2>4
          DEF RunInv, Point, Started, HasClone, HasLocked, BeganClean, Cloned, Locked
<1>2. ASSUME RunInv, UNCHANGED vars PROVE RunInv'
  BY <1>2 DEF RunInv, WorldOK, Records, Started, HasClone, HasLocked, BeganClean, Commits,
              Commands, LockData, files, git, outside, vars, Typed
<1>3. ASSUME RunInv, Fail PROVE RunInv'
  BY <1>3, StopRun DEF Fail, git
<1>4. ASSUME RunInv, Finish PROVE RunInv'
  BY <1>4, StopRun DEF Finish, git, files
<1> QED BY <1>1, <1>2, <1>3, <1>4, StartRun, PlaceStep, CloneRun, LockRun, CommitRun, WorldRun
        DEF Next, Step

-----------------------------------------------------------------------------
\* A commit's message names the revision and the repository that its lock file
\* locks, and the log it lists begins where the commit before it was, whatever
\* the user edits, overrides or resets between two runs of vendor.py.
THEOREM MessagesCoverTheChange == Spec => MessageCoversTheChange
<1>1. ASSUME RunInv, Next, head' # head
      PROVE  /\ message'.rev = head'.lock.rev /\ message'.url = head'.lock.url
             /\ message'.since # None /\ head.lock # None =>
                   message'.since = head.lock.rev /\ head'.lock.url = head.lock.url
  <2>1. Commit
    BY <1>1 DEF Next, Step, Start, Unlink, FetchPatches, ExportPatch, Clone, RemoveTarget, NextItem,
                CopyItem, ApplyPatch, Truncate, WriteLock, Stage, Finish, Fail, World, Push, Rebase,
                Edit, Reset, git
  <2>2. pc = "commit" /\ head' = index /\ message' = Message
    BY <1>1, <2>1 DEF Commit
  <2>3. /\ head'.lock = LockData /\ run.args.commit
        /\ run.upstream \in UpstreamData /\ run.rev \in Rev
        /\ run.args.update => run.upstream = run.desc.upstream
        /\ head.lock # None => run.old = head.lock
    BY <1>1, <2>2 DEF RunInv, HasLocked, Started, HasClone, BeganClean, Locked, Cloned
  <2>4. head'.lock.rev = run.rev /\ head'.lock.url = run.upstream.url
    BY <2>3, LockDataTyped
  <2>5. message'.since # None =>
           run.args.update /\ run.desc.upstream.url = run.old.url /\ message'.since = run.old.rev
    BY <2>2 DEF Message, ChangesSince
  <2> QED BY <2>2, <2>3, <2>4, <2>5 DEF Message
<1>2. RunInv /\ [Next]_vars =>
         [head' # head =>
          /\ message'.rev = head'.lock.rev /\ message'.url = head'.lock.url
          /\ message'.since # None /\ head.lock # None =>
                message'.since = head.lock.rev /\ head'.lock.url = head.lock.url]_vars
  BY <1>1
<1> QED BY <1>2, RunStep, PTL DEF Spec, MessageCoversTheChange
-----------------------------------------------------------------------------
(* Paths.  NormPath is a fold: its function is there for every path, and   *)
(* the path it makes has `..` and `/` in front only, so that one which     *)
(* does not begin with them has none.                                      *)

\* Names and nothing else.
Plain(path) == path \in Seq(Name) /\ \A i \in 1 .. Len(path) : path[i] \notin {".", "..", "/"}

\* Counting up from zero one meets every number.
LEMMA CountUp ==
    ASSUME NEW T \in SUBSET Nat, 0 \in T, \A k \in T : k + 1 \in T
    PROVE  \A n \in Nat : n \in T
<1> DEFINE R == OpToRel(<, Nat)
           U == Nat \ T
<1>1. IsWellFoundedOn(R, Nat)
  BY NatLessThanWellFounded
<1>2. ASSUME U # {} PROVE FALSE
  <2>1. PICK x \in U : \A y \in U : <<y, x>> \notin R
    <3> HIDE DEF R
    <3>1. U \subseteq Nat
      OBVIOUS
    <3> QED BY <1>1, <1>2, <3>1, WFMin, Zenon
  <2>2. x # 0 /\ x \in Nat
    OBVIOUS
  <2>3. x - 1 \in Nat /\ x - 1 < x /\ (x - 1) + 1 = x
    BY <2>2
  <2>4. x - 1 \in T
    BY <2>1, <2>3 DEF OpToRel
  <2> QED BY <2>3, <2>4
<1> QED BY <1>2

\* A step of normpath.
LEMMA EnterTyped ==
    ASSUME NEW path \in Seq(Name), NEW name \in Name
    PROVE  Enter(path, name) \in Seq(Name)
<1>1. path # <<>> => Front(path) \in Seq(Name)
  BY DEF Front
<1>2. Append(path, "..") \in Seq(Name) /\ Append(path, name) \in Seq(Name)
  <2>1. ".." \in Name
    BY DEF Name
  <2> QED BY <2>1, AppendProperties
<1> QED BY <1>1, <1>2 DEF Enter

\* The function of the fold over the components of a path.
Folds(p, D, h) ==
    h = [s \in SUBSET D |-> IF s = {} THEN <<>> ELSE Enter(h[s \ {Max(s)}], p[Max(s)])]

\* The function of the fold is there for every beginning of the path.
LEMMA FoldThere ==
    ASSUME NEW p \in Seq(Name)
    PROVE  \A k \in Nat : k \in 0 .. Len(p) =>
              \E h \in [SUBSET (1 .. k) -> Seq(Name)] : Folds(p, 1 .. k, h)
<1> DEFINE T == {k \in Nat : k \in 0 .. Len(p) =>
                    \E h \in [SUBSET (1 .. k) -> Seq(Name)] : Folds(p, 1 .. k, h)}
<1>1. 0 \in T
  <2> DEFINE h == [s \in SUBSET (1 .. 0) |-> <<>>]
  <2>1. SUBSET (1 .. 0) = {{}} /\ 0 \in Nat
    OBVIOUS
  <2>2. h \in [SUBSET (1 .. 0) -> Seq(Name)]
    OBVIOUS
  <2>3. Folds(p, 1 .. 0, h)
    BY <2>1 DEF Folds
  <2> QED BY <2>1, <2>2, <2>3, Zenon
<1>2. ASSUME NEW k \in T PROVE k + 1 \in T
  <2> SUFFICES ASSUME k + 1 \in 0 .. Len(p)
               PROVE  \E h \in [SUBSET (1 .. k + 1) -> Seq(Name)] : Folds(p, 1 .. k + 1, h)
    <3>1. k + 1 \in Nat
      OBVIOUS
    <3> QED BY <3>1, Zenon
  <2>1. k \in Nat /\ k \in 0 .. Len(p) /\ p[k + 1] \in Name
    OBVIOUS
  <2>2. PICK g \in [SUBSET (1 .. k) -> Seq(Name)] : Folds(p, 1 .. k, g)
    BY <1>2, <2>1
  <2> DEFINE h == [s \in SUBSET (1 .. k + 1) |->
                      IF k + 1 \in s THEN Enter(g[s \ {k + 1}], p[k + 1]) ELSE g[s]]
  <2>3. ASSUME NEW s \in SUBSET (1 .. k + 1)
        PROVE  /\ h[s] \in Seq(Name)
               /\ h[s] = IF s = {} THEN <<>> ELSE Enter(h[s \ {Max(s)}], p[Max(s)])
    <3>1. CASE k + 1 \in s
      <4>1. Max(s) = k + 1
        <5>1. \A y \in s : k + 1 >= y /\ y \in Int
          BY <2>1
        <5>2. Max(s) \in s /\ \A y \in s : Max(s) >= y
          BY <3>1, <5>1 DEF Max
        <5>3. Max(s) \in Int /\ k + 1 \in Int /\ k + 1 >= Max(s) /\ Max(s) >= k + 1
          BY <3>1, <5>1, <5>2, Zenon
        <5> QED BY <5>3
      <4>2. s \ {k + 1} \in SUBSET (1 .. k) /\ s \ {k + 1} \in SUBSET (1 .. k + 1) /\ k + 1 \notin s \ {k + 1}
        BY <2>1
      <4>3. h[s] = Enter(g[s \ {k + 1}], p[k + 1]) /\ h[s \ {k + 1}] = g[s \ {k + 1}]
        BY <3>1, <4>2
      <4>4. g[s \ {k + 1}] \in Seq(Name)
        BY <4>2
      <4> QED BY <2>1, <3>1, <4>1, <4>3, <4>4, EnterTyped
    <3>2. CASE k + 1 \notin s
      <4>1. s \in SUBSET (1 .. k) /\ s \ {Max(s)} \in SUBSET (1 .. k)
            /\ s \ {Max(s)} \in SUBSET (1 .. k + 1) /\ k + 1 \notin s \ {Max(s)}
        <5>1. \A x \in s : x \in 1 .. k
          BY <2>1, <3>2
        <5> QED BY <3>2, <5>1, Zenon
      <4>2. h[s] = g[s] /\ h[s \ {Max(s)}] = g[s \ {Max(s)}]
        BY <3>2, <4>1
      <4>3. g[s] = IF s = {} THEN <<>> ELSE Enter(g[s \ {Max(s)}], p[Max(s)])
        <5>1. g = [r \in SUBSET (1 .. k) |->
                      IF r = {} THEN <<>> ELSE Enter(g[r \ {Max(r)}], p[Max(r)])]
          BY <2>2 DEF Folds
        <5> QED BY <4>1, <5>1
      <4> QED BY <4>1, <4>2, <4>3
    <3> QED BY <3>1, <3>2
  <2>4. h \in [SUBSET (1 .. k + 1) -> Seq(Name)]
    BY <2>3
  <2> HIDE DEF h
  <2>5. Folds(p, 1 .. k + 1, h)
    BY <2>3, <2>4 DEF Folds
  <2> QED BY <2>4, <2>5
<1> HIDE DEF T
<1>3. \A n \in Nat : n \in T
  <2>1. T \in SUBSET Nat
    BY DEF T
  <2> QED BY <1>1, <1>2, <2>1, CountUp
<1> QED BY <1>3 DEF T

\* NormPath enters the components one after the other.
LEMMA NormSteps ==
    ASSUME NEW p \in Seq(Name)
    PROVE  \E g \in [0 .. Len(p) -> Seq(Name)] :
              /\ g[0] = <<>> /\ NormPath(p) = g[Len(p)]
              /\ \A k \in 1 .. Len(p) : g[k] = Enter(g[k - 1], p[k])
<1> PICK n \in Nat : n = Len(p)
  OBVIOUS
<1> DEFINE h == CHOOSE iter : Folds(p, DOMAIN p, iter)
<1>1. DOMAIN p = 1 .. n
  OBVIOUS
<1>2. Folds(p, 1 .. n, h)
  <2>1. \E f : Folds(p, 1 .. n, f)
    <3>1. n \in 0 .. Len(p)
      OBVIOUS
    <3> QED BY <3>1, FoldThere, Zenon
  <2> QED BY <1>1, <2>1, Zenon
<1>3. NormPath(p) = h[1 .. n]
  BY <1>1 DEF NormPath, FoldLeft, MapThenFoldSet, Folds
<1> HIDE DEF h
<1>4. \A s \in SUBSET (1 .. n) :
         h[s] = IF s = {} THEN <<>> ELSE Enter(h[s \ {Max(s)}], p[Max(s)])
  <2>1. h = [s \in SUBSET (1 .. n) |-> IF s = {} THEN <<>> ELSE Enter(h[s \ {Max(s)}], p[Max(s)])]
    BY <1>2, Zenon DEF Folds
  <2> QED BY <2>1
<1>5. h[1 .. 0] = <<>>
  <2>1. 1 .. 0 = {} /\ {} \in SUBSET (1 .. n)
    OBVIOUS
  <2> QED BY <1>4, <2>1
<1>6. \A k \in 1 .. n : h[1 .. k] = Enter(h[1 .. k - 1], p[k])
  <2> TAKE k \in 1 .. n
  <2>1. 1 .. k \in SUBSET (1 .. n) /\ k \in 1 .. k /\ (1 .. k) \ {k} = 1 .. k - 1 /\ 1 .. k # {}
    <3>1. k \in Nat /\ 1 <= k /\ k <= n
      OBVIOUS
    <3>2. \A x : x \in (1 .. k) \ {k} <=> x \in 1 .. k - 1
      BY <3>1
    <3>3. k \in 1 .. k /\ 1 .. k \in SUBSET (1 .. n)
      BY <3>1
    <3> QED BY <3>2, <3>3
  <2>2. Max(1 .. k) = k
    <3>1. \A y \in 1 .. k : k >= y /\ y \in Int
      OBVIOUS
    <3>2. Max(1 .. k) \in 1 .. k /\ \A y \in 1 .. k : Max(1 .. k) >= y
      BY <2>1, <3>1 DEF Max
    <3> QED BY <3>1, <3>2
  <2> QED BY <1>4, <2>1, <2>2
<1>7. \A k \in Nat : k \in 0 .. n => h[1 .. k] \in Seq(Name)
  <2> DEFINE T == {k \in Nat : k \in 0 .. n => h[1 .. k] \in Seq(Name)}
  <2>1. 0 \in T
    <3>1. <<>> \in Seq(Name)
      OBVIOUS
    <3> QED BY <1>5, <3>1
  <2>2. ASSUME NEW k \in T PROVE k + 1 \in T
    <3> SUFFICES ASSUME k + 1 \in 0 .. n PROVE h[1 .. k + 1] \in Seq(Name)
      OBVIOUS
    <3>1. k \in 0 .. n /\ k + 1 \in 1 .. n /\ (k + 1) - 1 = k /\ p[k + 1] \in Name
      OBVIOUS
    <3>2. h[1 .. k] \in Seq(Name)
      BY <3>1
    <3>3. h[1 .. k + 1] = Enter(h[1 .. k], p[k + 1])
      BY <1>6, <3>1
    <3> QED BY <3>1, <3>2, <3>3, EnterTyped
  <2> HIDE DEF T
  <2>3. \A k \in Nat : k \in T
    <3>1. T \in SUBSET Nat
      BY DEF T
    <3> QED BY <2>1, <2>2, <3>1, CountUp
  <2> QED BY <2>3 DEF T
<1> DEFINE g == [k \in 0 .. n |-> h[1 .. k]]
<1>8. g \in [0 .. n -> Seq(Name)] /\ g[0] = <<>> /\ NormPath(p) = g[n]
  BY <1>3, <1>5, <1>7
<1>9. \A k \in 1 .. n : g[k] = Enter(g[k - 1], p[k])
  BY <1>6
<1> HIDE DEF g
<1> QED BY <1>8, <1>9

\* A longer beginning.
LEMMA BeginningGrows ==
    ASSUME NEW p \in Seq(Name), NEW k \in Nat, k < Len(p)
    PROVE  /\ SubSeq(p, 1, k) \in Seq(Name) /\ Len(SubSeq(p, 1, k)) = k
           /\ \A i \in 1 .. k : SubSeq(p, 1, k)[i] = p[i]
           /\ Append(SubSeq(p, 1, k), p[k + 1]) = SubSeq(p, 1, k + 1)
<1>1. /\ SubSeq(p, 1, k) \in Seq(Name) /\ Len(SubSeq(p, 1, k)) = k
      /\ \A i \in 1 .. k : SubSeq(p, 1, k)[i] = p[i]
  OBVIOUS
<1>2. /\ SubSeq(p, 1, k + 1) \in Seq(Name) /\ Len(SubSeq(p, 1, k + 1)) = k + 1
      /\ \A i \in 1 .. k + 1 : SubSeq(p, 1, k + 1)[i] = p[i]
  OBVIOUS
<1> PICK s \in Seq(Name), t \in Seq(Name) : s = SubSeq(p, 1, k) /\ t = SubSeq(p, 1, k + 1)
  BY <1>1, <1>2
<1>3. /\ Append(s, p[k + 1]) \in Seq(Name) /\ Len(Append(s, p[k + 1])) = k + 1
      /\ \A i \in 1 .. k : Append(s, p[k + 1])[i] = s[i]
      /\ Append(s, p[k + 1])[k + 1] = p[k + 1]
  BY <1>1
<1>4. \A i \in 1 .. k + 1 : Append(s, p[k + 1])[i] = t[i]
  BY <1>1, <1>2, <1>3
<1>5. Append(s, p[k + 1]) = t
  BY <1>2, <1>3, <1>4, SeqEqual
<1> QED BY <1>1, <1>5

\* normpath leaves a path of names alone.
LEMMA PlainIsNormal ==
    ASSUME NEW p, Plain(p)
    PROVE  NormPath(p) = p /\ ~Escapes(p)
<1>1. p \in Seq(Name) /\ \A i \in 1 .. Len(p) : p[i] \notin {".", "..", "/"}
  BY DEF Plain
<1>2. PICK n \in Nat : n = Len(p)
  BY <1>1
<1>3. PICK g \in [0 .. n -> Seq(Name)] :
         /\ g[0] = <<>> /\ NormPath(p) = g[n]
         /\ \A k \in 1 .. n : g[k] = Enter(g[k - 1], p[k])
  BY <1>1, <1>2, NormSteps
<1> DEFINE T == {k \in Nat : k \in 0 .. n => g[k] = SubSeq(p, 1, k)}
<1>4. 0 \in T
  <2>1. SubSeq(p, 1, 0) = <<>>
    BY <1>1
  <2> QED BY <1>3, <2>1
<1>5. ASSUME NEW k \in T PROVE k + 1 \in T
  <2> SUFFICES ASSUME k + 1 \in 0 .. n PROVE g[k + 1] = SubSeq(p, 1, k + 1)
    OBVIOUS
  <2>1. k \in Nat /\ k \in 0 .. n /\ k < n /\ k + 1 \in 1 .. n /\ (k + 1) - 1 = k
    BY <1>2
  <2>2. g[k] = SubSeq(p, 1, k) /\ g[k + 1] = Enter(g[k], p[k + 1])
    BY <1>3, <2>1
  <2>3. p[k + 1] # "." /\ p[k + 1] # ".."
    BY <1>1, <1>2, <2>1
  <2>4. Enter(g[k], p[k + 1]) = Append(g[k], p[k + 1])
    BY <2>3 DEF Enter
  <2>5. Append(SubSeq(p, 1, k), p[k + 1]) = SubSeq(p, 1, k + 1)
    BY <1>1, <1>2, <2>1, BeginningGrows
  <2> QED BY <2>2, <2>4, <2>5
<1> HIDE DEF T
<1>6. n \in T
  <2>1. T \in SUBSET Nat
    BY DEF T
  <2> QED BY <1>2, <1>4, <1>5, <2>1, CountUp
<1>7. g[n] = SubSeq(p, 1, n)
  BY <1>2, <1>6 DEF T
<1>8. SubSeq(p, 1, n) = p
  BY <1>1, <1>2
<1>9. ~Escapes(p)
  BY <1>1 DEF Escapes
<1> QED BY <1>3, <1>7, <1>8, <1>9

\* What normpath leaves of `..` and `/` stands in front.
Shaped(path) ==
    /\ path \in Seq(Name)
    /\ \A j \in 1 .. Len(path) :
          /\ path[j] # "."
          /\ j > 1 => path[j] # "/" /\ (path[j] = ".." => path[1] = "..")

\* A step of normpath keeps it so.
LEMMA EnterShaped ==
    ASSUME NEW path, Shaped(path), NEW name \in Name, path # <<>> => name # "/"
    PROVE  Shaped(Enter(path, name))
<1>1. /\ path \in Seq(Name) /\ Len(path) \in Nat /\ (path = <<>> <=> Len(path) = 0)
      /\ \A j \in 1 .. Len(path) :
          /\ path[j] # "."
          /\ j > 1 => path[j] # "/" /\ (path[j] = ".." => path[1] = "..")
  BY DEF Shaped
<1>2. \A x \in Name : /\ Append(path, x) \in Seq(Name) /\ Len(Append(path, x)) = Len(path) + 1
                      /\ \A j \in 1 .. Len(path) : Append(path, x)[j] = path[j]
                      /\ Append(path, x)[Len(path) + 1] = x
  BY <1>1
<1>3. CASE Enter(path, name) = Append(path, name) /\ name \notin {".", ".."}
  BY <1>1, <1>2, <1>3 DEF Shaped
<1>4. CASE Enter(path, name) = Append(path, "..") /\ (path = <<>> \/ Last(path) = "..")
  <2>1. ".." \in Name
    BY DEF Name
  <2>2. path # <<>> => path[1] = ".."
    BY <1>1, <1>4 DEF Last
  <2>3. /\ Append(path, "..") \in Seq(Name) /\ Len(Append(path, "..")) = Len(path) + 1
        /\ \A j \in 1 .. Len(path) : Append(path, "..")[j] = path[j]
        /\ Append(path, "..")[Len(path) + 1] = ".."
    BY <1>2, <2>1
  <2> QED BY <1>1, <1>4, <2>2, <2>3 DEF Shaped
<1>5. CASE Enter(path, name) = path
  BY <1>5
<1>6. CASE Enter(path, name) = Front(path) /\ path # <<>>
  <2>1. /\ Front(path) \in Seq(Name) /\ Len(Front(path)) = Len(path) - 1
        /\ \A j \in 1 .. Len(path) - 1 : Front(path)[j] = path[j]
    <3>1. PICK k \in Nat : k = Len(path) - 1 /\ k < Len(path)
      <4>1. PICK m \in Nat : m = Len(path) /\ m # 0
        BY <1>1, <1>6, Zenon
      <4>2. m - 1 \in Nat /\ m - 1 < m
        BY <4>1
      <4> QED BY <4>1, <4>2
    <3>2. /\ SubSeq(path, 1, k) \in Seq(Name) /\ Len(SubSeq(path, 1, k)) = k
          /\ \A i \in 1 .. k : SubSeq(path, 1, k)[i] = path[i]
      BY <1>1, <3>1, BeginningGrows
    <3> QED BY <3>1, <3>2 DEF Front
  <2> QED BY <1>1, <1>6, <2>1 DEF Shaped
<1> QED BY <1>3, <1>4, <1>5, <1>6 DEF Enter

\* A path that was normalised has that shape.
LEMMA NormIsShaped == ASSUME NEW p, IsPath(p) PROVE Shaped(NormPath(p))
<1>1. p \in Seq(Name) /\ \A i \in 2 .. Len(p) : p[i] # "/"
  BY DEF IsPath
<1>2. PICK n \in Nat : n = Len(p)
  BY <1>1
<1>3. PICK g \in [0 .. n -> Seq(Name)] :
         /\ g[0] = <<>> /\ NormPath(p) = g[n]
         /\ \A k \in 1 .. n : g[k] = Enter(g[k - 1], p[k])
  BY <1>1, <1>2, NormSteps
<1> DEFINE T == {k \in Nat : k \in 0 .. n => Shaped(g[k])}
<1>4. 0 \in T
  BY <1>3 DEF Shaped
<1>5. ASSUME NEW k \in T PROVE k + 1 \in T
  <2> SUFFICES ASSUME k + 1 \in 0 .. n PROVE Shaped(g[k + 1])
    OBVIOUS
  <2>1. k \in Nat /\ k \in 0 .. n /\ k < n /\ k + 1 \in 1 .. n /\ (k + 1) - 1 = k
    BY <1>2
  <2>2. Shaped(g[k]) /\ g[k + 1] = Enter(g[k], p[k + 1])
    BY <1>3, <2>1
  <2>3. p[k + 1] \in Name
    BY <1>1, <1>2, <2>1
  <2>4. g[k] # <<>> => p[k + 1] # "/"
    <3>1. g[k] # <<>> => k # 0
      BY <1>3
    <3>2. k # 0 => k + 1 \in 2 .. Len(p)
      BY <1>2, <2>1
    <3> QED BY <1>1, <3>1, <3>2
  <2> QED BY <2>2, <2>3, <2>4, EnterShaped
<1> HIDE DEF T
<1>6. n \in T
  <2>1. T \in SUBSET Nat
    BY DEF T
  <2> QED BY <1>2, <1>4, <1>5, <2>1, CountUp
<1>7. Shaped(g[n])
  BY <1>2, <1>6 DEF T
<1> QED BY <1>3, <1>7

\* A path that does not escape is made of names only.
LEMMA PathOKIsPlain ==
    ASSUME NEW p, IsPath(p), ~Escapes(NormPath(p))
    PROVE  Plain(NormPath(p))
<1> PICK q : q = NormPath(p)
  OBVIOUS
<1>1. Shaped(q) /\ ~Escapes(q)
  BY NormIsShaped
<1>2. q \in Seq(Name) /\ (q # <<>> => q[1] \notin {"/", ".."})
  BY <1>1 DEF Shaped, Escapes
<1>3. \A j \in 1 .. Len(q) : q[j] \notin {".", "..", "/"}
  <2> TAKE j \in 1 .. Len(q)
  <2>1. q # <<>> /\ (j = 1 \/ j > 1)
    BY <1>2
  <2> QED BY <1>1, <1>2, <2>1 DEF Shaped
<1> QED BY <1>2, <1>3 DEF Plain

-----------------------------------------------------------------------------
(* Beginnings, rests and joins of paths.                                   *)

Begin(p, k) == SubSeq(p, 1, k)
Rest(p, k) == SubSeq(p, k + 1, Len(p))

\* What a beginning of a path is made of.
LEMMA BeginAt ==
    ASSUME NEW p \in Seq(Name), NEW k \in 0 .. Len(p)
    PROVE  /\ Begin(p, k) \in Seq(Name) /\ Len(Begin(p, k)) = k
           /\ \A i \in 1 .. k : Begin(p, k)[i] = p[i]
BY DEF Begin

\* What the rest of a path is made of.
LEMMA RestAt ==
    ASSUME NEW p \in Seq(Name), NEW k \in 0 .. Len(p)
    PROVE  /\ Rest(p, k) \in Seq(Name) /\ Len(Rest(p, k)) = Len(p) - k
           /\ \A i \in 1 .. Len(p) - k : Rest(p, k)[i] = p[k + i]
BY DEF Rest

\* What a path joined to another is made of.
LEMMA JoinAt ==
    ASSUME NEW p \in Seq(Name), NEW q \in Seq(Name)
    PROVE  /\ p \o q \in Seq(Name) /\ Len(p \o q) = Len(p) + Len(q)
           /\ \A i \in 1 .. Len(p) : (p \o q)[i] = p[i]
           /\ \A i \in 1 .. Len(q) : (p \o q)[Len(p) + i] = q[i]
<1>1. /\ p \o q \in Seq(Name) /\ Len(p \o q) = Len(p) + Len(q)
      /\ \A i \in 1 .. Len(p) + Len(q) : (p \o q)[i] = IF i <= Len(p) THEN p[i] ELSE q[i - Len(p)]
  BY ConcatProperties
<1>2. \A i \in 1 .. Len(p) : (p \o q)[i] = p[i]
  BY <1>1
<1>3. ASSUME NEW i \in 1 .. Len(q) PROVE (p \o q)[Len(p) + i] = q[i]
  <2>1. PICK m \in Nat, n \in Nat : m = Len(p) /\ n = Len(q)
    OBVIOUS
  <2>2. m + i \in 1 .. m + n /\ ~(m + i <= m) /\ (m + i) - m = i
    BY <2>1
  <2> QED BY <1>1, <2>1, <2>2
<1> QED BY <1>1, <1>2, <1>3

\* A path is its beginning and its rest.
LEMMA BeginAndRest ==
    ASSUME NEW p \in Seq(Name), NEW k \in 0 .. Len(p)
    PROVE  Begin(p, k) \o Rest(p, k) = p
<1> PICK b \in Seq(Name), r \in Seq(Name) : b = Begin(p, k) /\ r = Rest(p, k)
  BY BeginAt, RestAt
<1>0. k \in Nat /\ Len(p) \in Nat /\ k <= Len(p)
  OBVIOUS
<1>1. /\ Len(b) = k /\ Len(r) = Len(p) - k
      /\ \A i \in 1 .. k : b[i] = p[i]
      /\ \A i \in 1 .. Len(p) - k : r[i] = p[k + i]
  BY BeginAt, RestAt, Zenon
<1> PICK s \in Seq(Name) : s = b \o r
  BY JoinAt
<1>2. /\ Len(s) = Len(p)
      /\ \A i \in 1 .. k : s[i] = b[i]
      /\ \A i \in 1 .. Len(p) - k : s[k + i] = r[i]
  <2>1. /\ Len(s) = Len(b) + Len(r)
        /\ \A i \in 1 .. Len(b) : s[i] = b[i]
        /\ \A i \in 1 .. Len(r) : s[Len(b) + i] = r[i]
    <3>1. ASSUME NEW c, c = b \o r
          PROVE  /\ Len(c) = Len(b) + Len(r)
                 /\ \A i \in 1 .. Len(b) : c[i] = b[i]
                 /\ \A i \in 1 .. Len(r) : c[Len(b) + i] = r[i]
      BY <3>1, JoinAt
    <3> QED BY <3>1, Zenon
  <2>2. k + (Len(p) - k) = Len(p)
    BY <1>0
  <2> QED BY <1>1, <2>1, <2>2, Zenon
<1>3. ASSUME NEW i \in 1 .. Len(p) PROVE s[i] = p[i]
  <2>1. CASE i <= k
    BY <1>0, <1>1, <1>2, <2>1
  <2>2. CASE ~(i <= k)
    <3>1. i - k \in 1 .. Len(p) - k /\ k + (i - k) = i
      BY <1>0, <1>1, <2>2
    <3>2. s[k + (i - k)] = p[k + (i - k)]
      BY <1>1, <1>2, <3>1, Zenon
    <3> QED BY <3>1, <3>2
  <2> QED BY <2>1, <2>2
<1> QED BY <1>2, <1>3, SeqEqual

\* A part of a path of names is one.
LEMMA PartsPlain ==
    ASSUME NEW p, Plain(p), NEW k \in 0 .. Len(p)
    PROVE  Plain(Begin(p, k)) /\ Plain(Rest(p, k))
<1>1. p \in Seq(Name) /\ \A i \in 1 .. Len(p) : p[i] \notin {".", "..", "/"}
  BY DEF Plain
<1>2. Plain(Begin(p, k))
  BY <1>1, BeginAt DEF Plain
<1>3. Plain(Rest(p, k))
  <2>1. PICK m \in Nat : m = Len(p) /\ k \in 0 .. m
    BY <1>1
  <2>2. \A i \in 1 .. m - k : k + i \in 1 .. m
    BY <2>1
  <2>3. PICK r \in Seq(Name) : r = Rest(p, k)
    BY <1>1, RestAt
  <2>4. Len(r) = m - k /\ \A i \in 1 .. m - k : r[i] = p[k + i]
    BY <1>1, <2>1, <2>3, RestAt, Zenon
  <2>5. \A i \in 1 .. Len(r) : r[i] \notin {".", "..", "/"}
    BY <1>1, <2>1, <2>2, <2>4, Zenon
  <2> QED BY <2>3, <2>5 DEF Plain
<1> QED BY <1>2, <1>3

\* Names joined to names are names.
LEMMA JoinPlain ==
    ASSUME NEW p, Plain(p), NEW q, Plain(q)
    PROVE  Plain(p \o q)
<1>1. /\ p \in Seq(Name) /\ \A i \in 1 .. Len(p) : p[i] \notin {".", "..", "/"}
      /\ q \in Seq(Name) /\ \A i \in 1 .. Len(q) : q[i] \notin {".", "..", "/"}
  BY DEF Plain
<1> PICK s \in Seq(Name) : s = p \o q
  BY <1>1, JoinAt
<1>2. PICK m \in Nat, n \in Nat : m = Len(p) /\ n = Len(q)
  BY <1>1
<1>3. /\ Len(s) = m + n /\ \A i \in 1 .. m : s[i] = p[i]
      /\ \A i \in 1 .. n : s[m + i] = q[i]
  BY <1>1, <1>2, JoinAt
<1>4. ASSUME NEW i \in 1 .. m + n PROVE s[i] \notin {".", "..", "/"}
  <2>1. CASE i <= m
    BY <1>1, <1>2, <1>3, <2>1
  <2>2. CASE ~(i <= m)
    <3>1. i - m \in 1 .. n /\ m + (i - m) = i
      BY <2>2
    <3> QED BY <1>1, <1>2, <1>3, <3>1
  <2> QED BY <2>1, <2>2
<1> QED BY <1>3, <1>4 DEF Plain

\* A beginning of a beginning is a beginning.
LEMMA BeginBegin ==
    ASSUME NEW p \in Seq(Name), NEW k \in 0 .. Len(p), NEW j \in 0 .. k
    PROVE  Begin(Begin(p, k), j) = Begin(p, j)
<1> PICK b \in Seq(Name) : b = Begin(p, k)
  BY BeginAt
<1>1. Len(b) = k /\ \A i \in 1 .. k : b[i] = p[i]
  BY BeginAt
<1>2. j \in 0 .. Len(b) /\ j \in 0 .. Len(p)
  BY <1>1
<1>3. /\ Begin(b, j) \in Seq(Name) /\ Len(Begin(b, j)) = j
      /\ \A i \in 1 .. j : Begin(b, j)[i] = b[i]
      /\ Begin(p, j) \in Seq(Name) /\ Len(Begin(p, j)) = j
      /\ \A i \in 1 .. j : Begin(p, j)[i] = p[i]
  BY <1>2, BeginAt
<1>4. \A i \in 1 .. j : Begin(b, j)[i] = Begin(p, j)[i]
  BY <1>1, <1>3
<1> QED BY <1>3, <1>4, SeqEqual

\* The directories on the way to a path.
LEMMA ParentsOf ==
    ASSUME NEW p, Plain(p), NEW x \in Parents(p)
    PROVE  /\ \E k \in 0 .. Len(p) - 1 : k \in 0 .. Len(p) /\ x = Begin(p, k)
           /\ Plain(x) /\ Len(x) < Len(p) /\ Parents(x) \subseteq Parents(p)
<1>1. p \in Seq(Name) /\ Len(p) \in Nat
  BY DEF Plain
<1>2. PICK k \in 0 .. Len(p) - 1 : x = Begin(p, k)
  BY DEF Parents, Begin
<1>3. k \in 0 .. Len(p) /\ k < Len(p) /\ k \in Nat
  BY <1>1
<1>4. Plain(x) /\ Len(x) = k
  BY <1>1, <1>2, <1>3, PartsPlain, BeginAt
<1>5. ASSUME NEW y \in Parents(x) PROVE y \in Parents(p)
  <2>1. PICK j \in 0 .. k - 1 : y = Begin(x, j)
    BY <1>4 DEF Parents, Begin
  <2>2. j \in 0 .. k /\ j \in 0 .. Len(p) - 1
    BY <1>1, <1>3
  <2>3. y = Begin(p, j)
    BY <1>1, <1>2, <1>3, <2>1, <2>2, BeginBegin
  <2> QED BY <2>2, <2>3 DEF Parents, Begin
<1> QED BY <1>2, <1>3, <1>4, <1>5

\* No path is on the way to itself.
LEMMA NotOwnParent == ASSUME NEW p, Plain(p) PROVE p \notin Parents(p)
<1>1. Len(p) \in Nat
  BY DEF Plain
<1> QED BY <1>1, ParentsOf
\* A join, taken apart again.
LEMMA JoinParts ==
    ASSUME NEW p \in Seq(Name), NEW q \in Seq(Name)
    PROVE  /\ Begin(p \o q, Len(p)) = p /\ Rest(p \o q, Len(p)) = q
           /\ \A k \in 0 .. Len(p) : Begin(p \o q, k) = Begin(p, k)
           /\ \A j \in 0 .. Len(q) : Begin(p \o q, Len(p) + j) = p \o Begin(q, j)
<1> PICK s \in Seq(Name) : s = p \o q
  BY JoinAt
<1> PICK m \in Nat, n \in Nat : m = Len(p) /\ n = Len(q)
  OBVIOUS
<1>1. /\ Len(s) = m + n /\ \A i \in 1 .. m : s[i] = p[i]
      /\ \A i \in 1 .. n : s[m + i] = q[i]
  BY JoinAt
<1>2. ASSUME NEW k \in 0 .. m PROVE Begin(s, k) = Begin(p, k)
  <2>1. k \in 0 .. Len(s) /\ k \in 0 .. Len(p) /\ \A i \in 1 .. k : i \in 1 .. m
    BY <1>1
  <2>2. /\ Begin(s, k) \in Seq(Name) /\ Len(Begin(s, k)) = k
        /\ \A i \in 1 .. k : Begin(s, k)[i] = s[i]
        /\ Begin(p, k) \in Seq(Name) /\ Len(Begin(p, k)) = k
        /\ \A i \in 1 .. k : Begin(p, k)[i] = p[i]
    BY <2>1, BeginAt
  <2>3. \A i \in 1 .. k : Begin(s, k)[i] = Begin(p, k)[i]
    BY <1>1, <2>1, <2>2
  <2> QED BY <2>2, <2>3, SeqEqual
<1>3. Begin(p, m) = p
  <2>1. m \in 0 .. Len(p)
    OBVIOUS
  <2>2. /\ Begin(p, m) \in Seq(Name) /\ Len(Begin(p, m)) = m
        /\ \A i \in 1 .. m : Begin(p, m)[i] = p[i]
    BY <2>1, BeginAt
  <2> QED BY <2>2, SeqEqual
<1>4. Rest(s, m) = q
  <2>1. m \in 0 .. Len(s) /\ Len(s) - m = n
    BY <1>1
  <2>2. /\ Rest(s, m) \in Seq(Name) /\ Len(Rest(s, m)) = n
        /\ \A i \in 1 .. n : Rest(s, m)[i] = s[m + i]
    BY <2>1, RestAt
  <2>3. \A i \in 1 .. n : Rest(s, m)[i] = q[i]
    BY <1>1, <2>2
  <2> QED BY <2>2, <2>3, SeqEqual
<1>5. ASSUME NEW j \in 0 .. n PROVE Begin(s, m + j) = p \o Begin(q, j)
  <2>1. m + j \in 0 .. Len(s) /\ j \in 0 .. Len(q) /\ j \in Nat /\ \A i \in 1 .. j : i \in 1 .. n
    BY <1>1
  <2> PICK b \in Seq(Name), u \in Seq(Name) : b = Begin(q, j) /\ u = Begin(s, m + j)
    BY <2>1, BeginAt
  <2>2. /\ Len(u) = m + j /\ Len(b) = j
        /\ \A i \in 1 .. m + j : u[i] = s[i]
        /\ \A i \in 1 .. j : b[i] = q[i]
    BY <2>1, BeginAt
  <2> PICK v \in Seq(Name) : v = p \o b
    BY JoinAt
  <2>3. /\ Len(v) = m + j /\ \A i \in 1 .. m : v[i] = p[i]
        /\ \A i \in 1 .. j : v[m + i] = b[i]
    <3>1. /\ Len(p \o b) = Len(p) + Len(b)
          /\ \A i \in 1 .. Len(p) : (p \o b)[i] = p[i]
          /\ \A i \in 1 .. Len(b) : (p \o b)[Len(p) + i] = b[i]
      BY JoinAt
    <3> QED BY <2>2, <3>1, Zenon
  <2>4. ASSUME NEW i \in 1 .. m + j PROVE u[i] = v[i]
    <3>1. CASE i <= m
      <4>1. i \in 1 .. m
        BY <2>1, <3>1
      <4> QED BY <1>1, <2>2, <2>3, <4>1, Zenon
    <3>2. CASE ~(i <= m)
      <4>1. PICK l \in 1 .. j : i = m + l
        <5>1. i - m \in 1 .. j /\ i = m + (i - m)
          BY <2>1, <3>2
        <5> QED BY <5>1
      <4>2. l \in 1 .. n
        BY <2>1, <4>1
      <4>3. u[m + l] = s[m + l] /\ s[m + l] = q[l] /\ v[m + l] = b[l] /\ b[l] = q[l]
        BY <1>1, <2>2, <2>3, <4>1, <4>2, Zenon
      <4> QED BY <4>1, <4>3
    <3> QED BY <3>1, <3>2
  <2> QED BY <2>2, <2>3, <2>4, SeqEqual
<1>6. m \in 0 .. m
  OBVIOUS
<1> QED BY <1>2, <1>3, <1>4, <1>5, <1>6

\* What is on the way to a join: on the way to its first part, or inside it.
LEMMA JoinParents ==
    ASSUME NEW p, Plain(p), NEW q, Plain(q), NEW y
    PROVE  y \in Parents(p \o q) <=> y \in Parents(p) \/ \E z \in Parents(q) : y = p \o z
<1>1. p \in Seq(Name) /\ q \in Seq(Name)
  BY DEF Plain
<1>2. PICK m \in Nat, n \in Nat : m = Len(p) /\ n = Len(q)
  BY <1>1
<1>3. Len(p \o q) = m + n
  BY <1>1, <1>2, JoinAt
<1>4. /\ \A k \in 0 .. m : Begin(p \o q, k) = Begin(p, k)
      /\ \A j \in 0 .. n : Begin(p \o q, m + j) = p \o Begin(q, j)
  BY <1>1, <1>2, JoinParts
<1>5. /\ Parents(p \o q) = {Begin(p \o q, k) : k \in 0 .. (m + n) - 1}
      /\ Parents(p) = {Begin(p, k) : k \in 0 .. m - 1}
      /\ Parents(q) = {Begin(q, k) : k \in 0 .. n - 1}
  BY <1>2, <1>3, Zenon DEF Parents, Begin
<1>6. ASSUME y \in Parents(p \o q) PROVE y \in Parents(p) \/ \E z \in Parents(q) : y = p \o z
  <2>1. PICK k \in 0 .. (m + n) - 1 : y = Begin(p \o q, k)
    BY <1>5, <1>6
  <2>2. CASE k < m
    <3>1. k \in 0 .. m - 1 /\ k \in 0 .. m
      BY <2>2
    <3> QED BY <1>4, <1>5, <2>1, <3>1, Zenon
  <2>3. CASE ~(k < m)
    <3>1. PICK j \in 0 .. n - 1 : k = m + j /\ j \in 0 .. n
      <4>1. k - m \in 0 .. n - 1 /\ k = m + (k - m) /\ k - m \in 0 .. n
        BY <2>3
      <4> QED BY <4>1
    <3> QED BY <1>4, <1>5, <2>1, <3>1, Zenon
  <2> QED BY <2>2, <2>3
<1>7. ASSUME y \in Parents(p) PROVE y \in Parents(p \o q)
  <2>1. PICK k \in 0 .. m - 1 : y = Begin(p, k)
    BY <1>5, <1>7
  <2>2. k \in 0 .. m /\ k \in 0 .. (m + n) - 1
    OBVIOUS
  <2> QED BY <1>4, <1>5, <2>1, <2>2, Zenon
<1>8. ASSUME NEW z \in Parents(q), y = p \o z PROVE y \in Parents(p \o q)
  <2>1. PICK k \in 0 .. n - 1 : z = Begin(q, k)
    BY <1>5
  <2>2. k \in 0 .. n /\ m + k \in 0 .. (m + n) - 1
    OBVIOUS
  <2> QED BY <1>4, <1>5, <1>8, <2>1, <2>2, Zenon
<1> QED BY <1>6, <1>7, <1>8

\* What is inside a directory is joined to it.
LEMMA InsideIsJoined ==
    ASSUME NEW x, Plain(x), NEW d \in Seq(Name), Within(x, d)
    PROVE  /\ Plain(d) /\ Plain(Rest(x, Len(d))) /\ x = d \o Rest(x, Len(d))
           /\ Below(x, d) => Rest(x, Len(d)) # <<>>
<1>1. x \in Seq(Name) /\ Len(d) \in 0 .. Len(x) /\ Len(d) <= Len(x)
  BY DEF Plain, Within, IsPrefix
<1>2. Begin(x, Len(d)) = d
  <2>1. SubSeq(d, 1, Len(d)) = d
    OBVIOUS
  <2> QED BY <2>1 DEF Within, IsPrefix, Begin
<1>3. Plain(d) /\ Plain(Rest(x, Len(d))) /\ x = d \o Rest(x, Len(d))
  <2>1. Plain(Begin(x, Len(d))) /\ Plain(Rest(x, Len(d)))
    BY <1>1, PartsPlain
  <2>2. Begin(x, Len(d)) \o Rest(x, Len(d)) = x
    BY <1>1, BeginAndRest
  <2> QED BY <1>2, <2>1, <2>2, Zenon
<1>4. ASSUME Rest(x, Len(d)) = <<>> PROVE x = d
  <2>1. d \o <<>> = d
    OBVIOUS
  <2> QED BY <1>3, <1>4, <2>1
<1> QED BY <1>3, <1>4 DEF Below, IsStrictPrefix

\* What is joined to a directory is inside it.
LEMMA JoinedIsInside ==
    ASSUME NEW d, Plain(d), NEW z, Plain(z)
    PROVE  Within(d \o z, d)
<1>1. d \in Seq(Name) /\ z \in Seq(Name)
  BY DEF Plain
<1>2. SubSeq(d, 1, Len(d)) = d /\ Begin(d \o z, Len(d)) = d /\ Len(d) <= Len(d \o z)
  <2>1. Len(d \o z) = Len(d) + Len(z) /\ Len(d) \in Nat /\ Len(z) \in Nat
    BY <1>1, JoinAt
  <2> QED BY <1>1, <2>1, JoinParts
<1> QED BY <1>2 DEF Within, IsPrefix, Begin

-----------------------------------------------------------------------------
(* What is in a repository, a commit and the target directory.             *)

IsText(text) == text = [rev |-> text.rev, patched |-> text.patched] /\ text.rev \in Rev

\* Files side by side: none is a directory on the way to another.
FilesOK(fs) ==
    \A f \in DOMAIN fs :
        /\ Plain(f) /\ IsText(fs[f])
        /\ \A g \in DOMAIN fs : f \notin Parents(g)

\* A tree: the way to everything in it is there.
TreeOK(t) ==
    /\ t = [dirs |-> t.dirs, files |-> t.files]
    /\ \A x \in t.dirs \cup DOMAIN t.files : Plain(x) /\ Parents(x) \subseteq t.dirs
    /\ t.dirs \cap DOMAIN t.files = {}
    /\ \A f \in DOMAIN t.files : IsText(t.files[f])

\* The directories of some files are a tree with them.
LEMMA DirsMakeTree ==
    ASSUME NEW fs, FilesOK(fs)
    PROVE  TreeOK([files |-> fs, dirs |-> Dirs(fs)])
<1> DEFINE t == [files |-> fs, dirs |-> Dirs(fs)]
<1>1. t.files = fs /\ t.dirs = Dirs(fs) /\ t = [dirs |-> t.dirs, files |-> t.files]
  OBVIOUS
<1> HIDE DEF t
<1>2. ASSUME NEW x \in Dirs(fs) PROVE Plain(x) /\ Parents(x) \subseteq Dirs(fs) /\ x \notin DOMAIN fs
  <2>1. PICK f \in DOMAIN fs : x \in Parents(f)
    BY DEF Dirs
  <2>2. Plain(f) /\ x \notin DOMAIN fs
    BY <2>1 DEF FilesOK
  <2>3. Plain(x) /\ Parents(x) \subseteq Parents(f)
    BY <2>1, <2>2, ParentsOf
  <2>4. Parents(f) \subseteq Dirs(fs)
    BY DEF Dirs
  <2> QED BY <2>2, <2>3, <2>4
<1>3. \A f \in DOMAIN fs : Plain(f) /\ Parents(f) \subseteq Dirs(fs) /\ IsText(fs[f])
  BY DEF FilesOK, Dirs
<1> QED BY <1>1, <1>2, <1>3 DEF TreeOK, t

\* The files of a tree, some of them, lie side by side.
LEMMA TreeFiles ==
    ASSUME NEW t, TreeOK(t), NEW S \in SUBSET DOMAIN t.files
    PROVE  FilesOK(Restrict(t.files, S))
<1> DEFINE fs == Restrict(t.files, S)
<1>1. DOMAIN fs = S /\ \A f \in S : fs[f] = t.files[f]
  BY DEF Restrict
<1> HIDE DEF fs
<1>2. \A f, g \in S : f \notin Parents(g)
  BY DEF TreeOK
<1> QED BY <1>1, <1>2 DEF FilesOK, TreeOK, fs

\* A tree without some of its files is one.
LEMMA PartOfTree ==
    ASSUME NEW t, TreeOK(t), NEW S \in SUBSET DOMAIN t.files
    PROVE  /\ TreeOK([t EXCEPT !.files = Restrict(@, S)])
           /\ DOMAIN [t EXCEPT !.files = Restrict(@, S)].files = S
           /\ \A f \in S : [t EXCEPT !.files = Restrict(@, S)].files[f] = t.files[f]
<1> DEFINE u == [t EXCEPT !.files = Restrict(@, S)]
<1>1. u.dirs = t.dirs /\ u.files = Restrict(t.files, S) /\ u = [dirs |-> u.dirs, files |-> u.files]
  BY DEF TreeOK
<1>2. DOMAIN u.files = S /\ \A f \in S : u.files[f] = t.files[f]
  BY <1>1 DEF Restrict
<1> HIDE DEF u
<1>3. TreeOK(u)
  BY <1>1, <1>2 DEF TreeOK
<1> QED BY <1>2, <1>3 DEF u

\* What git checks out lies side by side.
LEMMA CheckoutFiles ==
    ASSUME NEW r \in Rev, NEW subdir \in {None} \cup Seq(Name)
    PROVE  /\ FilesOK(Checkout(r, subdir)) /\ <<>> \notin DOMAIN Checkout(r, subdir)
           /\ \A f \in DOMAIN Checkout(r, subdir) :
                 Checkout(r, subdir)[f] = [rev |-> r, patched |-> <<>>]
<1> DEFINE dir == IF subdir = None THEN <<>> ELSE subdir
           names == Files(r) \cup {<<".git", "HEAD">>}
           src == Checkout(r, subdir)
<1>1. dir \in Seq(Name)
  OBVIOUS
<1>2. \A n \in names : Plain(n)
  <2>1. Plain(<<".git", "HEAD">>)
    <3>1. ".git" \in Name /\ "HEAD" \in Name
      BY DEF Name
    <3> QED BY <3>1 DEF Plain
  <2>2. \A f \in Files(r) : Plain(f)
    <3> TAKE f \in Files(r)
    <3>1. IsPath(f) /\ NormPath(f) = f /\ ~Escapes(f)
      BY FilesAssumption
    <3> QED BY <3>1, PathOKIsPlain, Zenon
  <2> QED BY <2>1, <2>2
<1>3. \A n, m \in names : n \notin Parents(m)
  <2>1. \A n, m \in Files(r) : n \notin Parents(m)
    BY FilesAssumption
  <2>2. <<".git", "HEAD">> \notin Parents(<<".git", "HEAD">>)
    BY <1>2, NotOwnParent
  <2>3. ASSUME NEW f \in Files(r) PROVE <<".git", "HEAD">> \notin Parents(f)
    <3>1. f[1] # ".git" /\ Plain(f) /\ f \in Seq(Name)
      BY <1>2, FilesAssumption DEF Plain
    <3> SUFFICES ASSUME <<".git", "HEAD">> \in Parents(f) PROVE FALSE
      OBVIOUS
    <3>2. PICK k \in 0 .. Len(f) : <<".git", "HEAD">> = Begin(f, k)
      BY <3>1, ParentsOf
    <3>3. Len(<<".git", "HEAD">>) = 2 /\ <<".git", "HEAD">>[1] = ".git"
      OBVIOUS
    <3>4. k = 2
      BY <3>1, <3>2, <3>3, BeginAt
    <3>5. Begin(f, k)[1] = f[1]
      BY <3>1, <3>4, BeginAt
    <3> QED BY <3>1, <3>2, <3>3, <3>5
  <2>4. ASSUME NEW f \in Files(r) PROVE f \notin Parents(<<".git", "HEAD">>)
    <3>1. f[1] # ".git" /\ f # <<>> /\ f \in Seq(Name)
      BY <1>2, FilesAssumption DEF Plain
    <3> SUFFICES ASSUME f \in Parents(<<".git", "HEAD">>) PROVE FALSE
      OBVIOUS
    <3>2. PICK k \in 0 .. Len(<<".git", "HEAD">>) : f = Begin(<<".git", "HEAD">>, k)
      BY <1>2, ParentsOf
    <3>3. /\ <<".git", "HEAD">>[1] = ".git" /\ <<".git", "HEAD">> \in Seq(Name)
          /\ k \in Nat
      BY <1>2 DEF Plain
    <3>4. Len(f) = k /\ \A i \in 1 .. k : f[i] = <<".git", "HEAD">>[i]
      BY <3>2, <3>3, BeginAt
    <3>5. k # 0
      BY <3>1, <3>4
    <3> QED BY <3>1, <3>3, <3>4, <3>5
  <2> QED BY <2>1, <2>2, <2>3, <2>4
<1>4. src = [f \in {Rest(n, Len(dir)) : n \in {m \in names : Below(m, dir)}} |->
                [rev |-> r, patched |-> <<>>]]
  BY DEF Checkout, Rest
<1> HIDE DEF src, names, dir
<1>5. ASSUME NEW f \in DOMAIN src PROVE Plain(f) /\ f # <<>> /\ dir \o f \in names /\ Plain(dir)
  <2>1. PICK n \in names : Below(n, dir) /\ f = Rest(n, Len(dir))
    BY <1>4
  <2>2. Plain(n) /\ Within(n, dir)
    BY <1>2, <2>1 DEF Below, IsStrictPrefix, Within
  <2> QED BY <1>1, <2>1, <2>2, InsideIsJoined
<1>6. ASSUME NEW f \in DOMAIN src, NEW g \in DOMAIN src PROVE f \notin Parents(g)
  <2>1. f \in Parents(g) => dir \o f \in Parents(dir \o g)
    BY <1>5, JoinParents
  <2> QED BY <1>3, <1>5, <2>1
<1>7. \A f \in DOMAIN src : src[f] = [rev |-> r, patched |-> <<>>]
  BY <1>4
<1>8. \A f \in DOMAIN src : IsText(src[f])
  BY <1>7 DEF IsText
<1> QED BY <1>5, <1>6, <1>7, <1>8 DEF FilesOK, src

-----------------------------------------------------------------------------
(* A copy makes a tree of a tree: what it brings comes from the checkout,  *)
(* and what was there stays or is overwritten.                             *)

Grown(old, new, r) ==
    /\ TreeOK(new) /\ DOMAIN old.files \subseteq DOMAIN new.files
    /\ \A f \in DOMAIN new.files :
          \/ f \in DOMAIN old.files /\ new.files[f] = old.files[f]
          \/ new.files[f].rev = r

\* What git checks out at a revision.
SourceOK(src, r) ==
    /\ FilesOK(src) /\ <<>> \notin DOMAIN src
    /\ \A f \in DOMAIN src : src[f] = [rev |-> r, patched |-> <<>>]

\* mkdir(parents=True) where no file is in the way.
LEMMA ParentsMade ==
    ASSUME NEW tree, TreeOK(tree), NEW path, Plain(path), CanMakeParents(tree, path), NEW r
    PROVE  /\ Grown(tree, MakeParents(tree, path), r)
           /\ Parents(path) \subseteq MakeParents(tree, path).dirs
<1> DEFINE made == MakeParents(tree, path)
<1>1. /\ made.dirs = tree.dirs \cup Parents(path) /\ made.files = tree.files
      /\ made = [dirs |-> made.dirs, files |-> made.files]
  BY DEF MakeParents, TreeOK
<1> HIDE DEF made
<1>2. \A x \in Parents(path) : Plain(x) /\ Parents(x) \subseteq Parents(path)
  BY ParentsOf
<1>3. TreeOK(made)
  BY <1>1, <1>2 DEF TreeOK, CanMakeParents
<1> QED BY <1>1, <1>3 DEF Grown, made

\* A file under another name, its parents being there.
LEMMA FileCopied ==
    ASSUME NEW tree, TreeOK(tree), NEW src, NEW r \in Rev, SourceOK(src, r),
           NEW item, Plain(item.to), item.from \in DOMAIN src, Parents(item.to) \subseteq tree.dirs
    PROVE  Grown(tree, CopyFile(tree, src, item).tree, r)
<1> DEFINE dest == FileDest(tree, item)
           new == CopyFile(tree, src, item).tree
<1>1. Plain(dest) /\ Parents(dest) \subseteq tree.dirs
  <2>1. CASE item.to \in tree.dirs
    <3>1. /\ item.from \in Seq(Name) /\ item.from # <<>>
          /\ \A i \in 1 .. Len(item.from) : item.from[i] \notin {".", "..", "/"}
      BY DEF SourceOK, FilesOK, Plain
    <3>2. PICK name \in Name : name = Last(item.from) /\ name \notin {".", "..", "/"}
      BY <3>1 DEF Last
    <3>3. Plain(<<name>>)
      BY <3>2 DEF Plain
    <3>4. item.to \in Seq(Name)
      BY DEF Plain
    <3>5. dest = item.to \o <<name>>
      BY <2>1, <3>2, <3>4 DEF FileDest
    <3>6. \A z \in Parents(<<name>>) : z = <<>>
      <4> TAKE z \in Parents(<<name>>)
      <4>1. PICK i \in 0 .. Len(<<name>>) - 1 : z = SubSeq(<<name>>, 1, i)
        BY DEF Parents
      <4>2. i = 0 /\ <<name>> \in Seq(Name)
        BY <4>1
      <4> QED BY <4>1, <4>2
    <3>7. item.to \o <<>> = item.to
      BY <3>4
    <3>8. Parents(dest) \subseteq Parents(item.to) \cup {item.to}
      <4> SUFFICES ASSUME NEW y \in Parents(dest) PROVE y \in Parents(item.to) \cup {item.to}
        OBVIOUS
      <4>1. y \in Parents(item.to) \/ \E z \in Parents(<<name>>) : y = item.to \o z
        <5>1. y \in Parents(item.to \o <<name>>)
          BY <3>5
        <5>2. ASSUME NEW p, Plain(p), NEW q, Plain(q), y \in Parents(p \o q)
              PROVE  y \in Parents(p) \/ \E z \in Parents(q) : y = p \o z
          BY <5>2, JoinParents
        <5> QED BY <3>3, <5>1, <5>2, Zenon
      <4> QED BY <3>6, <3>7, <4>1, Zenon
    <3> QED BY <2>1, <3>3, <3>5, <3>8, JoinPlain
  <2>2. CASE item.to \notin tree.dirs
    BY <2>2 DEF FileDest
  <2> QED BY <2>1, <2>2
<1> HIDE DEF dest
<1>2. CASE dest \in tree.dirs
  BY <1>2 DEF CopyFile, dest, Grown
<1>3. CASE dest \notin tree.dirs
  <2>1. /\ new.dirs = tree.dirs /\ new = [dirs |-> new.dirs, files |-> new.files]
        /\ new.files = Over([q \in {dest} |-> src[item.from]], tree.files)
    BY <1>3 DEF CopyFile, dest, TreeOK
  <2>2. /\ DOMAIN new.files = {dest} \cup DOMAIN tree.files
        /\ new.files[dest] = src[item.from]
        /\ \A f \in DOMAIN tree.files : f # dest => new.files[f] = tree.files[f]
    BY <2>1 DEF Over
  <2> HIDE DEF new
  <2>3. IsText(src[item.from]) /\ src[item.from].rev = r
    BY DEF SourceOK, IsText
  <2>4. TreeOK(new)
    BY <1>1, <1>3, <2>1, <2>2, <2>3 DEF TreeOK
  <2> QED BY <2>2, <2>3, <2>4 DEF Grown, new
<1> QED BY <1>2, <1>3

\* A directory with what is in it, but for what is excluded.
LEMMA TreeCopied ==
    ASSUME NEW tree, TreeOK(tree), NEW src, NEW r \in Rev, SourceOK(src, r),
           NEW item, Plain(item.from), Plain(item.to), Parents(item.to) \subseteq tree.dirs,
           NEW excludes
    PROVE  Grown(tree, CopyTree(tree, src, item, excludes).tree, r)
<1> DEFINE from == item.from
           to == item.to
           ok == from \in Dirs(src) /\ ~Exists(tree, to)
           fs == Copied(src, item, excludes)
           ds == CopiedDirs(src, item, excludes)
           new == CopyTree(tree, src, item, excludes).tree
           Inside(x) == Rest(x, Len(from))
<1>1. CASE ~ok
  BY <1>1 DEF CopyTree, Grown
<1>2. CASE ok
  <2>1. from \in Seq(Name) /\ to \in Seq(Name)
    BY DEF Plain
  <2>2. \A x : Dest(item, x) = to \o Inside(x)
    BY DEF Dest, Rest
  <2>3. /\ \A x \in fs : x \in DOMAIN src /\ Below(x, from) /\ Within(x, from) /\ Plain(x)
        /\ \A x \in ds : x \in Dirs(src) /\ Within(x, from) /\ Plain(x) /\ x \notin DOMAIN src
    <3>1. \A x \in Dirs(src) : Plain(x) /\ x \notin DOMAIN src
      BY ParentsOf DEF Dirs, SourceOK, FilesOK
    <3> QED BY <3>1 DEF Copied, CopiedDirs, Below, Within, IsStrictPrefix, SourceOK, FilesOK
  <2>4. \A x \in fs \cup ds : Plain(Inside(x)) /\ x = from \o Inside(x)
    BY <2>1, <2>3, InsideIsJoined
  <2>5. \A x \in fs : Inside(x) # <<>>
    BY <2>1, <2>3, InsideIsJoined
  <2>6. \A x \in fs \cup ds : Plain(Dest(item, x))
    <3> TAKE x \in fs \cup ds
    <3>1. PICK z : z = Inside(x) /\ Plain(z)
      BY <2>4, Zenon
    <3>2. Plain(to \o z)
      BY <3>1, JoinPlain
    <3> QED BY <2>2, <3>1, <3>2, Zenon
  \* The way to what is copied is copied.
  <2>7. ASSUME NEW x \in fs \cup ds, NEW y \in Parents(Dest(item, x))
        PROVE  y \in tree.dirs \/ \E d \in ds : y = Dest(item, d)
    <3>1. y \in Parents(to) \/ \E z \in Parents(Inside(x)) : y = to \o z
      <4>1. PICK w : w = Inside(x) /\ Plain(w)
        BY <2>4, Zenon
      <4>2. y \in Parents(to \o w)
        BY <2>2, <4>1, Zenon
      <4>3. y \in Parents(to) \/ \E z \in Parents(w) : y = to \o z
        <5>1. ASSUME NEW p, Plain(p), NEW q, Plain(q), y \in Parents(p \o q)
              PROVE  y \in Parents(p) \/ \E z \in Parents(q) : y = p \o z
          BY <5>1, JoinParents
        <5> QED BY <4>1, <4>2, <5>1, Zenon
      <4> QED BY <4>1, <4>3, Zenon
    <3>2. ASSUME NEW z \in Parents(Inside(x)), y = to \o z PROVE \E d \in ds : y = Dest(item, d)
      <4> DEFINE d == from \o z
      <4>1. Plain(z) /\ z \in Seq(Name)
        BY <2>4, ParentsOf DEF Plain
      <4>2. d \in Parents(x)
        BY <2>4, JoinParents
      <4>3. Within(d, from) /\ Inside(d) = z
        BY <2>1, <4>1, JoinedIsInside, JoinParts
      <4>4. d \in Dirs(src)
        <5>1. CASE x \in fs
          BY <2>3, <4>2, <5>1 DEF Dirs
        <5>2. CASE x \in ds
          <6>1. PICK f \in DOMAIN src : x \in Parents(f)
            BY <2>3, <5>2 DEF Dirs
          <6>2. Parents(x) \subseteq Parents(f)
            BY <6>1, ParentsOf DEF SourceOK, FilesOK
          <6> QED BY <4>2, <6>1, <6>2 DEF Dirs
        <5> QED BY <5>1, <5>2
      <4>5. ~Ignores(item, d, excludes)
        <5>1. ~Ignores(item, x, excludes)
          BY DEF Copied, CopiedDirs
        <5>2. PICK k \in 0 .. Len(x) - 1 : k \in 0 .. Len(x) /\ d = Begin(x, k)
          BY <2>3, <4>2, ParentsOf
        <5>3. x \in Seq(Name) /\ Len(x) \in Nat /\ Len(from) \in Nat /\ k \in Nat /\ k <= Len(x)
          BY <2>1, <2>3 DEF Plain
        <5>4. Len(d) = k
          BY <5>2, <5>3, BeginAt
        <5> SUFFICES ASSUME NEW i \in Len(from) + 1 .. Len(d), SubSeq(d, 1, i) \in excludes
                     PROVE  FALSE
          BY DEF Ignores
        <5>5. i \in 0 .. k /\ i \in Len(from) + 1 .. Len(x)
          BY <5>3, <5>4
        <5>6. Begin(d, i) = Begin(x, i)
          BY <5>2, <5>3, <5>5, BeginBegin
        <5> QED BY <5>1, <5>5, <5>6 DEF Ignores, Begin
      <4>6. d \in ds
        BY <4>3, <4>4, <4>5 DEF CopiedDirs
      <4> QED BY <2>2, <3>2, <4>3, <4>6
    <3> QED BY <3>1, <3>2
  \* A file is not put where a directory is, and nothing is below a file.
  <2>8. ASSUME NEW x \in fs, NEW d \in ds PROVE Dest(item, x) # Dest(item, d)
    <3>1. Plain(Inside(x)) /\ Plain(Inside(d)) /\ x = from \o Inside(x) /\ d = from \o Inside(d)
      BY <2>4
    <3>2. Rest(to \o Inside(x), Len(to)) = Inside(x) /\ Rest(to \o Inside(d), Len(to)) = Inside(d)
      BY <2>1, <3>1, JoinParts DEF Plain
    <3>3. x # d
      BY <2>3
    <3> QED BY <2>2, <3>1, <3>2, <3>3
  <2>9. ASSUME NEW x \in fs \cup ds PROVE Dest(item, x) = to \/ to \in Parents(Dest(item, x))
    <3>1. Inside(x) \in Seq(Name)
      BY <2>4 DEF Plain
    <3>2. CASE Inside(x) = <<>>
      <4>1. to \o <<>> = to
        BY <2>1
      <4> QED BY <2>2, <3>2, <4>1, Zenon
    <3>3. CASE Inside(x) # <<>>
      <4>1. <<>> \in Parents(Inside(x))
        <5>1. 0 \in 0 .. Len(Inside(x)) - 1 /\ SubSeq(Inside(x), 1, 0) = <<>>
          BY <3>1, <3>3
        <5> QED BY <5>1, Zenon DEF Parents
      <4>2. to \o <<>> = to
        BY <2>1
      <4>3. PICK w : w = Inside(x) /\ Plain(w)
        BY <2>4, Zenon
      <4>4. to \in Parents(to \o w)
        BY <4>1, <4>2, <4>3, JoinParents
      <4> QED BY <2>2, <4>3, <4>4, Zenon
    <3> QED BY <3>2, <3>3
  <2>10. \A x \in fs \cup ds : Dest(item, x) \notin DOMAIN tree.files
    BY <1>2, <2>9 DEF TreeOK, Exists
  <2>11. \A x \in fs \cup ds : Dest(item, x) \in tree.dirs => Dest(item, x) = to
    BY <1>2, <2>9 DEF TreeOK, Exists
  <2>12. \A x \in fs : Dest(item, x) \notin tree.dirs
    BY <1>2, <2>11 DEF Exists
  <2>13. /\ new = [dirs |-> new.dirs, files |-> new.files]
         /\ new.dirs = tree.dirs \cup {Dest(item, d) : d \in ds}
         /\ new.files = Over([q \in {Dest(item, f) : f \in fs} |-> src[from \o Rest(q, Len(to))]],
                             tree.files)
    BY <1>2 DEF CopyTree, Rest
  <2> HIDE DEF new, fs, ds
  <2>14. /\ DOMAIN new.files = {Dest(item, f) : f \in fs} \cup DOMAIN tree.files
         /\ \A q \in {Dest(item, f) : f \in fs} : new.files[q] = src[from \o Rest(q, Len(to))]
         /\ \A q \in DOMAIN tree.files \ {Dest(item, f) : f \in fs} : new.files[q] = tree.files[q]
    BY <2>13 DEF Over
  <2>15. ASSUME NEW f \in fs
         PROVE  IsText(new.files[Dest(item, f)]) /\ new.files[Dest(item, f)].rev = r
    <3>1. Rest(to \o Inside(f), Len(to)) = Inside(f)
      BY <2>1, <2>4, JoinParts DEF Plain
    <3>2. new.files[Dest(item, f)] = src[f]
      BY <2>2, <2>4, <2>14, <3>1
    <3> QED BY <2>3, <3>2 DEF SourceOK, IsText
  <2>16. TreeOK(new)
    <3>1. \A x \in new.dirs \cup DOMAIN new.files : Plain(x) /\ Parents(x) \subseteq new.dirs
      BY <2>6, <2>7, <2>13, <2>14 DEF TreeOK
    <3>2. new.dirs \cap DOMAIN new.files = {}
      BY <2>8, <2>10, <2>12, <2>13, <2>14 DEF TreeOK
    <3>3. \A f \in DOMAIN new.files : IsText(new.files[f])
      BY <2>14, <2>15 DEF TreeOK
    <3> QED BY <2>13, <3>1, <3>2, <3>3 DEF TreeOK
  <2>17. \A f \in DOMAIN new.files :
            \/ f \in DOMAIN tree.files /\ new.files[f] = tree.files[f]
            \/ new.files[f].rev = r
    BY <2>14, <2>15
  <2> QED BY <2>14, <2>16, <2>17 DEF Grown, new
<1> QED BY <1>1, <1>2

\* An item of the mapping, with the directories on the way made first.
LEMMA CopyGrows ==
    ASSUME NEW tree, TreeOK(tree), NEW src, NEW r \in Rev, SourceOK(src, r),
           NEW item, Plain(item.from), Plain(item.to), NEW excludes
    PROVE  Grown(tree, Copy(tree, src, item, excludes).tree, r)
<1> DEFINE made == MakeParents(tree, item.to)
           new == Copy(tree, src, item, excludes).tree
<1>1. CASE ~CanMakeParents(tree, item.to)
  <2>1. new = tree
    BY <1>1 DEF Copy
  <2> QED BY <2>1 DEF Grown
<1>2. CASE CanMakeParents(tree, item.to)
  <2>1. /\ TreeOK(made) /\ Parents(item.to) \subseteq made.dirs /\ made.files = tree.files
    BY <1>2, ParentsMade DEF Grown, MakeParents, TreeOK
  <2> HIDE DEF made
  <2>2. Grown(made, new, r)
    <3>1. CASE item.from \in DOMAIN src
      <4>1. new = CopyFile(made, src, item).tree
        BY <1>2, <3>1 DEF Copy, made
      <4> QED BY <2>1, <3>1, <4>1, FileCopied
    <3>2. CASE item.from \notin DOMAIN src
      <4>1. new = CopyTree(made, src, item, excludes).tree
        BY <1>2, <3>2 DEF Copy, made
      <4> QED BY <2>1, <4>1, TreeCopied
    <3> QED BY <3>1, <3>2
  <2> QED BY <2>1, <2>2 DEF Grown
<1> QED BY <1>1, <1>2

\* A patch changes a text that is there, and not its revision.
LEMMA PatchKeeps ==
    ASSUME NEW tree, TreeOK(tree), NEW item, NEW p
    PROVE  LET new == Patch(tree, item, p).tree
           IN  /\ TreeOK(new) /\ DOMAIN new.files = DOMAIN tree.files
               /\ \A f \in DOMAIN tree.files : new.files[f].rev = tree.files[f].rev
<1> DEFINE path == item.to \o p.file
           new == Patch(tree, item, p).tree
<1>1. CASE new = tree
  BY <1>1
<1>2. CASE /\ path \in DOMAIN tree.files
           /\ new = [tree EXCEPT !.files[path].patched = Append(@, p.n)]
  <2>1. PICK q : q = Append(tree.files[path].patched, p.n)
    OBVIOUS
  <2>2. /\ new.dirs = tree.dirs /\ new = [dirs |-> new.dirs, files |-> new.files]
        /\ new.files = [tree.files EXCEPT ![path] = [tree.files[path] EXCEPT !.patched = q]]
    BY <1>2, <2>1 DEF TreeOK
  <2> HIDE DEF new, path
  <2>3. IsText(tree.files[path])
    BY <1>2 DEF TreeOK
  <2>4. /\ [tree.files[path] EXCEPT !.patched = q].rev = tree.files[path].rev
        /\ IsText([tree.files[path] EXCEPT !.patched = q])
    BY <2>3 DEF IsText
  <2>5. /\ DOMAIN new.files = DOMAIN tree.files
        /\ \A f \in DOMAIN tree.files :
              new.files[f] = IF f = path THEN [tree.files[path] EXCEPT !.patched = q] ELSE tree.files[f]
    BY <2>2
  <2>6. TreeOK(new)
    BY <2>2, <2>4, <2>5 DEF TreeOK
  <2> QED BY <2>4, <2>5, <2>6 DEF new
<1>3. new = tree \/ (path \in DOMAIN tree.files
                     /\ new = [tree EXCEPT !.files[path].patched = Append(@, p.n)])
  BY DEF Patch
<1> QED BY <1>1, <1>2, <1>3

\* The items of a description that was accepted lead from names to names.
LEMMA ItemsLead ==
    ASSUME NEW d, Accepted(d), Typed(d)
    PROVE  /\ Len(Items(d)) \in Nat /\ DOMAIN Items(d) = 1 .. Len(Items(d))
           /\ \A i \in DOMAIN Items(d) : Plain(Items(d)[i].from) /\ Plain(Items(d)[i].to)
<1>1. CASE d.mapping = None
  <2>1. Plain(<<>>)
    BY DEF Plain
  <2> DEFINE item == [from |-> <<>>, to |-> <<>>,
                      patch_dir |-> IF d.patch_dir # None THEN <<>> ELSE None]
  <2>2. Items(d) = <<item>> /\ item.from = <<>> /\ item.to = <<>>
    BY <1>1 DEF Items
  <2> HIDE DEF item
  <2>3. Len(<<item>>) = 1 /\ DOMAIN <<item>> = 1 .. 1 /\ <<item>>[1] = item
    OBVIOUS
  <2> QED BY <2>1, <2>2, <2>3
<1>2. CASE d.mapping # None
  <2>1. PICK n \in Nat : n = Len(d.mapping) /\ DOMAIN d.mapping = 1 .. n
    BY <1>2 DEF Typed
  <2>2. Items(d) = [i \in 1 .. n |-> MakeItem(d.mapping[i])]
    BY <1>2, <2>1 DEF Items
  <2>3. Len(Items(d)) = n /\ DOMAIN Items(d) = 1 .. n
    <3> DEFINE S == {MakeItem(d.mapping[i]) : i \in 1 .. n}
    <3>1. Items(d) \in [1 .. n -> S]
      BY <2>2
    <3> HIDE DEF S
    <3>2. Items(d) \in Seq(S)
      BY <3>1, SeqDef
    <3>3. DOMAIN Items(d) = 1 .. n
      BY <2>2
    <3> QED BY <3>2, <3>3, LenProperties
  <2>4. ASSUME NEW i \in 1 .. n PROVE Plain(Items(d)[i].from) /\ Plain(Items(d)[i].to)
    <3>1. ItemOK(d.mapping[i])
      BY <1>2, <2>1 DEF Accepted, FieldsOK
    <3>2. /\ IsPath(d.mapping[i].from) /\ ~Escapes(NormPath(d.mapping[i].from))
          /\ IsPath(d.mapping[i].to) /\ ~Escapes(NormPath(d.mapping[i].to))
      BY <1>2, <2>1, <3>1 DEF Typed, ItemOK, PathOK
    <3>3. /\ Items(d)[i].from = NormPath(d.mapping[i].from)
          /\ Items(d)[i].to = NormPath(d.mapping[i].to)
      BY <2>2 DEF MakeItem
    <3> QED BY <3>2, <3>3, PathOKIsPlain
  <2> QED BY <2>3, <2>4
<1> QED BY <1>1, <1>2

-----------------------------------------------------------------------------
\* What is in the target directory is a tree, and so is what a reset makes of
\* the last commit; a copy is of an item of the mapping.
TreeInv ==
    /\ TreeOK(target) /\ FilesOK(index.files) /\ FilesOK(head.files)
    /\ run.item \in Nat
    /\ pc = "copy" => run.item \in DOMAIN Items(run.desc)
    /\ faults \in 0 .. MaxFaults /\ runs \in 0 .. MaxRuns

\* The copy at hand.
LEMMA ItemGrows ==
    ASSUME RunInv, TreeInv, pc = "copy"
    PROVE  run.rev \in Rev /\ Grown(target, CopyOfItem.tree, run.rev)
<1>1. /\ run.rev \in Rev /\ run.upstream \in UpstreamData /\ Accepted(run.desc) /\ Typed(run.desc)
  BY DEF RunInv, HasClone, Started, Cloned
<1>2. run.upstream.only_subdir \in {None} \cup Seq(Name)
  BY <1>1 DEF UpstreamData
<1>3. SourceOK(Checkout(run.rev, run.upstream.only_subdir), run.rev)
  BY <1>1, <1>2, CheckoutFiles DEF SourceOK
<1>4. Plain(Item.from) /\ Plain(Item.to)
  BY <1>1, ItemsLead DEF TreeInv, Item
<1>5. TreeOK(target)
  BY DEF TreeInv
<1> QED BY <1>1, <1>3, <1>4, <1>5, CopyGrows DEF CopyOfItem

\* A part of it.
LEMMA PartGrows ==
    ASSUME RunInv, TreeInv, pc = "copy", NEW t \in PartOfCopy
    PROVE  Grown(target, t, run.rev)
<1> DEFINE u == CopyOfItem.tree
           there == DOMAIN target.files
<1>1. PICK part \in {{}} \cup {{f} : f \in DOMAIN u.files \ there} :
         t = [u EXCEPT !.files = Restrict(@, there \cup part)]
  BY DEF PartOfCopy
<1>2. Grown(target, u, run.rev)
  BY ItemGrows
<1> HIDE DEF u
<1>3. TreeOK(u) /\ there \cup part \subseteq DOMAIN u.files
  BY <1>1, <1>2 DEF Grown
<1>4. PICK S \in SUBSET DOMAIN u.files :
         S = there \cup part /\ t = [u EXCEPT !.files = Restrict(@, S)]
  BY <1>1, <1>3
<1>5. TreeOK(t) /\ DOMAIN t.files = S /\ \A f \in S : t.files[f] = u.files[f]
  <2>1. ASSUME NEW w, w = [u EXCEPT !.files = Restrict(@, S)]
        PROVE  TreeOK(w) /\ DOMAIN w.files = S /\ \A f \in S : w.files[f] = u.files[f]
    BY <1>3, <2>1, PartOfTree
  <2> QED BY <1>4, <2>1
<1> QED BY <1>2, <1>4, <1>5 DEF Grown

\* What a step may do to the target directory while a run goes on.
LEMMA TargetSteps ==
    ASSUME RunInv, TreeInv, pc # "idle", Next
    PROVE  /\ TreeOK(target')
           /\ \A f \in DOMAIN target'.files :
                 \/ f \in DOMAIN target.files /\ target'.files[f].rev = target.files[f].rev
                 \/ pc = "copy" /\ target'.files[f].rev = run.rev
<1>1. TreeOK(target)
  BY DEF TreeInv
<1>2. CASE target' = target
  BY <1>1, <1>2
<1>3. CASE RemoveTarget
  <2>1. CASE target' = NoTree
    <3>1. DOMAIN NoTree.files = {} /\ NoTree.dirs = {}
      BY DEF NoTree
    <3> QED BY <2>1, <3>1 DEF TreeOK, NoTree
  <2>2. ASSUME NEW f \in DOMAIN target.files,
               target' = [dirs |-> Parents(f), files |-> [g \in {f} |-> target.files[g]]]
        PROVE  TreeOK(target') /\ DOMAIN target'.files = {f} /\ target'.files[f] = target.files[f]
    <3>1. Plain(f) /\ IsText(target.files[f])
      BY <1>1 DEF TreeOK
    <3>2. \A x \in Parents(f) : Plain(x) /\ Parents(x) \subseteq Parents(f)
      BY <3>1, ParentsOf
    <3>3. f \notin Parents(f)
      BY <3>1, NotOwnParent
    <3>4. /\ target'.dirs = Parents(f) /\ DOMAIN target'.files = {f}
          /\ target'.files[f] = target.files[f]
          /\ target' = [dirs |-> target'.dirs, files |-> target'.files]
      BY <2>2
    <3> QED BY <3>1, <3>2, <3>3, <3>4 DEF TreeOK
  <2> QED BY <1>3, <2>1, <2>2 DEF RemoveTarget
<1>4. CASE CopyItem
  <2>1. target' = CopyOfItem.tree /\ pc = "copy"
    BY <1>4 DEF CopyItem
  <2> QED BY <2>1, ItemGrows DEF Grown
<1>5. CASE ApplyPatch
  <2>1. target' = Patch(target, Item, Head(run.todo)).tree
    BY <1>5 DEF ApplyPatch
  <2> QED BY <1>1, <2>1, PatchKeeps
<1>6. CASE pc = "copy" /\ target' \in PartOfCopy
  BY <1>6, PartGrows DEF Grown
<1>7. \/ target' = target \/ RemoveTarget \/ CopyItem \/ ApplyPatch
      \/ pc = "copy" /\ target' \in PartOfCopy
  <2>1. Fail => target' = target \/ (pc = "copy" /\ target' \in PartOfCopy)
    BY DEF Fail
  <2>2. ~Reset
    BY DEF Reset
  <2> QED BY <2>1, <2>2
          DEF Next, Step, Start, Unlink, FetchPatches, ExportPatch, Clone, NextItem, Truncate,
              WriteLock, Stage, Commit, Finish, World, Push, Rebase, Edit, files
<1> QED BY <1>2, <1>3, <1>4, <1>5, <1>6, <1>7

\* Every step keeps the target directory a tree.
LEMMA TreeStep ==
    /\ Init => TreeInv
    /\ RunInv /\ TreeInv /\ [Next]_vars => TreeInv'
<1>1. ASSUME Init PROVE TreeInv
  <2>1. DOMAIN NoTree.files = {} /\ NoTree.dirs = {} /\ NoTree = [dirs |-> NoTree.dirs, files |-> NoTree.files]
    BY DEF NoTree
  <2>2. TreeOK(target)
    BY <1>1, <2>1 DEF Init, TreeOK
  <2>3. head.files = <<>> /\ index.files = <<>> /\ DOMAIN <<>> = {}
    BY <1>1 DEF Init
  <2>4. run.item = 0 /\ pc = "idle" /\ faults = 0 /\ runs = 0
    BY <1>1 DEF Init, NoRun
  <2> QED BY <2>2, <2>3, <2>4, VendorAssumption DEF TreeInv, FilesOK
<1>2. ASSUME RunInv, TreeInv, UNCHANGED vars PROVE TreeInv'
  BY <1>2 DEF TreeInv, vars, outside, files, git, bounds
<1>3. ASSUME RunInv, TreeInv, Next PROVE TreeInv'
  <2>1. TreeOK(target')
    <3>1. CASE pc # "idle"
      BY <1>3, <3>1, TargetSteps
    <3>2. CASE pc = "idle"
      <4>1. target' = target \/ target' = [files |-> head.files, dirs |-> Dirs(head.files)]
        BY <1>3, <3>2
           DEF Next, Step, Start, Unlink, FetchPatches, ExportPatch, Clone, RemoveTarget, NextItem,
               CopyItem, ApplyPatch, Truncate, WriteLock, Stage, Commit, Finish, Fail, World, Push,
               Rebase, Edit, Reset, files
      <4> QED BY <1>3, <4>1, DirsMakeTree DEF TreeInv
    <3> QED BY <3>1, <3>2
  <2>2. FilesOK(index'.files) /\ FilesOK(head'.files)
    <3>1. \/ index' = index \/ index' = head \/ index' = Added
      BY <1>3
         DEF Next, Step, Start, Unlink, FetchPatches, ExportPatch, Clone, RemoveTarget, NextItem,
             CopyItem, ApplyPatch, Truncate, WriteLock, Stage, Commit, Finish, Fail, World, Push,
             Rebase, Edit, Reset, git
    <3>2. \/ head' = head \/ head' = index
      BY <1>3
         DEF Next, Step, Start, Unlink, FetchPatches, ExportPatch, Clone, RemoveTarget, NextItem,
             CopyItem, ApplyPatch, Truncate, WriteLock, Stage, Commit, Finish, Fail, World, Push,
             Rebase, Edit, Reset, git
    <3>3. FilesOK(Added.files)
      <4>1. Added.files = ToCommit /\ {f \in DOMAIN target.files : Tracked(f)} \in SUBSET DOMAIN target.files
        BY DEF Added
      <4> QED BY <1>3, <4>1, TreeFiles DEF ToCommit, TreeInv
    <3> QED BY <1>3, <3>1, <3>2, <3>3 DEF TreeInv
  <2>3. run'.item \in Nat /\ (pc' = "copy" => run'.item \in DOMAIN Items(run'.desc))
    <3>1. CASE NextItem
      <4>1. CASE run.item < Len(Items(run.desc)) /\ run' = [run EXCEPT !.item = @ + 1]
        <5>1. run'.item = run.item + 1 /\ run'.desc = run.desc
          BY <1>3, <4>1 DEF RunInv, Records
        <5>2. Accepted(run.desc) /\ Typed(run.desc)
          BY <1>3, <3>1 DEF NextItem, RunInv, Started
        <5>3. Len(Items(run.desc)) \in Nat /\ DOMAIN Items(run.desc) = 1 .. Len(Items(run.desc))
          BY <5>2, ItemsLead
        <5>4. run.item \in Nat
          BY <1>3 DEF TreeInv
        <5> QED BY <4>1, <5>1, <5>3, <5>4
      <4>2. CASE run' = run /\ pc' # "copy"
        BY <1>3, <4>2 DEF TreeInv
      <4> QED BY <3>1, <4>1, <4>2 DEF NextItem, Goes
    <3>2. CASE World
      BY <1>3, <3>2 DEF World, Push, Rebase, Edit, Reset, TreeInv
    <3>3. CASE ~NextItem /\ ~World
      <4>1. run'.item = run.item \/ run'.item = 0
        <5>1. CASE \E a \in Argument : Start(a)
          BY <5>1 DEF Start, NoRun
        <5>2. CASE Stops
          BY <5>2 DEF Stops, NoRun
        <5>3. CASE run' = run
          BY <5>3
        <5>4. CASE FetchPatches \/ ExportPatch \/ Clone \/ RemoveTarget \/ CopyItem \/ ApplyPatch
          <6>1. /\ \A t : [run EXCEPT !.todo = t].item = run.item
                /\ \A k : [run EXCEPT !.kept = k].item = run.item
                /\ \A v, k : [run EXCEPT !.rev = v, !.known = k].item = run.item
            BY <1>3 DEF RunInv, Records
          <6>2. \/ Stops \/ run' = run
                \/ \E t : run' = [run EXCEPT !.todo = t]
                \/ \E k : run' = [run EXCEPT !.kept = k]
                \/ \E v, k : run' = [run EXCEPT !.rev = v, !.known = k]
            BY <5>4, Zenon
               DEF FetchPatches, ExportPatch, Clone, RemoveTarget, CopyItem, ApplyPatch, Goes
          <6>3. ASSUME NEW t, run' = [run EXCEPT !.todo = t] PROVE run'.item = run.item
            BY <6>1, <6>3
          <6>4. ASSUME NEW k, run' = [run EXCEPT !.kept = k] PROVE run'.item = run.item
            BY <6>1, <6>4
          <6>5. ASSUME NEW v, NEW k, run' = [run EXCEPT !.rev = v, !.known = k]
                PROVE  run'.item = run.item
            BY <6>1, <6>5
          <6> QED BY <5>2, <5>3, <6>2, <6>3, <6>4, <6>5
        <5> QED BY <1>3, <3>3, <5>1, <5>2, <5>3, <5>4
                DEF Next, Step, Unlink, Truncate, WriteLock, Stage, Commit, Finish, Fail, Goes
      <4>2. pc' # "copy"
        BY <1>3, <3>3
           DEF Next, Step, Start, Unlink, FetchPatches, ExportPatch, Clone, RemoveTarget,
               CopyItem, ApplyPatch, Truncate, WriteLock, Stage, Commit, Finish, Fail, Stops, Goes
      <4> QED BY <1>3, <4>1, <4>2 DEF TreeInv
    <3> QED BY <3>1, <3>2, <3>3
  <2>4. faults' \in 0 .. MaxFaults /\ runs' \in 0 .. MaxRuns
    <3>1. \/ faults' = faults
          \/ faults < MaxFaults /\ faults' = faults + 1
      BY <1>3
         DEF Next, Step, Start, Unlink, FetchPatches, ExportPatch, Clone, RemoveTarget, NextItem,
             CopyItem, ApplyPatch, Truncate, WriteLock, Stage, Commit, Finish, Fail, World, Push,
             Rebase, Edit, Reset, bounds
    <3>2. \/ runs' = runs
          \/ runs < MaxRuns /\ runs' = runs + 1
      BY <1>3
         DEF Next, Step, Start, Unlink, FetchPatches, ExportPatch, Clone, RemoveTarget, NextItem,
             CopyItem, ApplyPatch, Truncate, WriteLock, Stage, Commit, Finish, Fail, World, Push,
             Rebase, Edit, Reset, bounds
    <3> QED BY <1>3, <3>1, <3>2, VendorAssumption DEF TreeInv
  <2> QED BY <2>1, <2>2, <2>3, <2>4 DEF TreeInv
<1> QED BY <1>1, <1>2, <1>3

\* Both invariants hold together.
LEMMA TreeInvariant == Spec => [](RunInv /\ TreeInv)
BY RunStep, TreeStep, PTL DEF Spec

\* Whatever runs, failures and resets come one after the other, the target
\* directory stays a tree, the lock file is absent, torn or an upstream, and
\* the run has a description that was accepted.
THEOREM TypeCorrect == Spec => []TypeOK
<1>1. RunInv /\ TreeInv => TypeOK
  <2> SUFFICES ASSUME RunInv, TreeInv PROVE TypeOK
    OBVIOUS
  <2>1. \A u \in Url : remote[u] # <<>> /\ Range(remote[u]) \subseteq Rev
    <3> TAKE u \in Url
    <3>1. remote[u] \in Seq(Rev) /\ remote[u] # <<>>
      BY DEF RunInv, WorldOK
    <3> QED BY <3>1 DEF Range
  <2>2. lock = None \/ lock = Torn \/ LockOK(lock)
    BY UpstreamThere DEF RunInv, Records, LockFile, LockOK
  <2>3. /\ \A f \in DOMAIN target.files :
              target.files[f].rev \in Rev /\ Parents(f) \subseteq target.dirs
        /\ target.dirs \cap DOMAIN target.files = {}
    BY DEF TreeInv, TreeOK, IsText
  <2>4. pc # "idle" => Accepted(run.desc) /\ UpstreamOK(run.upstream)
    BY UpstreamThere DEF RunInv, Started
  <2> QED BY <2>1, <2>2, <2>3, <2>4 DEF TypeOK, RunInv, WorldOK, TreeInv, Point, Cloned
<1> QED BY <1>1, TreeInvariant, PTL

\* No mapping that the checks of the description let through, no patch and no
\* copy that stops half-way puts anything outside of the target directory.
THEOREM NothingLeavesTheTarget == Spec => []NothingOutside
<1>1. RunInv /\ TreeInv => NothingOutside
  BY PlainIsNormal DEF TreeInv, TreeOK, NothingOutside
<1> QED BY <1>1, TreeInvariant, PTL

\* Without --update neither the lock file nor a file of the target directory
\* moves to a revision other than the locked one.
THEOREM UpgradesAreAskedFor == Spec => NoSilentUpgrade
<1>1. ASSUME RunInv, TreeInv, Next, pc # "idle", ~run.args.update
      PROVE  /\ lock' = lock
             /\ \A f \in DOMAIN target'.files :
                   \/ f \in DOMAIN target.files /\ target'.files[f].rev = target.files[f].rev
                   \/ target'.files[f].rev = lock.rev
  <2>1. lock' = lock
    <3>1. pc \notin {"truncate", "write"}
      BY <1>1 DEF RunInv, HasLocked
    <3> QED BY <1>1, <3>1
            DEF Next, Step, Start, Unlink, FetchPatches, ExportPatch, Clone, RemoveTarget, NextItem,
                CopyItem, ApplyPatch, Truncate, WriteLock, Stage, Commit, Finish, Fail, World, Push,
                Rebase, Edit, Reset, files
  <2>2. pc = "copy" => run.rev = lock.rev
    BY <1>1 DEF RunInv, Started, HasClone, Cloned
  <2> QED BY <1>1, <2>1, <2>2, TargetSteps
<1>2. RunInv /\ TreeInv /\ [Next]_vars =>
         [pc # "idle" /\ ~run.args.update =>
          /\ lock' = lock
          /\ \A f \in DOMAIN target'.files :
                \/ f \in DOMAIN target.files /\ target'.files[f].rev = target.files[f].rev
                \/ target'.files[f].rev = lock.rev]_vars
  BY <1>1
<1> QED BY <1>2, TreeInvariant, PTL DEF Spec, NoSilentUpgrade

-----------------------------------------------------------------------------
(* Patches, sorted by number.                                              *)

Numbered(S) ==
    /\ IsFiniteSet(S) /\ \A p \in S : p.n \in Nat
    /\ \A p, q \in S : p.n = q.n => p = q

Sorted(s) == \A i, j \in DOMAIN s : i < j => s[i].n < s[j].n

\* One of them has the smallest number.
LEMMA FirstThere ==
    ASSUME NEW S, Numbered(S), S # {}
    PROVE  \E x \in S : \A y \in S \ {x} : x.n < y.n
<1> DEFINE N == {p.n : p \in S}
           R == OpToRel(<, Nat)
<1>1. N \subseteq Nat /\ N # {}
  BY DEF Numbered
<1>2. IsWellFoundedOn(R, Nat)
  BY NatLessThanWellFounded
<1> HIDE DEF R
<1>3. PICK m \in N : \A k \in N : <<k, m>> \notin R
  BY <1>1, <1>2, WFMin, Zenon
<1>4. PICK x \in S : m = x.n
  OBVIOUS
<1>5. ASSUME NEW y \in S \ {x} PROVE x.n < y.n
  <2>1. ~(y.n < x.n)
    BY <1>1, <1>3, <1>4 DEF R, OpToRel
  <2>2. x.n \in Nat /\ y.n \in Nat /\ x.n # y.n
    BY DEF Numbered
  <2> QED BY <2>1, <2>2
<1> QED BY <1>5

\* They can be sorted.
LEMMA OrderThere ==
    ASSUME NEW S, Numbered(S)
    PROVE  \E s \in [1 .. Cardinality(S) -> S] : Sorted(s)
<1> DEFINE T == {k \in Nat : \A V \in SUBSET S :
                    Cardinality(V) = k => \E s \in [1 .. k -> V] : Sorted(s)}
<1>1. 0 \in T
  <2> SUFFICES ASSUME NEW V \in SUBSET S PROVE \E s \in [1 .. 0 -> V] : Sorted(s)
    OBVIOUS
  <2>1. [i \in 1 .. 0 |-> 0] \in [1 .. 0 -> V] /\ Sorted([i \in 1 .. 0 |-> 0])
    BY DEF Sorted
  <2> QED BY <2>1
<1>2. ASSUME NEW k \in T PROVE k + 1 \in T
  <2> SUFFICES ASSUME NEW V \in SUBSET S, Cardinality(V) = k + 1
               PROVE  \E s \in [1 .. k + 1 -> V] : Sorted(s)
    OBVIOUS
  <2>1. k \in Nat /\ \A U \in SUBSET S : Cardinality(U) = k => \E s \in [1 .. k -> U] : Sorted(s)
    OBVIOUS
  <2>2. Numbered(V)
    BY FS_Subset DEF Numbered
  <2>3. V # {}
    BY <2>1, FS_EmptySet
  <2>4. PICK x \in V : \A y \in V \ {x} : x.n < y.n
    BY <2>2, <2>3, FirstThere
  <2>5. Cardinality(V \ {x}) = k
    <3>1. Cardinality(V \ {x}) = Cardinality(V) - 1
      BY <2>2, FS_RemoveElement DEF Numbered
    <3> QED BY <2>1, <3>1
  <2>6. PICK s \in [1 .. k -> V \ {x}] : Sorted(s)
    BY <2>1, <2>5
  <2> DEFINE t == [i \in 1 .. k + 1 |-> IF i = 1 THEN x ELSE s[i - 1]]
  <2>7. t \in [1 .. k + 1 -> V]
    <3>1. ASSUME NEW i \in 1 .. k + 1, i # 1 PROVE s[i - 1] \in V
      <4>1. i - 1 \in 1 .. k
        BY <2>1, <3>1
      <4> QED BY <4>1
    <3> QED BY <3>1
  <2>8. ASSUME NEW i \in 1 .. k + 1, NEW j \in 1 .. k + 1, i < j PROVE t[i].n < t[j].n
    <3>1. j - 1 \in 1 .. k /\ j # 1
      BY <2>1, <2>8
    <3>2. t[j] = s[j - 1] /\ s[j - 1] \in V \ {x}
      BY <3>1
    <3>3. CASE i = 1
      BY <2>4, <3>2, <3>3
    <3>4. CASE i # 1
      <4>1. i - 1 \in 1 .. k /\ i - 1 < j - 1
        BY <2>1, <2>8, <3>4
      <4>2. s[i - 1].n < s[j - 1].n
        BY <2>6, <3>1, <4>1 DEF Sorted
      <4> QED BY <3>2, <3>4, <4>2
    <3> QED BY <3>3, <3>4
  <2>9. Sorted(t)
    BY <2>8 DEF Sorted
  <2> HIDE DEF t
  <2> QED BY <2>7, <2>9
<1> HIDE DEF T
<1>3. Cardinality(S) \in T
  <2>1. T \in SUBSET Nat
    BY DEF T
  <2>2. Cardinality(S) \in Nat
    BY FS_CardinalityType DEF Numbered
  <2> QED BY <1>1, <1>2, <2>1, <2>2, CountUp
<1> QED BY <1>3 DEF T

\* Sorted, none of them is missing.
LEMMA InOrderHasAll ==
    ASSUME NEW S, Numbered(S)
    PROVE  InOrder(S) \in Seq(S) /\ Range(InOrder(S)) = S /\ Sorted(InOrder(S))
<1>1. PICK n \in Nat : n = Cardinality(S)
  BY FS_CardinalityType DEF Numbered
<1>2. PICK s : s = InOrder(S)
  OBVIOUS
<1>3. s \in [1 .. n -> S] /\ Sorted(s)
  <2>1. \E t \in [1 .. n -> S] : Sorted(t)
    BY <1>1, OrderThere
  <2>2. s = CHOOSE t \in [1 .. n -> S] : Sorted(t)
    BY <1>1, <1>2 DEF InOrder, Sorted
  <2> QED BY <2>1, <2>2
<1>4. s \in Seq(S)
  BY <1>3, SeqDef
<1>5. s \in Injection(1 .. n, S)
  <2>1. ASSUME NEW i \in 1 .. n, NEW j \in 1 .. n, s[i] = s[j] PROVE i = j
    <3>1. s[i] \in S /\ s[i].n \in Nat
      BY <1>3 DEF Numbered
    <3>2. ~(i < j) /\ ~(j < i)
      BY <1>3, <2>1, <3>1 DEF Sorted
    <3> QED BY <3>2
  <2> QED BY <1>3, <2>1 DEF Injection, IsInjective
<1>6. s \in Surjection(1 .. n, S)
  <2>1. Cardinality(1 .. n) = n
    BY FS_Interval
  <2> QED BY <1>1, <1>5, <2>1, FS_Injection DEF Numbered
<1>7. Range(s) = S
  BY <1>3, <1>6 DEF Surjection, Range
<1> QED BY <1>2, <1>3, <1>4, <1>7

-----------------------------------------------------------------------------
(* The patches of a patch repository are all there or being replaced.      *)

Exported == {Export(r) : r \in Rev}

Whole(ps) == Unnamed(ps) = {} \/ Unnamed(ps) \in Exported

WholeInv ==
    /\ Whole(index.patches) /\ Whole(head.patches)
    /\ pc \in {"unlink", "fetch", "export"} => run.args.refresh
    /\ pc = "fetch" => Old = {}
    /\ pc = "export" =>
          \E E \in Exported : run.todo \in Seq(E) /\ Old \cup Range(run.todo) = E
    /\ pc \notin {"idle", "unlink", "fetch", "export"} /\ run.args.refresh => Old \in Exported

\* What a repository exports can be sorted.
LEMMA ExportedNumbered ==
    ASSUME NEW E \in Exported
    PROVE  Numbered(E) /\ \A p \in E : p.dir = <<>>
BY PatchAssumption DEF Exported, Numbered

\* A sequence has what its head and its tail have.
LEMMA HeadAndTail ==
    ASSUME NEW E, NEW s \in Seq(E), s # <<>>
    PROVE  /\ Head(s) \in E /\ Tail(s) \in Seq(E)
           /\ Range(s) = {Head(s)} \cup Range(Tail(s))
<1>0. Tail(s) \in Seq(E)
  OBVIOUS
<1> PICK rest \in Seq(E) : rest = Tail(s)
  BY <1>0, Zenon
<1>1. PICK n \in Nat : Len(s) = n + 1 /\ Len(rest) = n
  <2>1. Len(rest) = Len(s) - 1 /\ Len(s) \in Nat /\ Len(s) # 0
    OBVIOUS
  <2>2. Len(s) - 1 \in Nat /\ Len(s) = (Len(s) - 1) + 1
    BY <2>1
  <2> QED BY <2>1, <2>2
<1>2. DOMAIN s = 1 .. n + 1 /\ DOMAIN rest = 1 .. n
  BY <1>1
<1>3. Head(s) = s[1] /\ s[1] \in E /\ \A i \in 1 .. n : rest[i] = s[i + 1]
  BY <1>1
<1>4. Range(s) = {s[i] : i \in 1 .. n + 1} /\ Range(rest) = {rest[i] : i \in 1 .. n}
  BY <1>2, Zenon DEF Range
<1>5. ASSUME NEW i \in 1 .. n + 1 PROVE i = 1 \/ \E j \in 1 .. n : i = j + 1
  <2>1. i # 1 => i - 1 \in 1 .. n /\ i = (i - 1) + 1
    OBVIOUS
  <2> QED BY <2>1
<1>6. 1 \in 1 .. n + 1 /\ \A j \in 1 .. n : j + 1 \in 1 .. n + 1
  OBVIOUS
<1>7. Range(s) \subseteq {s[1]} \cup Range(rest)
  <2> SUFFICES ASSUME NEW i \in 1 .. n + 1 PROVE s[i] \in {s[1]} \cup Range(rest)
    BY <1>4, Zenon
  <2>1. CASE i = 1
    BY <2>1
  <2>2. ASSUME NEW j \in 1 .. n, i = j + 1 PROVE s[i] \in Range(rest)
    <3>1. s[i] = rest[j]
      BY <1>3, <2>2
    <3> QED BY <1>4, <3>1, Zenon
  <2> QED BY <1>5, <2>1, <2>2
<1>8. {s[1]} \cup Range(rest) \subseteq Range(s)
  <2>1. s[1] \in Range(s)
    BY <1>4, <1>6, Zenon
  <2>2. ASSUME NEW x \in Range(rest) PROVE x \in Range(s)
    <3>1. PICK j \in 1 .. n : x = rest[j]
      BY <1>4, Zenon
    <3> QED BY <1>3, <1>4, <1>6, <3>1, Zenon
  <2> QED BY <2>1, <2>2
<1> QED BY <1>3, <1>7, <1>8

\* The next patch comes in the place of an old one or beside it.
LEMMA ExportWhole == ASSUME RunInv, WholeInv, ExportPatch PROVE WholeInv'
<1>1. /\ pc = "export" /\ UNCHANGED <<index, head>> /\ run.args.refresh
  BY DEF ExportPatch, WholeInv, git
<1>2. PICK E \in Exported : run.todo \in Seq(E) /\ Old \cup Range(run.todo) = E
  BY <1>1 DEF WholeInv
<1>3. Numbered(E) /\ \A p \in E : p.dir = <<>>
  BY ExportedNumbered
<1>4. CASE run.todo = <<>>
  <2>1. pc' = "clone" /\ run' = run /\ patches' = patches
    BY <1>4 DEF ExportPatch, Goes
  <2>2. Range(run.todo) = {}
    BY <1>4 DEF Range
  <2>3. Old' = E
    BY <1>2, <2>1, <2>2 DEF Old
  <2> QED BY <1>1, <2>1, <2>3 DEF WholeInv
<1>5. CASE run.todo # <<>>
  <2>1. PICK new, rest : new = Head(run.todo) /\ rest = Tail(run.todo)
    OBVIOUS
  <2>2. new \in E /\ rest \in Seq(E) /\ Range(run.todo) = {new} \cup Range(rest)
    BY <1>2, <1>5, <2>1, HeadAndTail
  <2>3. /\ patches' = {p \in patches : ~SameFile(p, new)} \cup {new}
        /\ run' = [run EXCEPT !.todo = rest] /\ pc' = pc
    BY <1>5, <2>1 DEF ExportPatch
  <2>4. run'.todo = rest /\ run'.args = run.args
    BY <2>3 DEF RunInv, Records
  <2>5. Old' = Old \cup {new}
    <3>1. new.dir = <<>> /\ Old \subseteq E
      BY <1>2, <1>3, <2>2
    <3>2. \A p \in Old : p # new => ~SameFile(p, new)
      BY <1>3, <2>2, <3>1 DEF SameFile, Numbered
    <3> QED BY <2>3, <3>1, <3>2 DEF Old
  <2>6. Old' \cup Range(run'.todo) = E
    BY <1>2, <2>2, <2>4, <2>5
  <2> QED BY <1>1, <2>2, <2>3, <2>4, <2>6 DEF WholeInv
<1> QED BY <1>4, <1>5

\* The old patches go, the new ones are fetched.
LEMMA FetchWhole == ASSUME RunInv, WholeInv, Unlink \/ FetchPatches PROVE WholeInv'
<1>1. UNCHANGED <<index, head>> /\ pc \in {"unlink", "fetch"} /\ run.args.refresh
  BY DEF Unlink, FetchPatches, WholeInv, git
<1>2. CASE Unlink
  <2>1. CASE Old = {} /\ pc' = "fetch" /\ run' = run /\ patches' = patches
    <3>1. Old' = {}
      BY <2>1 DEF Old
    <3> QED BY <1>1, <2>1, <3>1 DEF WholeInv
  <2>2. CASE pc' = "unlink" /\ run' = run
    BY <1>1, <2>2 DEF WholeInv
  <2> QED BY <1>2, <2>1, <2>2 DEF Unlink, Goes
<1>3. CASE FetchPatches
  <2>1. pc = "fetch" /\ pc' = "export" /\ patches' = patches
    BY <1>3 DEF FetchPatches, files
  <2>2. run'.todo = InOrder(Export(rebased)) /\ run'.args = run.args
    BY <1>3 DEF FetchPatches, RunInv, Records
  <2>3. Export(rebased) \in Exported
    BY DEF RunInv, WorldOK, Exported
  <2>4. run'.todo \in Seq(Export(rebased)) /\ Range(run'.todo) = Export(rebased)
    BY <2>2, <2>3, ExportedNumbered, InOrderHasAll
  <2>5. Old' = {}
    BY <2>1 DEF WholeInv, Old
  <2> QED BY <1>1, <2>1, <2>2, <2>3, <2>4, <2>5 DEF WholeInv
<1> QED BY <1>2, <1>3

\* Patches are replaced by all of the new ones before anything is committed.
LEMMA WholeStep ==
    /\ Init => WholeInv
    /\ RunInv /\ WholeInv /\ [Next]_vars => WholeInv'
<1>1. ASSUME Init PROVE WholeInv
  <2>1. Unnamed(HandMade) = {}
    BY PatchAssumption DEF Unnamed
  <2> QED BY <1>1, <2>1 DEF Init, WholeInv, Whole
<1>2. ASSUME RunInv, WholeInv, UNCHANGED vars PROVE WholeInv'
  BY <1>2 DEF WholeInv, vars, outside, files, git, Old
<1>3. ASSUME RunInv, WholeInv, NEW a \in Argument, Start(a) PROVE WholeInv'
  <2>1. /\ pc' = (IF a.refresh THEN "unlink" ELSE "clone") /\ UNCHANGED <<patches, index, head>>
    BY <1>3 DEF Start, files, git
  <2>2. run'.args.refresh = a.refresh
    <3>1. PICK v : run'.args = [a EXCEPT !.update = v]
      BY <1>3 DEF Start, NoRun
    <3> QED BY <3>1, InputAssumption
  <2> QED BY <1>3, <2>1, <2>2 DEF WholeInv
<1>4. ASSUME RunInv, WholeInv, Stops, UNCHANGED <<patches, index, head>> PROVE WholeInv'
  BY <1>4 DEF WholeInv, Stops
<1>5. ASSUME RunInv, WholeInv, UNCHANGED <<patches, index, head>>, run'.args = run.args,
             pc \notin {"idle", "unlink", "fetch", "export"},
             pc' \notin {"idle", "unlink", "fetch", "export"}
      PROVE  WholeInv'
  BY <1>5 DEF WholeInv, Old
<1>6. ASSUME RunInv, WholeInv,
             Clone \/ RemoveTarget \/ NextItem \/ CopyItem \/ ApplyPatch \/ Truncate \/ WriteLock
      PROVE  WholeInv'
  <2>1. UNCHANGED <<patches, index, head>>
    BY <1>6 DEF Clone, RemoveTarget, NextItem, CopyItem, ApplyPatch, Truncate, WriteLock, files, git
  <2>2. \/ Stops
        \/ /\ pc \notin {"idle", "unlink", "fetch", "export"}
           /\ pc' \notin {"idle", "unlink", "fetch", "export"}
           /\ run'.args = run.args
    <3>1. /\ \A t : [run EXCEPT !.todo = t].args = run.args
          /\ \A i : [run EXCEPT !.item = i].args = run.args
          /\ \A k : [run EXCEPT !.kept = k].args = run.args
          /\ \A v, k : [run EXCEPT !.rev = v, !.known = k].args = run.args
      BY <1>6 DEF RunInv, Records
    <3>2. \/ Stops \/ run' = run
          \/ \E t : run' = [run EXCEPT !.todo = t]
          \/ \E i : run' = [run EXCEPT !.item = i]
          \/ \E k : run' = [run EXCEPT !.kept = k]
          \/ \E v, k : run' = [run EXCEPT !.rev = v, !.known = k]
      BY <1>6, Zenon
         DEF Clone, RemoveTarget, NextItem, CopyItem, ApplyPatch, Truncate, WriteLock, Goes
    <3>3. Stops \/ run'.args = run.args
      <4>1. ASSUME NEW t, run' = [run EXCEPT !.todo = t] PROVE run'.args = run.args
        BY <3>1, <4>1
      <4>2. ASSUME NEW i, run' = [run EXCEPT !.item = i] PROVE run'.args = run.args
        BY <3>1, <4>2
      <4>3. ASSUME NEW k, run' = [run EXCEPT !.kept = k] PROVE run'.args = run.args
        BY <3>1, <4>3
      <4>4. ASSUME NEW v, NEW k, run' = [run EXCEPT !.rev = v, !.known = k] PROVE run'.args = run.args
        BY <3>1, <4>4
      <4>5. run' = run => run'.args = run.args
        OBVIOUS
      <4> QED BY <3>2, <4>1, <4>2, <4>3, <4>4, <4>5
    <3>4. \/ Stops
          \/ /\ pc \notin {"idle", "unlink", "fetch", "export"}
             /\ pc' \notin {"idle", "unlink", "fetch", "export"}
      BY <1>6
         DEF Clone, RemoveTarget, NextItem, CopyItem, ApplyPatch, Truncate, WriteLock, Goes
    <3> QED BY <3>3, <3>4
  <2> QED BY <1>4, <1>5, <1>6, <2>1, <2>2
<1>7. ASSUME RunInv, WholeInv, Stage PROVE WholeInv'
  <2>1. CASE index' = index
    <3>1. UNCHANGED <<patches, index, head>>
      BY <1>7, <2>1 DEF Stage, files
    <3>2. Stops \/ (pc = "stage" /\ pc' \in {"done", "commit"} /\ run' = run)
      BY <1>7 DEF Stage, Goes
    <3> QED BY <1>4, <1>5, <1>7, <3>1, <3>2
  <2>2. CASE index' = Added /\ pc = "stage" /\ pc' = "commit" /\ run' = run
    <3>1. patches' = patches /\ head' = head /\ Old' = Old
      BY <1>7 DEF Stage, files, Old
    <3>2. run.args.refresh => Unnamed(patches) \in Exported
      BY <1>7, <2>2 DEF WholeInv, Old, Unnamed
    <3>3. Whole(Added.patches)
      BY <1>7, <3>2 DEF Added, PatchesToCommit, Whole, WholeInv
    <3> QED BY <1>7, <2>2, <3>1, <3>3 DEF WholeInv
  <2> QED BY <1>7, <2>1, <2>2 DEF Stage, Goes
<1>8. ASSUME RunInv, WholeInv, Commit PROVE WholeInv'
  <2>1. /\ pc = "commit" /\ pc' = "done" /\ run' = run /\ patches' = patches /\ index' = index
        /\ head' \in {index, head}
    BY <1>8 DEF Commit, Goes, files
  <2>2. Old' = Old
    BY <2>1 DEF Old
  <2> QED BY <1>8, <2>1, <2>2 DEF WholeInv
<1>9. ASSUME RunInv, WholeInv, World PROVE WholeInv'
  <2>1. CASE Reset
    BY <1>9, <2>1 DEF Reset, WholeInv
  <2>2. CASE ~Reset
    <3>1. UNCHANGED <<pc, run, patches, index, head>>
      BY <1>9, <2>2 DEF World, Push, Rebase, Edit, files, git
    <3> QED BY <1>9, <3>1 DEF WholeInv, Old
  <2> QED BY <2>1, <2>2
<1>10. ASSUME RunInv, WholeInv, Fail \/ Finish PROVE WholeInv'
  BY <1>4, <1>10 DEF Fail, Finish, files, git
<1> QED BY <1>1, <1>2, <1>3, <1>6, <1>7, <1>8, <1>9, <1>10, FetchWhole, ExportWhole DEF Next, Step

-----------------------------------------------------------------------------
(* What the target directory has in it when a run ends.                    *)

\* What a lock file may name.
Known(l) == l \in {None, Torn} \/ l.only_subdir \in Subdirs

\* Patches have a place of their own in their directories.
Orderly(ps) ==
    /\ IsFiniteSet(ps) /\ \A p \in ps : p.n \in Nat /\ p.file \in Seq(Name)
    /\ \A p, q \in ps : SameFile(p, q) => p = q

\* At all times the directories there are made by items, patches and locks are
\* as they should be, and a run is for what was asked for.
PlaceInv ==
    /\ target.dirs \subseteq Made
    /\ Dirs(index.files) \subseteq Made /\ Dirs(head.files) \subseteq Made
    /\ Orderly(patches) /\ Orderly(index.patches) /\ Orderly(head.patches)
    /\ Known(lock) /\ Known(index.lock) /\ Known(head.lock)
    /\ pc # "idle" => run.desc \in Asked /\ run.upstream.only_subdir \in Subdirs
    /\ pc \in {"unlink", "fetch", "export", "clone", "remove"} => run.item = 0
    /\ pc \in {"unlink", "fetch", "clone", "remove"} => run.todo = <<>>

-----------------------------------------------------------------------------
(* The import so far: item by item, and patch by patch of the item at hand.*)

CheckedOut == Checkout(run.rev, run.upstream.only_subdir)
Mapping == Items(run.desc)
Excluded == Excludes(run.desc)

\* Item i puts a file to q.
Puts(i, q) == Source(CheckedOut, Mapping[i], q, Excluded) # {}

Importing == {"next", "copy"}
Imported == {"truncate", "write", "stage", "commit", "done"}

\* How many items have been copied.
Count == IF pc = "copy" THEN run.item - 1 ELSE run.item

\* The item that put what is there.
LastPut(i, q) == i \in 1 .. Count /\ Puts(i, q) /\ \A j \in i + 1 .. Count : ~Puts(j, q)

\* The patches of an item, those to a file, and those not yet applied.
Of(i) == {p \in patches : p.dir = Mapping[i].patch_dir}
To(i, q) == {p \in Of(i) : q = Mapping[i].to \o p.file}
Waiting(i) == IF i = run.item THEN Range(run.todo) ELSE {}

NumbersOf(s) == [i \in DOMAIN s |-> s[i].n]

\* The patches to come are the last ones of the item, in order.
TodoInv ==
    /\ pc = "copy" \/ run.item = 0 => run.todo = <<>>
    /\ pc = "next" /\ run.item # 0 =>
          /\ run.todo \in Seq(Of(run.item)) /\ Sorted(run.todo)
          /\ \A p \in Of(run.item) \ Range(run.todo), i \in DOMAIN run.todo : p.n < run.todo[i].n

\* A file is as the last item that put it there and its patches so far say, but
\* for what rmtree left; below the destination of the item at hand all is its own.
TextInv ==
    /\ \A i \in 1 .. Count : \A q \in Seq(Name) :
          LastPut(i, q) =>
             /\ q \in DOMAIN target.files
             /\ target.files[q] =
                   [rev |-> run.rev, patched |-> NumbersOf(InOrder(To(i, q) \ Waiting(i)))]
    /\ \A q \in DOMAIN target.files : q \in run.kept \/ \E i \in 1 .. Count : Puts(i, q)
    /\ pc = "next" /\ run.item # 0 =>
          \A q \in DOMAIN target.files : Within(q, Mapping[run.item].to) => Puts(run.item, q)

ImportInv ==
    /\ pc \in Importing \cup Imported => run.item \in 0 .. Len(Mapping) /\ TodoInv /\ TextInv
    /\ pc \in Imported => run.item = Len(Mapping) /\ run.todo = <<>>

\* What is staged.
StageInv ==
    /\ pc \notin {"idle", "commit", "done"} /\ run.args.commit =>
          /\ index.patches = head.patches
          /\ ~run.args.refresh => head.patches \subseteq patches
    /\ pc = "commit" =>
          /\ index.patches = IF run.args.refresh THEN patches ELSE head.patches
          /\ ~run.args.refresh => head.patches \subseteq patches
          /\ DOMAIN target.files \ GitIgnored \subseteq DOMAIN index.files
          /\ \A f \in DOMAIN index.files :
                f \in DOMAIN target.files /\ index.files[f] = target.files[f]

-----------------------------------------------------------------------------
(* Sorting.                                                                *)

\* Of two sorted sequences of the same elements one goes as far as the other.
LEMMA SortedAgree ==
    ASSUME NEW S, Numbered(S), NEW s \in Seq(S), NEW t \in Seq(S),
           Sorted(s), Sorted(t), Range(s) = S, Range(t) = S
    PROVE  Len(s) <= Len(t) /\ \A i \in 1 .. Len(s) : s[i] = t[i]
<1> DEFINE T == {k \in Nat : k <= Len(s) => k <= Len(t) /\ \A i \in 1 .. k : s[i] = t[i]}
<1>1. PICK m \in Nat, n \in Nat : m = Len(s) /\ n = Len(t)
  OBVIOUS
<1>2. /\ \A i \in 1 .. m : s[i] \in S /\ \E j \in 1 .. n : s[i] = t[j]
      /\ \A j \in 1 .. n : t[j] \in S /\ \E i \in 1 .. m : t[j] = s[i]
  BY <1>1 DEF Range
<1>3. /\ \A i, j \in 1 .. m : i < j => s[i].n < s[j].n
      /\ \A i, j \in 1 .. n : i < j => t[i].n < t[j].n
      /\ \A p \in S : p.n \in Nat
      /\ \A p, q \in S : p.n = q.n => p = q
  BY <1>1 DEF Sorted, Numbered
<1>4. 0 \in T
  BY <1>1
<1>5. ASSUME NEW k \in T PROVE k + 1 \in T
  <2> SUFFICES ASSUME k + 1 <= m PROVE k + 1 <= n /\ \A i \in 1 .. k + 1 : s[i] = t[i]
    BY <1>1
  <2>1. k \in Nat /\ k <= n /\ \A i \in 1 .. k : s[i] = t[i]
    BY <1>1
  <2>2. k + 1 \in 1 .. m
    BY <1>1, <2>1
  <2>3. PICK j \in 1 .. n : s[k + 1] = t[j]
    BY <1>2, <2>2
  <2>4. j > k
    <3> SUFFICES ASSUME j \in 1 .. k PROVE FALSE
      BY <1>1, <2>1
    <3>1. j \in 1 .. m /\ j < k + 1 /\ s[j] = s[k + 1]
      BY <1>1, <2>1, <2>2, <2>3
    <3>2. s[j].n < s[k + 1].n /\ s[j].n \in Nat
      BY <1>2, <1>3, <2>2, <3>1
    <3> QED BY <3>1, <3>2
  <2>5. k + 1 \in 1 .. n
    BY <1>1, <2>1, <2>4
  <2>6. PICK i \in 1 .. m : t[k + 1] = s[i]
    BY <1>2, <2>5
  <2>7. i > k
    <3> SUFFICES ASSUME i \in 1 .. k PROVE FALSE
      BY <1>1, <2>1
    <3>1. i \in 1 .. n /\ i < k + 1 /\ t[i] = t[k + 1]
      BY <1>1, <2>1, <2>5, <2>6
    <3>2. t[i].n < t[k + 1].n /\ t[i].n \in Nat
      BY <1>2, <1>3, <2>5, <3>1
    <3> QED BY <3>1, <3>2
  <2>8. s[k + 1].n \in Nat /\ t[k + 1].n \in Nat
    BY <1>2, <1>3, <2>2, <2>5
  <2>9. s[k + 1].n <= t[k + 1].n
    <3>1. CASE i = k + 1
      BY <2>6, <2>8, <3>1
    <3>2. CASE k + 1 < i
      <4>1. s[k + 1].n < s[i].n
        BY <1>3, <2>2, <3>2
      <4> QED BY <2>6, <2>8, <4>1
    <3> QED BY <1>1, <2>1, <2>7, <3>1, <3>2
  <2>10. t[k + 1].n <= s[k + 1].n
    <3>1. CASE j = k + 1
      BY <2>3, <2>8, <3>1
    <3>2. CASE k + 1 < j
      <4>1. t[k + 1].n < t[j].n
        BY <1>3, <2>5, <3>2
      <4> QED BY <2>3, <2>8, <4>1
    <3> QED BY <1>1, <2>1, <2>4, <3>1, <3>2
  <2>11. s[k + 1] = t[k + 1]
    <3>1. s[k + 1].n = t[k + 1].n
      BY <2>8, <2>9, <2>10
    <3> QED BY <1>2, <1>3, <2>2, <2>5, <3>1
  <2> QED BY <2>1, <2>5, <2>11
<1> HIDE DEF T
<1>6. \A k \in Nat : k \in T
  <2>1. T \in SUBSET Nat
    BY DEF T
  <2> QED BY <1>4, <1>5, <2>1, CountUp
<1>7. m \in T
  BY <1>6
<1> QED BY <1>1, <1>7 DEF T

\* There is one order only.
LEMMA OneOrder ==
    ASSUME NEW S, Numbered(S), NEW s \in Seq(S), Sorted(s), Range(s) = S
    PROVE  InOrder(S) = s
<1>1. PICK t \in Seq(S) : t = InOrder(S) /\ Range(t) = S /\ Sorted(t)
  BY InOrderHasAll
<1>2. Len(s) <= Len(t) /\ \A i \in 1 .. Len(s) : s[i] = t[i]
  BY <1>1, SortedAgree
<1>3. Len(t) <= Len(s)
  BY <1>1, SortedAgree
<1> QED BY <1>1, <1>2, <1>3, SeqEqual

\* What comes after all of them comes last.
LEMMA OrderGrows ==
    ASSUME NEW S, NEW p, Numbered(S \cup {p}), \A x \in S : x.n < p.n
    PROVE  InOrder(S \cup {p}) = Append(InOrder(S), p)
<1>1. Numbered(S)
  BY FS_Subset DEF Numbered
<1>2. PICK s \in Seq(S) : s = InOrder(S) /\ Range(s) = S /\ Sorted(s)
  BY <1>1, InOrderHasAll
<1> DEFINE t == Append(s, p)
<1>3. s \in Seq(S \cup {p})
  BY <1>2
<1>4. t \in Seq(S \cup {p}) /\ Len(t) = Len(s) + 1 /\ t[Len(s) + 1] = p
      /\ \A i \in 1 .. Len(s) : t[i] = s[i]
  BY <1>3, AppendProperties
<1>5. PICK n \in Nat : n = Len(s)
  OBVIOUS
<1> HIDE DEF t
<1>6. DOMAIN t = 1 .. n + 1 /\ DOMAIN s = 1 .. n
  BY <1>4, <1>5
<1>7. Range(t) = S \cup {p}
  <2>1. \A i \in 1 .. n : t[i] = s[i] /\ s[i] \in S /\ i \in 1 .. n + 1
    BY <1>4, <1>5
  <2>2. \A x \in S : \E i \in 1 .. n : x = s[i]
    BY <1>2, <1>6 DEF Range
  <2>3. \A i \in 1 .. n + 1 : i \in 1 .. n \/ i = n + 1
    OBVIOUS
  <2> QED BY <1>4, <1>5, <1>6, <2>1, <2>2, <2>3 DEF Range
<1>8. Sorted(t)
  <2> SUFFICES ASSUME NEW i \in 1 .. n + 1, NEW j \in 1 .. n + 1, i < j PROVE t[i].n < t[j].n
    BY <1>6 DEF Sorted
  <2>1. i \in 1 .. n /\ t[i] = s[i] /\ s[i] \in S
    BY <1>4, <1>5
  <2>2. CASE j = n + 1
    BY <1>4, <1>5, <2>1, <2>2
  <2>3. CASE j # n + 1
    <3>1. j \in 1 .. n /\ t[j] = s[j]
      BY <1>4, <1>5, <2>3
    <3> QED BY <1>2, <1>6, <2>1, <3>1 DEF Sorted
  <2> QED BY <2>2, <2>3
<1>9. InOrder(S \cup {p}) = t
  BY <1>4, <1>7, <1>8, OneOrder
<1> QED BY <1>2, <1>9 DEF t

\* Nothing, sorted.
LEMMA OrderOfNone == InOrder({}) = <<>>
<1>1. Numbered({})
  BY FS_EmptySet DEF Numbered
<1>2. InOrder({}) \in Seq({})
  BY <1>1, InOrderHasAll
<1> QED BY <1>2

\* The numbers of some patches and of one more.
LEMMA NumbersGrow ==
    ASSUME NEW S, NEW s \in Seq(S), NEW p
    PROVE  NumbersOf(Append(s, p)) = Append(NumbersOf(s), p.n)
<1> DEFINE N == {x.n : x \in S \cup {p}}
           u == NumbersOf(s)
           v == NumbersOf(Append(s, p))
<1>1. s \in Seq(S \cup {p})
  OBVIOUS
<1>2. PICK n \in Nat : n = Len(s)
  OBVIOUS
<1>3. PICK t \in Seq(S \cup {p}) : t = Append(s, p)
  BY <1>1, AppendProperties
<1>4. Len(t) = n + 1 /\ t[n + 1] = p /\ \A i \in 1 .. n : t[i] = s[i]
  BY <1>1, <1>2, <1>3, AppendProperties
<1>5. u = [i \in 1 .. n |-> s[i].n] /\ v = [i \in 1 .. n + 1 |-> t[i].n]
  BY <1>1, <1>2, <1>3, <1>4 DEF NumbersOf
<1> HIDE DEF u, v
<1>6. \A i \in 1 .. n : s[i].n \in N
  BY <1>1, <1>2
<1>7. \A i \in 1 .. n + 1 : t[i].n \in N
  BY <1>3, <1>4
<1> HIDE DEF N
<1>8. u \in Seq(N) /\ Len(u) = n
  <2>1. u \in [1 .. n -> N]
    BY <1>5, <1>6
  <2>2. u \in Seq(N)
    BY <2>1, SeqDef
  <2> QED BY <1>5, <2>2
<1>9. v \in Seq(N) /\ Len(v) = n + 1
  <2>1. v \in [1 .. n + 1 -> N]
    BY <1>5, <1>7
  <2>2. v \in Seq(N)
    BY <2>1, SeqDef
  <2> QED BY <1>5, <2>2
<1>10. p.n \in N
  BY DEF N
<1>11. PICK w \in Seq(N) : w = Append(u, p.n)
  BY <1>8, <1>10, AppendProperties
<1>12. Len(w) = n + 1 /\ w[n + 1] = p.n /\ \A i \in 1 .. n : w[i] = u[i]
  BY <1>8, <1>10, <1>11, AppendProperties
<1>13. ASSUME NEW i \in 1 .. n + 1 PROVE v[i] = w[i]
  <2>1. CASE i = n + 1
    BY <1>4, <1>5, <1>12, <2>1
  <2>2. CASE i # n + 1
    <3>1. i \in 1 .. n
      BY <2>2
    <3> QED BY <1>4, <1>5, <1>12, <3>1
  <2> QED BY <2>1, <2>2
<1>14. v = w
  BY <1>9, <1>12, <1>13, SeqEqual
<1> QED BY <1>3, <1>11, <1>14 DEF u, v

-----------------------------------------------------------------------------
(* What is at all times.                                                   *)

\* A run that goes on keeps what it was asked for; only some steps change
\* the revision, the item at hand and the patches to come.
LEMMA RunKeeps ==
    ASSUME RunInv, Next, pc # "idle", pc' # "idle"
    PROVE  /\ run'.args = run.args /\ run'.desc = run.desc /\ run'.upstream = run.upstream
           /\ Clone \/ run'.rev = run.rev
           /\ NextItem \/ run'.item = run.item
           /\ FetchPatches \/ ExportPatch \/ CopyItem \/ ApplyPatch \/ run'.todo = run.todo
           /\ RemoveTarget \/ run'.kept = run.kept
<1> DEFINE Keeps(r) == r.args = run.args /\ r.desc = run.desc /\ r.upstream = run.upstream
<1>1. ASSUME NEW t, run' = [run EXCEPT !.todo = t]
      PROVE  Keeps(run') /\ run'.rev = run.rev /\ run'.item = run.item /\ run'.kept = run.kept
  BY <1>1 DEF RunInv, Records
<1>2. ASSUME NEW i, run' = [run EXCEPT !.item = i]
      PROVE  Keeps(run') /\ run'.rev = run.rev /\ run'.todo = run.todo /\ run'.kept = run.kept
  BY <1>2 DEF RunInv, Records
<1>3. ASSUME NEW k, run' = [run EXCEPT !.kept = k]
      PROVE  Keeps(run') /\ run'.rev = run.rev /\ run'.item = run.item /\ run'.todo = run.todo
  BY <1>3 DEF RunInv, Records
<1>4. ASSUME NEW v, NEW k, run' = [run EXCEPT !.rev = v, !.known = k]
      PROVE  Keeps(run') /\ run'.item = run.item /\ run'.todo = run.todo /\ run'.kept = run.kept
  BY <1>4 DEF RunInv, Records
<1>5. CASE run' = run
  BY <1>5
<1>6. \/ run' = run
      \/ (FetchPatches \/ ExportPatch \/ CopyItem \/ ApplyPatch) /\ \E t : run' = [run EXCEPT !.todo = t]
      \/ NextItem /\ \E i : run' = [run EXCEPT !.item = i]
      \/ RemoveTarget /\ \E k : run' = [run EXCEPT !.kept = k]
      \/ Clone /\ \E v, k : run' = [run EXCEPT !.rev = v, !.known = k]
  <2>1. FetchPatches => \E t : run' = [run EXCEPT !.todo = t]
    BY Zenon DEF FetchPatches
  <2>2. ExportPatch => run' = run \/ \E t : run' = [run EXCEPT !.todo = t]
    BY Zenon DEF ExportPatch, Goes
  <2>3. CopyItem => \E t : run' = [run EXCEPT !.todo = t]
    BY Zenon DEF CopyItem, Stops
  <2>4. ApplyPatch => \E t : run' = [run EXCEPT !.todo = t]
    BY Zenon DEF ApplyPatch, Stops
  <2>5. NextItem => run' = run \/ \E i : run' = [run EXCEPT !.item = i]
    BY Zenon DEF NextItem, Goes
  <2>6. RemoveTarget => run' = run \/ \E k : run' = [run EXCEPT !.kept = k]
    BY Zenon DEF RemoveTarget
  <2>7. Clone => \E v, k : run' = [run EXCEPT !.rev = v, !.known = k]
    BY Zenon DEF Clone, Stops
  <2>8. Unlink \/ Truncate \/ WriteLock \/ Stage \/ Commit \/ Finish \/ Fail \/ World => run' = run
    BY DEF Unlink, Truncate, WriteLock, Stage, Commit, Finish, Fail, World, Goes, Stops,
           Push, Rebase, Edit, Reset
  <2>9. \A a : ~Start(a)
    BY DEF Start
  <2> QED BY <2>1, <2>2, <2>3, <2>4, <2>5, <2>6, <2>7, <2>8, <2>9 DEF Next, Step
<1> HIDE DEF Keeps
<1>7. Keeps(run') /\ (run' = run \/ FetchPatches \/ ExportPatch \/ CopyItem \/ ApplyPatch
                                 \/ NextItem \/ RemoveTarget \/ Clone)
  BY <1>1, <1>2, <1>3, <1>4, <1>5, <1>6 DEF Keeps
<1>8. /\ Clone \/ run'.rev = run.rev
      /\ NextItem \/ run'.item = run.item
      /\ FetchPatches \/ ExportPatch \/ CopyItem \/ ApplyPatch \/ run'.todo = run.todo
      /\ RemoveTarget \/ run'.kept = run.kept
  BY <1>1, <1>2, <1>3, <1>4, <1>5, <1>6
<1> QED BY <1>7, <1>8 DEF Keeps

\* A copy makes the directories of its item.
LEMMA CopyMakes ==
    ASSUME NEW tree, NEW src, NEW item, NEW excludes, tree = [dirs |-> tree.dirs, files |-> tree.files]
    PROVE  Copy(tree, src, item, excludes).tree.dirs \subseteq tree.dirs \cup MadeBy(src, item, excludes)
<1> DEFINE made == MakeParents(tree, item.to)
           new == Copy(tree, src, item, excludes).tree
<1>1. made.dirs = tree.dirs \cup Parents(item.to) /\ made = [dirs |-> made.dirs, files |-> made.files]
  BY DEF MakeParents
<1> HIDE DEF made
<1>2. CASE ~CanMakeParents(tree, item.to)
  BY <1>2 DEF Copy
<1>3. CASE CanMakeParents(tree, item.to) /\ item.from \in DOMAIN src
  <2>1. new = CopyFile(made, src, item).tree
    BY <1>3 DEF Copy, made
  <2>2. CopyFile(made, src, item).tree.dirs = made.dirs
    BY <1>1 DEF CopyFile
  <2> QED BY <1>1, <2>1, <2>2 DEF MadeBy
<1>4. CASE CanMakeParents(tree, item.to) /\ item.from \notin DOMAIN src
  <2>1. new = CopyTree(made, src, item, excludes).tree
    BY <1>4 DEF Copy, made
  <2>2. CopyTree(made, src, item, excludes).tree.dirs
           \subseteq made.dirs \cup {Dest(item, d) : d \in CopiedDirs(src, item, excludes)}
    BY <1>1 DEF CopyTree
  <2> QED BY <1>1, <1>4, <2>1, <2>2 DEF MadeBy
<1> QED BY <1>2, <1>3, <1>4

\* The files of a run come from one of the checkouts, and an item of a description asked for.
LEMMA ItemMakes ==
    ASSUME RunInv, TreeInv, PlaceInv, pc = "copy"
    PROVE  /\ CheckedOut \in Checkouts /\ run.item \in DOMAIN Mapping /\ run.desc \in Asked
           /\ MadeBy(CheckedOut, Item, Excluded) \subseteq Made
<1>1. run.rev \in Rev /\ run.upstream.only_subdir \in Subdirs /\ run.desc \in Asked
  BY DEF RunInv, HasClone, Cloned, PlaceInv
<1>2. CheckedOut \in Checkouts
  BY <1>1 DEF CheckedOut, Checkouts
<1>3. run.item \in DOMAIN Mapping
  BY DEF TreeInv, Mapping
<1>4. MadeBy(CheckedOut, Item, Excluded) \subseteq Made
  <2> DEFINE By(e, src) == UNION {MadeBy(src, Items(e)[i], Excludes(e)) : i \in DOMAIN Items(e)}
  <2>1. MadeBy(CheckedOut, Item, Excluded) \subseteq By(run.desc, CheckedOut)
    BY <1>3 DEF Item, Mapping, Excluded
  <2> HIDE DEF By
  <2>2. By(run.desc, CheckedOut) \subseteq UNION {By(e, src) : e \in Asked, src \in Checkouts}
    BY <1>1, <1>2
  <2>3. Made = UNION {By(e, src) : e \in Asked, src \in Checkouts}
    BY DEF Made, By
  <2> QED BY <2>1, <2>2, <2>3
<1> QED BY <1>1, <1>2, <1>3, <1>4

\* What a copy makes of the target directory, and what a part of it makes.
LEMMA CopyStays ==
    ASSUME RunInv, TreeInv, PlaceInv, pc = "copy"
    PROVE  CopyOfItem.tree.dirs \subseteq Made /\ \A t \in PartOfCopy : t.dirs \subseteq Made
<1>1. CopyOfItem.tree.dirs \subseteq Made
  <2>1. target = [dirs |-> target.dirs, files |-> target.files]
    BY DEF TreeInv, TreeOK
  <2>2. CopyOfItem.tree.dirs \subseteq target.dirs \cup MadeBy(CheckedOut, Item, Excluded)
    BY <2>1, CopyMakes DEF CopyOfItem, CheckedOut, Excluded
  <2> QED BY <2>2, ItemMakes DEF PlaceInv
<1>2. \A t \in PartOfCopy : t.dirs = CopyOfItem.tree.dirs
  <2>1. TreeOK(CopyOfItem.tree)
    BY ItemGrows DEF Grown
  <2>2. CopyOfItem.tree = [dirs |-> CopyOfItem.tree.dirs, files |-> CopyOfItem.tree.files]
    BY <2>1 DEF TreeOK
  <2> QED BY <2>2 DEF PartOfCopy
<1> QED BY <1>1, <1>2

\* The directories of a tree are those its files are in, among others.
LEMMA DirsOfTree ==
    ASSUME NEW t, TreeOK(t), NEW S \in SUBSET DOMAIN t.files
    PROVE  Dirs(Restrict(t.files, S)) \subseteq t.dirs
<1>1. DOMAIN Restrict(t.files, S) = S
  BY DEF Restrict
<1>2. \A f \in S : Parents(f) \subseteq t.dirs
  BY DEF TreeOK
<1> QED BY <1>1, <1>2 DEF Dirs

\* Directories are made by items only.
LEMMA DirsKept ==
    ASSUME RunInv, TreeInv, PlaceInv, Next
    PROVE  /\ target'.dirs \subseteq Made
           /\ Dirs(index'.files) \subseteq Made /\ Dirs(head'.files) \subseteq Made
<1>1. \/ target' = target \/ RemoveTarget \/ CopyItem \/ ApplyPatch \/ Reset
      \/ pc = "copy" /\ target' \in PartOfCopy
  <2>1. Fail => target' = target \/ (pc = "copy" /\ target' \in PartOfCopy)
    BY DEF Fail
  <2> QED BY <2>1
          DEF Next, Step, Start, Unlink, FetchPatches, ExportPatch, Clone, NextItem, Truncate,
              WriteLock, Stage, Commit, Finish, World, Push, Rebase, Edit, files
<1>2. CASE RemoveTarget
  <2>1. ASSUME NEW f \in DOMAIN target.files PROVE Parents(f) \subseteq target.dirs
    BY DEF TreeInv, TreeOK
  <2>2. NoTree.dirs = {}
    BY DEF NoTree
  <2>3. target' = NoTree \/ \E f \in DOMAIN target.files : target'.dirs = Parents(f)
    <3>1. ASSUME NEW f, target' = [dirs |-> Parents(f), files |-> [g \in {f} |-> target.files[g]]]
          PROVE  target'.dirs = Parents(f)
      BY <3>1
    <3> QED BY <1>2, <3>1, Zenon DEF RemoveTarget
  <2> QED BY <1>2, <2>1, <2>2, <2>3 DEF RemoveTarget, PlaceInv, git
<1>3. CASE CopyItem
  BY <1>3, CopyStays DEF CopyItem, PlaceInv, git
<1>4. CASE ApplyPatch
  <2>1. target'.dirs = target.dirs
    <3>1. target = [dirs |-> target.dirs, files |-> target.files]
      BY DEF TreeInv, TreeOK
    <3>2. target' = Patch(target, Item, Head(run.todo)).tree
      BY <1>4 DEF ApplyPatch
    <3> QED BY <3>1, <3>2 DEF Patch
  <2> QED BY <1>4, <2>1 DEF ApplyPatch, PlaceInv, git
<1>5. CASE Reset
  BY <1>5 DEF Reset, PlaceInv
<1>6. CASE target' = target \/ (pc = "copy" /\ target' \in PartOfCopy)
  <2>1. target'.dirs \subseteq Made
    BY <1>6, CopyStays DEF PlaceInv
  <2>2. index' \in {index, head, Added} /\ head' \in {head, index}
    BY DEF Next, Step, Start, Unlink, FetchPatches, ExportPatch, Clone, RemoveTarget, NextItem,
           CopyItem, ApplyPatch, Truncate, WriteLock, Stage, Commit, Finish, Fail, World, Push,
           Rebase, Edit, Reset, git
  <2>3. Dirs(Added.files) \subseteq Made
    <3>1. Added.files = ToCommit /\ TreeOK(target) /\ target.dirs \subseteq Made
      BY DEF Added, TreeInv, PlaceInv
    <3>2. {f \in DOMAIN target.files : Tracked(f)} \in SUBSET DOMAIN target.files
      OBVIOUS
    <3> QED BY <3>1, <3>2, DirsOfTree DEF ToCommit
  <2> QED BY <2>1, <2>2, <2>3 DEF PlaceInv
<1> QED BY <1>1, <1>2, <1>3, <1>4, <1>5, <1>6

\* What is exported has its place, and so has what it was put into.
LEMMA ExportOrderly ==
    ASSUME NEW ps, Orderly(ps), NEW E \in Exported, NEW new \in E
    PROVE  Orderly({p \in ps : ~SameFile(p, new)} \cup {new})
<1> DEFINE rest == {p \in ps : ~SameFile(p, new)}
<1>1. new.n \in Nat /\ new.file \in Seq(Name)
  BY PatchAssumption DEF Exported
<1>2. IsFiniteSet(rest \cup {new})
  <2>1. IsFiniteSet(rest)
    BY FS_Subset DEF Orderly
  <2> QED BY <2>1, FS_AddElement
<1>3. \A p, q \in rest \cup {new} : SameFile(p, q) => p = q
  BY DEF Orderly, SameFile
<1> QED BY <1>1, <1>2, <1>3 DEF Orderly

\* Patches stay in their places.
LEMMA PatchesOrderly ==
    ASSUME RunInv, WholeInv, PlaceInv, Next
    PROVE  Orderly(patches') /\ Orderly(index'.patches) /\ Orderly(head'.patches)
<1>1. Orderly(patches')
  <2>1. CASE Unlink
    <3>1. patches' \subseteq patches
      BY <2>1 DEF Unlink, Old
    <3>2. Orderly(patches)
      BY DEF PlaceInv
    <3>3. IsFiniteSet(patches')
      BY <3>1, <3>2, FS_Subset DEF Orderly
    <3> QED BY <3>1, <3>2, <3>3 DEF Orderly
  <2>2. CASE ExportPatch
    <3>1. CASE patches' = patches
      BY <3>1 DEF PlaceInv
    <3>2. CASE /\ run.todo # <<>> /\ pc = "export"
               /\ patches' = {p \in patches : ~SameFile(p, Head(run.todo))} \cup {Head(run.todo)}
      <4>1. PICK E \in Exported : run.todo \in Seq(E)
        BY <3>2 DEF WholeInv
      <4>2. Head(run.todo) \in E
        BY <3>2, <4>1
      <4> QED BY <3>2, <4>2, ExportOrderly DEF PlaceInv
    <3> QED BY <2>2, <3>1, <3>2 DEF ExportPatch
  <2>3. CASE patches' \in {patches, head.patches}
    BY <2>3 DEF PlaceInv
  <2> QED BY <2>1, <2>2, <2>3
          DEF Next, Step, Start, FetchPatches, Clone, RemoveTarget, NextItem, CopyItem, ApplyPatch,
              Truncate, WriteLock, Stage, Commit, Finish, Fail, World, Push, Rebase, Edit, Reset, files
<1>2. index' \in {index, head, Added} /\ head' \in {head, index}
  BY DEF Next, Step, Start, Unlink, FetchPatches, ExportPatch, Clone, RemoveTarget, NextItem,
         CopyItem, ApplyPatch, Truncate, WriteLock, Stage, Commit, Finish, Fail, World, Push,
         Rebase, Edit, Reset, git
<1>3. Added.patches \in {patches, index.patches}
  BY DEF Added, PatchesToCommit
<1> QED BY <1>1, <1>2, <1>3 DEF PlaceInv

\* Lock files name subdirectories that a description asked for.
LEMMA LocksKnown ==
    ASSUME RunInv, PlaceInv, Next
    PROVE  Known(lock') /\ Known(index'.lock) /\ Known(head'.lock)
<1>1. \/ lock' \in {lock, Torn, head.lock}
      \/ pc = "write" /\ lock' = LockData
  BY DEF Next, Step, Start, Unlink, FetchPatches, ExportPatch, Clone, RemoveTarget, NextItem,
         CopyItem, ApplyPatch, Truncate, WriteLock, Stage, Commit, Finish, Fail, World, Push,
         Rebase, Edit, Reset, files
<1>2. pc = "write" => Known(LockData)
  <2> SUFFICES ASSUME pc = "write" PROVE Known(LockData)
    OBVIOUS
  <2>1. run.upstream.only_subdir \in Subdirs /\ run.upstream \in UpstreamData
    BY DEF PlaceInv, RunInv, Started
  <2>2. LockData.only_subdir = run.upstream.only_subdir
    BY <2>1 DEF LockData, UpstreamData
  <2> QED BY <2>1, <2>2 DEF Known
<1>3. Known(lock')
  BY <1>1, <1>2 DEF PlaceInv, Known
<1>4. index' \in {index, head, Added} /\ head' \in {head, index}
  BY DEF Next, Step, Start, Unlink, FetchPatches, ExportPatch, Clone, RemoveTarget, NextItem,
         CopyItem, ApplyPatch, Truncate, WriteLock, Stage, Commit, Finish, Fail, World, Push,
         Rebase, Edit, Reset, git
<1>5. Added.lock = lock
  BY DEF Added
<1> QED BY <1>3, <1>4, <1>5 DEF PlaceInv

\* A run is for what was asked for, and begins with the first item.
LEMMA RunBegins ==
    ASSUME RunInv, PlaceInv, Next
    PROVE  /\ pc' # "idle" => run'.desc \in Asked /\ run'.upstream.only_subdir \in Subdirs
           /\ pc' \in {"unlink", "fetch", "export", "clone", "remove"} => run'.item = 0
           /\ pc' \in {"unlink", "fetch", "clone", "remove"} => run'.todo = <<>>
<1>1. CASE pc' = "idle"
  BY <1>1
<1>2. CASE pc # "idle" /\ pc' # "idle"
  <2>1. run'.desc = run.desc /\ run'.upstream = run.upstream
    BY <1>2, RunKeeps
  <2>2. ASSUME pc' \in {"unlink", "fetch", "export", "clone", "remove"} PROVE run'.item = 0
    <3>1. pc \in {"unlink", "fetch", "export", "clone", "remove"} /\ ~NextItem
      BY <1>2, <2>2
         DEF Next, Step, Start, Unlink, FetchPatches, ExportPatch, Clone, RemoveTarget, NextItem,
             CopyItem, ApplyPatch, Truncate, WriteLock, Stage, Commit, Finish, Fail, World, Push,
             Rebase, Edit, Reset, Stops, Goes
    <3> QED BY <1>2, <3>1, RunKeeps DEF PlaceInv
  <2>3. ASSUME pc' \in {"unlink", "fetch", "clone", "remove"} PROVE run'.todo = <<>>
    <3>1. CASE ExportPatch
      BY <2>3, <3>1 DEF ExportPatch, Goes
    <3>2. CASE ~ExportPatch
      <4>1. /\ pc \in {"unlink", "fetch", "clone", "remove"}
            /\ ~FetchPatches /\ ~CopyItem /\ ~ApplyPatch
        BY <1>2, <2>3, <3>2
           DEF Next, Step, Start, Unlink, FetchPatches, Clone, RemoveTarget, NextItem,
               CopyItem, ApplyPatch, Truncate, WriteLock, Stage, Commit, Finish, Fail, World, Push,
               Rebase, Edit, Reset, Stops, Goes
      <4> QED BY <1>2, <3>2, <4>1, RunKeeps DEF PlaceInv
    <3> QED BY <3>1, <3>2
  <2> QED BY <1>2, <2>1, <2>2, <2>3 DEF PlaceInv
<1>3. CASE pc = "idle" /\ pc' # "idle"
  <2>1. PICK a \in Argument : Start(a)
    BY <1>3
       DEF Next, Step, Unlink, FetchPatches, ExportPatch, Clone, RemoveTarget, NextItem,
           CopyItem, ApplyPatch, Truncate, WriteLock, Stage, Commit, Finish, Fail, World, Push,
           Rebase, Edit, Reset
  <2> DEFINE d == Overridden(data, a.overrides)
             update == a.update \/ lock = None
  <2>2. /\ MayStart(a, d) /\ run'.desc = d /\ run'.item = 0 /\ run'.todo = <<>>
        /\ run'.upstream = IF update THEN d.upstream ELSE lock
    BY <2>1 DEF Start, NoRun
  <2>3. d \in Asked
    BY <2>2 DEF MayStart, Asked, RunInv, WorldOK
  <2>4. d.upstream.only_subdir \in Subdirs
    BY <2>3 DEF Subdirs
  <2>5. ~update => lock.only_subdir \in Subdirs
    BY <2>2 DEF PlaceInv, Known, MayStart, LockOK, UpstreamOK, Has, Torn
  <2> QED BY <2>2, <2>3, <2>4, <2>5
<1> QED BY <1>1, <1>2, <1>3

\* What is at all times.
LEMMA PlaceKept ==
    /\ Init => PlaceInv
    /\ RunInv /\ TreeInv /\ WholeInv /\ PlaceInv /\ [Next]_vars => PlaceInv'
<1>1. ASSUME Init PROVE PlaceInv
  <2>1. /\ target.dirs = {} /\ Dirs(<<>>) = {}
        /\ index = head /\ head.files = <<>> /\ head.lock = None /\ head.patches = HandMade
    BY <1>1 DEF Init, NoTree, Dirs
  <2>2. Orderly(HandMade)
    BY PatchAssumption DEF Orderly, SameFile
  <2>3. Known(lock)
    BY <1>1 DEF Init, Known, Subdirs
  <2>4. pc = "idle" /\ patches = HandMade
    BY <1>1 DEF Init
  <2> QED BY <2>1, <2>2, <2>3, <2>4 DEF PlaceInv, Known
<1>2. ASSUME PlaceInv, UNCHANGED vars PROVE PlaceInv'
  BY <1>2 DEF PlaceInv, vars, outside, files, git, bounds, Known
<1>3. ASSUME RunInv, TreeInv, WholeInv, PlaceInv, Next PROVE PlaceInv'
  BY <1>3, DirsKept, PatchesOrderly, LocksKnown, RunBegins DEF PlaceInv
<1> QED BY <1>1, <1>2, <1>3

-----------------------------------------------------------------------------
(* The import, item by item.                                               *)

\* A file is where its item says, or what is below a directory is where it was
\* below the item's directory.
LEMMA PutsWhere ==
    ASSUME NEW src, NEW item, NEW q, NEW excludes, Source(src, item, q, excludes) # {}
    PROVE  /\ IF item.from \in DOMAIN src THEN q = item.to
              ELSE /\ Within(q, item.to)
                   /\ item.from \o Rest(q, Len(item.to)) \in Copied(src, item, excludes)
           /\ \A f \in Source(src, item, q, excludes) : f \in DOMAIN src
BY DEF Source, Copied, Rest

\* What a path is within is its beginning.
LEMMA WithinBegins ==
    ASSUME NEW q \in Seq(Name), NEW d \in Seq(Name), Within(q, d)
    PROVE  Begin(q, Len(d)) = d /\ Len(d) \in 0 .. Len(q)
<1>1. Len(d) \in 0 .. Len(q)
  BY DEF Within, IsPrefix
<1>2. SubSeq(d, 1, Len(d)) = d
  OBVIOUS
<1> QED BY <1>1, <1>2 DEF Within, IsPrefix, Begin

\* What a path is within is the path or on the way to it.
LEMMA WithinIsParent ==
    ASSUME NEW q, Plain(q), NEW d \in Seq(Name), Within(q, d)
    PROVE  d \in Parents(q) \/ q = d
<1>1. q \in Seq(Name) /\ Len(d) \in Nat /\ Len(q) \in Nat /\ Len(d) <= Len(q)
  BY WithinBegins DEF Plain
<1>2. Begin(q, Len(d)) = d
  BY <1>1, WithinBegins
<1>3. CASE Len(d) = Len(q)
  <2>1. SubSeq(q, 1, Len(q)) = q
    BY <1>1
  <2> QED BY <1>2, <1>3, <2>1 DEF Begin
<1>4. CASE Len(d) < Len(q)
  <2>1. Len(d) \in 0 .. Len(q) - 1
    BY <1>1, <1>4
  <2> QED BY <1>2, <2>1 DEF Parents, Begin
<1> QED BY <1>1, <1>3, <1>4

\* After a copy that went well everything the item puts is there, as it was
\* checked out; all else in the directory is as before and lies beside it.
LEMMA CopyLands ==
    ASSUME NEW tree, TreeOK(tree), NEW src, NEW r \in Rev, SourceOK(src, r),
           NEW item, Plain(item.from), Plain(item.to), NEW excludes,
           item.from \in DOMAIN src => item.to \notin tree.dirs,
           Copy(tree, src, item, excludes).ok
    PROVE  LET new == Copy(tree, src, item, excludes).tree.files
               Put(q) == Source(src, item, q, excludes) # {}
           IN  /\ \A q \in Seq(Name) :
                     Put(q) => q \in DOMAIN new /\ new[q] = [rev |-> r, patched |-> <<>>]
               /\ DOMAIN tree.files \subseteq DOMAIN new
               /\ \A q \in DOMAIN new :
                     ~Put(q) => q \in DOMAIN tree.files /\ new[q] = tree.files[q]
               /\ \A q \in DOMAIN new : Within(q, item.to) => Put(q)
<1> DEFINE made == MakeParents(tree, item.to)
           result == Copy(tree, src, item, excludes)
           new == result.tree.files
           Put(q) == Source(src, item, q, excludes) # {}
<1>1. CanMakeParents(tree, item.to)
  BY DEF Copy
<1>2. /\ TreeOK(made) /\ Parents(item.to) \subseteq made.dirs
      /\ made.files = tree.files /\ made.dirs = tree.dirs \cup Parents(item.to)
  BY <1>1, ParentsMade DEF Grown, MakeParents, TreeOK
<1> HIDE DEF made
<1>3. CASE item.from \in DOMAIN src
  <2>1. item.to \notin made.dirs
    BY <1>2, <1>3, NotOwnParent
  <2>2. result = CopyFile(made, src, item)
    BY <1>1, <1>3 DEF Copy, made
  <2>3. new = Over([q \in {item.to} |-> src[item.from]], tree.files)
    <3>1. made = [dirs |-> made.dirs, files |-> made.files]
      BY <1>2 DEF TreeOK
    <3> QED BY <1>2, <2>1, <2>2, <3>1 DEF CopyFile, FileDest
  <2>4. /\ DOMAIN new = {item.to} \cup DOMAIN tree.files
        /\ new[item.to] = src[item.from]
        /\ \A q \in DOMAIN tree.files : q # item.to => new[q] = tree.files[q]
    BY <2>3 DEF Over
  <2>5. \A q : Put(q) <=> q = item.to
    BY <1>3 DEF Source
  <2>6. src[item.from] = [rev |-> r, patched |-> <<>>]
    BY <1>3 DEF SourceOK
  <2>7. ASSUME NEW q \in DOMAIN tree.files, Within(q, item.to) PROVE q = item.to
    <3>1. Plain(q) /\ Parents(q) \subseteq tree.dirs
      BY DEF TreeOK
    <3>2. item.to \in Parents(q) \/ q = item.to
      BY <2>7, <3>1, WithinIsParent DEF Plain
    <3> QED BY <1>3, <3>1, <3>2
  <2> HIDE DEF new, Put
  <2> QED BY <2>4, <2>5, <2>6, <2>7 DEF new, Put
<1>4. CASE item.from \notin DOMAIN src
  <2>1. result = CopyTree(made, src, item, excludes)
    BY <1>1, <1>4 DEF Copy, made
  <2> DEFINE fs == Copied(src, item, excludes)
             Inside(x) == Rest(x, Len(item.from))
             From(q) == item.from \o Rest(q, Len(item.to))
  <2>2. /\ item.from \in Dirs(src) /\ ~Exists(made, item.to)
        /\ new = Over([q \in {Dest(item, f) : f \in fs} |-> src[From(q)]], tree.files)
    <3> DEFINE ok == item.from \in Dirs(src) /\ ~Exists(made, item.to)
    <3>0. CopyTree(made, src, item, excludes).ok
      BY <2>1
    <3>1. ok
      BY <3>0 DEF CopyTree
    <3>2. CopyTree(made, src, item, excludes).tree.files =
             Over([q \in {Dest(item, f) : f \in fs} |->
                      src[item.from \o SubSeq(q, Len(item.to) + 1, Len(q))]], made.files)
      BY <3>1 DEF CopyTree
    <3> QED BY <1>2, <2>1, <3>1, <3>2 DEF Rest
  <2>3. item.from \in Seq(Name) /\ item.to \in Seq(Name)
    BY DEF Plain
  <2>4. ASSUME NEW f \in fs
        PROVE  /\ Dest(item, f) = item.to \o Inside(f) /\ From(Dest(item, f)) = f
               /\ Within(Dest(item, f), item.to) /\ f \in DOMAIN src
    <3>1. f \in DOMAIN src /\ Plain(f) /\ Within(f, item.from)
      BY DEF Copied, Below, Within, IsStrictPrefix, SourceOK, FilesOK
    <3>2. PICK z : z = Inside(f) /\ Plain(z) /\ f = item.from \o z
      BY <2>3, <3>1, InsideIsJoined, Zenon
    <3>3. Dest(item, f) = item.to \o z
      BY <3>2 DEF Dest, Rest
    <3>4. Rest(item.to \o z, Len(item.to)) = z
      BY <2>3, <3>2, JoinParts DEF Plain
    <3>5. Within(item.to \o z, item.to)
      BY <3>2, JoinedIsInside
    <3> QED BY <3>1, <3>2, <3>3, <3>4, <3>5, Zenon
  <2>5. /\ \A f \in fs : Put(Dest(item, f))
        /\ \A q \in Seq(Name) : Put(q) => \E f \in fs : q = Dest(item, f)
    <3>1. \A q : Put(q) <=> Within(q, item.to) /\ From(q) \in fs
      BY <1>4 DEF Source, Rest
    <3>2. ASSUME NEW q \in Seq(Name), Within(q, item.to), From(q) \in fs
          PROVE  q = Dest(item, From(q))
      <4>1. Dest(item, From(q)) = item.to \o Inside(From(q))
        BY <2>4, <3>2
      <4>2. Begin(q, Len(item.to)) = item.to /\ Len(item.to) \in 0 .. Len(q)
        BY <2>3, <3>2, WithinBegins
      <4>3. q = item.to \o Rest(q, Len(item.to)) /\ Rest(q, Len(item.to)) \in Seq(Name)
        BY <4>2, BeginAndRest, RestAt
      <4>4. Inside(From(q)) = Rest(q, Len(item.to))
        BY <2>3, <4>3, JoinParts
      <4> QED BY <4>1, <4>3, <4>4, Zenon
    <3> QED BY <2>4, <3>1, <3>2, Zenon
  <2>6. ASSUME NEW q \in DOMAIN tree.files PROVE ~Within(q, item.to)
    <3> SUFFICES ASSUME Within(q, item.to) PROVE FALSE
      OBVIOUS
    <3>1. Plain(q) /\ Parents(q) \subseteq tree.dirs
      BY DEF TreeOK
    <3>2. item.to \in Parents(q) \/ q = item.to
      BY <3>1, WithinIsParent DEF Plain
    <3> QED BY <1>2, <2>2, <3>1, <3>2 DEF Exists
  <2> HIDE DEF fs, From, Inside, Put, new
  <2>7. /\ DOMAIN new = {Dest(item, f) : f \in fs} \cup DOMAIN tree.files
        /\ \A f \in fs : new[Dest(item, f)] = src[f]
        /\ \A q \in DOMAIN tree.files : ~(\E f \in fs : q = Dest(item, f)) => new[q] = tree.files[q]
    BY <2>2, <2>4 DEF Over
  <2>8. \A f \in fs : src[f] = [rev |-> r, patched |-> <<>>]
    BY <2>4 DEF SourceOK
  <2>9. \A q \in Seq(Name) : Put(q) => q \in DOMAIN new /\ new[q] = [rev |-> r, patched |-> <<>>]
    BY <2>5, <2>7, <2>8
  <2>10. /\ DOMAIN tree.files \subseteq DOMAIN new
         /\ \A q \in DOMAIN new : ~Put(q) => q \in DOMAIN tree.files /\ new[q] = tree.files[q]
         /\ \A q \in DOMAIN new : Within(q, item.to) => Put(q)
    BY <2>5, <2>6, <2>7
  <2> QED BY <2>9, <2>10, Zenon DEF Put, new
<1> QED BY <1>3, <1>4

\* The file a patch changes.
PatchedFile(item, p) == item.to \o p.file

\* A patch that fits is added to the text of its file, and to no other.
LEMMA PatchLands ==
    ASSUME NEW tree, TreeOK(tree), NEW item, NEW p, Patch(tree, item, p).ok
    PROVE  LET new == Patch(tree, item, p).tree.files
               path == PatchedFile(item, p)
           IN  /\ path \in DOMAIN tree.files /\ DOMAIN new = DOMAIN tree.files
               /\ new[path] = [rev |-> tree.files[path].rev,
                               patched |-> Append(tree.files[path].patched, p.n)]
               /\ \A q \in DOMAIN tree.files : q # path => new[q] = tree.files[q]
<1> DEFINE path == PatchedFile(item, p)
           new == Patch(tree, item, p).tree
<1>1. path \in DOMAIN tree.files /\ new = [tree EXCEPT !.files[path].patched = Append(@, p.n)]
  <2>1. PICK R : R = Patch(tree, item, p)
    OBVIOUS
  <2>2. R.ok
    BY <2>1
  <2>3. path \in DOMAIN tree.files /\ Fits(tree.files[path], p)
    BY <2>1, <2>2 DEF Patch, PatchedFile
  <2> QED BY <2>3 DEF Patch, PatchedFile
<1>2. PICK q : q = Append(tree.files[path].patched, p.n)
  OBVIOUS
<1>3. new.files = [tree.files EXCEPT ![path] = [tree.files[path] EXCEPT !.patched = q]]
  BY <1>1, <1>2 DEF TreeOK
<1> HIDE DEF new, path
<1>4. IsText(tree.files[path])
  BY <1>1 DEF TreeOK
<1>5. [tree.files[path] EXCEPT !.patched = q] = [rev |-> tree.files[path].rev, patched |-> q]
  BY <1>4 DEF IsText
<1>6. /\ DOMAIN new.files = DOMAIN tree.files
      /\ new.files[path] = [rev |-> tree.files[path].rev, patched |-> q]
      /\ \A f \in DOMAIN tree.files : f # path => new.files[f] = tree.files[f]
  BY <1>1, <1>3, <1>5
<1> QED BY <1>1, <1>2, <1>6 DEF new, path

\* What is left of patches in order is in order, after the first.
LEMMA TailSorted ==
    ASSUME NEW S, NEW s \in Seq(S), s # <<>>, Sorted(s)
    PROVE  /\ Sorted(Tail(s)) /\ Head(s) = s[1] /\ 1 \in DOMAIN s
           /\ \A i \in DOMAIN Tail(s) :
                 s[1].n < Tail(s)[i].n /\ i + 1 \in DOMAIN s /\ Tail(s)[i] = s[i + 1]
<1>1. PICK n \in Nat : n = Len(s) /\ n >= 1
  OBVIOUS
<1>2. PICK t \in Seq(S) : t = Tail(s) /\ Len(t) = n - 1 /\ \A i \in 1 .. n - 1 : t[i] = s[i + 1]
  <2>1. Tail(s) \in Seq(S) /\ Len(Tail(s)) = n - 1
    BY <1>1, HeadTailProperties
  <2>2. \A i \in 1 .. n - 1 : Tail(s)[i] = s[i + 1]
    BY <2>1, HeadTailProperties
  <2> QED BY <2>1, <2>2
<1>3. DOMAIN s = 1 .. n /\ DOMAIN t = 1 .. n - 1 /\ Head(s) = s[1]
  BY <1>1, <1>2
<1>4. \A i \in 1 .. n - 1 : i + 1 \in 1 .. n /\ 1 \in 1 .. n /\ 1 < i + 1
  BY <1>1
<1>5. \A i, j \in 1 .. n : i < j => s[i].n < s[j].n
  BY <1>3 DEF Sorted
<1>6. \A i \in 1 .. n - 1 : s[1].n < t[i].n
  BY <1>2, <1>4, <1>5
<1>7. \A i, j \in 1 .. n - 1 : i < j => t[i].n < t[j].n
  <2> SUFFICES ASSUME NEW i \in 1 .. n - 1, NEW j \in 1 .. n - 1, i < j PROVE t[i].n < t[j].n
    OBVIOUS
  <2>1. i + 1 < j + 1 /\ t[i] = s[i + 1] /\ t[j] = s[j + 1]
    BY <1>2
  <2> QED BY <1>4, <1>5, <2>1
<1>8. Sorted(t)
  BY <1>3, <1>7 DEF Sorted
<1> QED BY <1>1, <1>2, <1>3, <1>4, <1>6, <1>8

\* The patches of an item can be sorted.
LEMMA OfNumbered ==
    ASSUME Orderly(patches), NEW i
    PROVE  Numbered(Of(i)) /\ \A q : \A S \in SUBSET Of(i) : Numbered(S)
<1>1. Numbered(Of(i))
  <2>1. Of(i) \subseteq patches /\ \A p, q \in Of(i) : p.dir = q.dir
    BY DEF Of
  <2>2. IsFiniteSet(Of(i))
    BY <2>1, FS_Subset DEF Orderly
  <2>3. \A p, q \in Of(i) : p.n = q.n => p = q
    BY <2>1 DEF Orderly, SameFile
  <2> QED BY <2>1, <2>2, <2>3 DEF Numbered, Orderly
<1>2. \A S \in SUBSET Of(i) : Numbered(S)
  BY <1>1, FS_Subset DEF Numbered
<1> QED BY <1>1, <1>2

\* What a run imports, and where to, stays from its clone to its end.
LEMMA SameImport ==
    ASSUME RunInv, Next, pc \in Importing \cup Imported \cup {"remove"},
           pc' \in Importing \cup Imported
    PROVE  /\ CheckedOut' = CheckedOut /\ Mapping' = Mapping /\ Excluded' = Excluded
           /\ run'.rev = run.rev
           /\ \A i, q : (Puts(i, q))' <=> Puts(i, q)
<1>1. run'.desc = run.desc /\ run'.upstream = run.upstream /\ run'.rev = run.rev
  <2>1. ~Clone
    BY DEF Clone, Importing, Imported
  <2>2. pc # "idle" /\ pc' # "idle"
    BY DEF Importing, Imported
  <2> QED BY <2>1, <2>2, RunKeeps
<1>2. CheckedOut' = CheckedOut /\ Mapping' = Mapping /\ Excluded' = Excluded
  BY <1>1 DEF CheckedOut, Mapping, Excluded
<1> QED BY <1>1, <1>2 DEF Puts

\* A step that leaves the target directory and the patches alone.
LEMMA TextStays ==
    ASSUME RunInv, Next, ImportInv, pc \in Importing \cup Imported, pc' \in Importing \cup Imported,
           UNCHANGED <<target, patches>>, Count' = Count, run'.kept = run.kept,
           \A i : (Waiting(i))' = Waiting(i),
           pc' = "next" => pc = "next" /\ run'.item = run.item
    PROVE  TextInv'
<1>1. /\ Mapping' = Mapping /\ run'.rev = run.rev
      /\ \A i, q : (Puts(i, q))' <=> Puts(i, q)
  BY SameImport
<1>2. \A i, q : (LastPut(i, q))' <=> LastPut(i, q)
  BY <1>1 DEF LastPut
<1>3. \A i, q : (To(i, q))' = To(i, q)
  BY <1>1 DEF To, Of
<1>4. TextInv
  BY DEF ImportInv
<1>5. \A i \in 1 .. Count : \A q \in Seq(Name) :
         (LastPut(i, q))' =>
            /\ q \in DOMAIN target'.files
            /\ target'.files[q] =
                  [rev |-> run'.rev, patched |-> NumbersOf(InOrder((To(i, q))' \ (Waiting(i))'))]
  BY <1>1, <1>2, <1>3, <1>4 DEF TextInv
<1>6. \A q \in DOMAIN target'.files : q \in run'.kept \/ \E i \in 1 .. Count : (Puts(i, q))'
  BY <1>1, <1>4 DEF TextInv
<1>7. (pc = "next" /\ run.item # 0 =>
          \A q \in DOMAIN target.files : Within(q, Mapping[run.item].to) => Puts(run.item, q))'
  <2>1. CheckedOut' = CheckedOut /\ Excluded' = Excluded
    BY SameImport
  <2>2. pc = "next" /\ run.item # 0 =>
           \A q \in DOMAIN target.files : Within(q, Mapping[run.item].to) => Puts(run.item, q)
    BY <1>4 DEF TextInv
  <2> QED BY <1>1, <2>1, <2>2 DEF Puts
<1> QED BY <1>5, <1>6, <1>7 DEF TextInv

\* The import begins in an empty directory, up to what rmtree left.
LEMMA ImportBegins ==
    ASSUME RunInv, PlaceInv, Next, RemoveTarget
    PROVE  ImportInv'
<1>1. pc = "remove" /\ pc' = "next" /\ run.item = 0 /\ run.todo = <<>>
  BY DEF RemoveTarget, PlaceInv
<1>2. run'.item = 0 /\ run'.todo = <<>>
  BY <1>1, RunKeeps DEF RemoveTarget, FetchPatches, ExportPatch, NextItem, CopyItem, ApplyPatch
<1>3. DOMAIN target'.files \subseteq run'.kept
  <2>1. CASE target' = NoTree
    BY <2>1 DEF NoTree
  <2>2. ASSUME NEW f \in DOMAIN target.files, run' = [run EXCEPT !.kept = {f}],
               target' = [dirs |-> Parents(f), files |-> [g \in {f} |-> target.files[g]]]
        PROVE  DOMAIN target'.files \subseteq run'.kept
    <3>1. run'.kept = {f}
      BY <2>2 DEF RunInv, Records
    <3> QED BY <2>2, <3>1
  <2> QED BY <2>1, <2>2 DEF RemoveTarget
<1>4. Mapping' = Mapping /\ Len(Mapping) \in Nat
  <2>1. Accepted(run.desc) /\ Typed(run.desc)
    BY <1>1 DEF RunInv, Started
  <2> QED BY <1>1, <2>1, SameImport, ItemsLead DEF Mapping, Importing
<1>5. Count' = 0
  BY <1>1, <1>2 DEF Count
<1>6. TodoInv' /\ TextInv'
  BY <1>1, <1>2, <1>3, <1>5 DEF TodoInv, TextInv
<1> QED BY <1>1, <1>2, <1>4, <1>6 DEF ImportInv, Imported

\* The next item, if there is one, comes when all patches are applied.
LEMMA NextImport ==
    ASSUME RunInv, ImportInv, Next, NextItem
    PROVE  ImportInv'
<1>1. /\ pc = "next" /\ run.todo = <<>> /\ run'.todo = <<>> /\ run'.kept = run.kept
      /\ pc' \in {"copy", "truncate", "stage"}
  BY RunKeeps
     DEF NextItem, FetchPatches, ExportPatch, CopyItem, ApplyPatch, RemoveTarget, Goes
<1>2. /\ Mapping' = Mapping /\ Len(Mapping) \in Nat
      /\ run.item \in 0 .. Len(Mapping) /\ TodoInv /\ TextInv
  <2>1. Accepted(run.desc) /\ Typed(run.desc)
    BY <1>1 DEF RunInv, Started
  <2> QED BY <1>1, <2>1, SameImport, ItemsLead DEF Mapping, Importing, Imported, ImportInv
<1>3. CASE run.item < Len(Mapping) /\ pc' = "copy" /\ run'.item = run.item + 1
  <2>1. Count' = Count
    BY <1>1, <1>2, <1>3 DEF Count
  <2>2. \A i : (Waiting(i))' = Waiting(i)
    <3>1. Range(<<>>) = {}
      BY DEF Range
    <3> QED BY <1>1, <3>1 DEF Waiting
  <2>3. TextInv'
    BY <1>1, <1>3, <2>1, <2>2, TextStays DEF NextItem, Importing, files
  <2>4. TodoInv'
    BY <1>1, <1>3 DEF TodoInv
  <2> QED BY <1>2, <1>3, <2>3, <2>4 DEF ImportInv, Imported
<1>4. CASE ~(run.item < Len(Mapping)) /\ pc' \in {"truncate", "stage"} /\ run' = run
  <2>1. Count' = Count
    BY <1>1, <1>4 DEF Count
  <2>2. \A i : (Waiting(i))' = Waiting(i)
    BY <1>4 DEF Waiting
  <2>3. TextInv'
    BY <1>1, <1>4, <2>1, <2>2, TextStays DEF NextItem, Importing, Imported, files
  <2>4. TodoInv'
    BY <1>1, <1>4 DEF TodoInv
  <2> QED BY <1>1, <1>2, <1>4, <2>3, <2>4 DEF ImportInv
<1>5. \/ run.item < Len(Mapping) /\ pc' = "copy" /\ run' = [run EXCEPT !.item = @ + 1]
      \/ ~(run.item < Len(Mapping)) /\ pc' \in {"truncate", "stage"} /\ run' = run
  BY DEF NextItem, Mapping, Goes
<1>6. run' = [run EXCEPT !.item = @ + 1] => run'.item = run.item + 1
  BY DEF RunInv, Records
<1> QED BY <1>3, <1>4, <1>5, <1>6

\* An item that is copied puts its files over those of the items before it.
LEMMA CopyImports ==
    ASSUME FilesKeepTheirPlace, RunInv, TreeInv, PlaceInv, ImportInv, Next, CopyItem, pc' # "idle"
    PROVE  ImportInv'
<1> DEFINE i == run.item
           old == target.files
           new == target'.files
<1>1. /\ pc = "copy" /\ pc' = "next" /\ CopyOfItem.ok /\ target' = CopyOfItem.tree
      /\ run'.todo = InOrder(Of(i)) /\ run'.item = i /\ run'.kept = run.kept /\ patches' = patches
  <2>1. /\ pc = "copy" /\ pc' = "next" /\ CopyOfItem.ok /\ target' = CopyOfItem.tree
        /\ run' = [run EXCEPT !.todo = PatchesFor(patches, Item)] /\ patches' = patches
    BY DEF CopyItem, Stops
  <2>2. PatchesFor(patches, Item) = InOrder(Of(i))
    BY DEF PatchesFor, Of, Item, Mapping
  <2> QED BY <2>1, <2>2 DEF RunInv, Records
<1>2. /\ Len(Mapping) \in Nat /\ i \in 1 .. Len(Mapping) /\ Plain(Item.from) /\ Plain(Item.to)
      /\ Item = Mapping[i]
  <2>1. Accepted(run.desc) /\ Typed(run.desc)
    BY <1>1 DEF RunInv, Started
  <2> QED BY <1>1, <2>1, ItemsLead DEF TreeInv, Item, Mapping
<1>3. TodoInv /\ TextInv
  BY <1>1 DEF ImportInv, Importing
<1>4. /\ Mapping' = Mapping /\ run'.rev = run.rev
      /\ \A k, q : (Puts(k, q))' <=> Puts(k, q)
  BY <1>1, SameImport DEF Importing
<1>5. /\ \A q \in Seq(Name) : Puts(i, q) => q \in DOMAIN new /\ new[q] = [rev |-> run.rev, patched |-> <<>>]
      /\ DOMAIN old \subseteq DOMAIN new
      /\ \A q \in DOMAIN new : ~Puts(i, q) => q \in DOMAIN old /\ new[q] = old[q]
      /\ \A q \in DOMAIN new : Within(q, Item.to) => Puts(i, q)
  <2>1. run.rev \in Rev /\ SourceOK(CheckedOut, run.rev)
    <3>1. run.rev \in Rev /\ run.upstream.only_subdir \in {None} \cup Seq(Name)
      BY <1>1 DEF RunInv, HasClone, Started, Cloned, UpstreamData
    <3> QED BY <3>1, CheckoutFiles DEF SourceOK, CheckedOut
  <2>2. Item.from \in DOMAIN CheckedOut => Item.to \notin target.dirs
    <3>1. CheckedOut \in Checkouts /\ i \in DOMAIN Items(run.desc) /\ run.desc \in Asked
      BY <1>1, ItemMakes DEF Mapping
    <3> QED BY <3>1 DEF FilesKeepTheirPlace, PlaceInv, Item
  <2>3. CopyOfItem = Copy(target, CheckedOut, Item, Excluded)
    BY DEF CopyOfItem, CheckedOut, Excluded
  <2>4. \A q : Puts(i, q) <=> Source(CheckedOut, Item, q, Excluded) # {}
    BY <1>2 DEF Puts
  <2> HIDE DEF i
  <2> QED BY <1>1, <1>2, <2>1, <2>2, <2>3, <2>4, CopyLands DEF TreeInv
<1>6. Numbered(Of(i)) /\ InOrder(Of(i)) \in Seq(Of(i)) /\ Sorted(InOrder(Of(i)))
      /\ Range(InOrder(Of(i))) = Of(i)
  BY OfNumbered, InOrderHasAll DEF PlaceInv
<1>7. Count = i - 1 /\ Count' = i
  BY <1>1 DEF Count
<1>8. \A k, q : (Of(k))' = Of(k) /\ (To(k, q))' = To(k, q)
  BY <1>1, <1>4 DEF To, Of
<1>9. \A k : k = i => (Waiting(k))' = Of(k)
  BY <1>1, <1>6 DEF Waiting
<1> HIDE DEF i, old, new
<1>10. ASSUME NEW k \in 1 .. i, NEW q \in Seq(Name), (LastPut(k, q))'
       PROVE  /\ q \in DOMAIN new
              /\ new[q] = [rev |-> run.rev,
                           patched |-> NumbersOf(InOrder((To(k, q))' \ (Waiting(k))'))]
  <2>1. Puts(k, q) /\ \A j \in k + 1 .. i : ~Puts(j, q)
    BY <1>4, <1>7, <1>10 DEF LastPut
  <2>2. CASE k = i
    <3>1. (To(k, q))' \ (Waiting(k))' = {}
      <4>1. To(k, q) \subseteq Of(k)
        BY DEF To
      <4> QED BY <1>8, <1>9, <2>2, <4>1
    <3>2. NumbersOf(<<>>) = <<>>
      BY DEF NumbersOf
    <3> QED BY <1>5, <2>1, <2>2, <3>1, <3>2, OrderOfNone
  <2>3. CASE k # i
    <3>1. k \in 1 .. Count /\ i \in k + 1 .. i /\ \A j \in k + 1 .. Count : j \in k + 1 .. i
      BY <1>2, <1>7, <2>3
    <3>2. LastPut(k, q) /\ ~Puts(i, q)
      BY <2>1, <3>1 DEF LastPut
    <3>3. /\ q \in DOMAIN old
          /\ old[q] = [rev |-> run.rev, patched |-> NumbersOf(InOrder(To(k, q) \ Waiting(k)))]
      BY <1>3, <3>1, <3>2 DEF TextInv, old
    <3>4. Waiting(k) = {} /\ (Waiting(k))' = {}
      BY <1>1, <2>3 DEF Waiting, i
    <3> QED BY <1>5, <1>8, <3>2, <3>3, <3>4
  <2> QED BY <2>2, <2>3
<1>11. ASSUME NEW q \in DOMAIN new PROVE q \in run'.kept \/ \E k \in 1 .. i : Puts(k, q)
  <2>1. CASE Puts(i, q)
    BY <1>2, <2>1
  <2>2. CASE ~Puts(i, q)
    <3>1. q \in run.kept \/ \E k \in 1 .. i - 1 : Puts(k, q)
      BY <1>3, <1>5, <1>7, <2>2 DEF TextInv, old
    <3>2. \A k \in 1 .. i - 1 : k \in 1 .. i
      BY <1>2
    <3> QED BY <1>1, <3>1, <3>2
  <2> QED BY <2>1, <2>2
<1>12. TextInv'
  <2>1. (\A k \in 1 .. Count : \A q \in Seq(Name) :
           LastPut(k, q) =>
             /\ q \in DOMAIN target.files
             /\ target.files[q] =
                   [rev |-> run.rev, patched |-> NumbersOf(InOrder(To(k, q) \ Waiting(k)))])'
    BY <1>4, <1>7, <1>10 DEF new
  <2>2. (\A q \in DOMAIN target.files : q \in run.kept \/ \E k \in 1 .. Count : Puts(k, q))'
    BY <1>4, <1>7, <1>11 DEF new
  <2>3. (pc = "next" /\ run.item # 0 =>
          \A q \in DOMAIN target.files : Within(q, Mapping[run.item].to) => Puts(run.item, q))'
    <3>1. CheckedOut' = CheckedOut /\ Excluded' = Excluded
      BY <1>1, SameImport DEF Importing
    <3>2. \A q \in DOMAIN new : Within(q, Mapping[i].to) => Puts(i, q)
      BY <1>2, <1>5
    <3> QED BY <1>1, <1>4, <3>1, <3>2 DEF Puts, new, i
  <2> QED BY <2>1, <2>2, <2>3 DEF TextInv
<1>13. TodoInv'
  <2>1. (run.todo \in Seq(Of(run.item)) /\ Sorted(run.todo) /\ Of(run.item) \ Range(run.todo) = {})'
    <3>1. /\ InOrder(Of(i)) \in Seq(Of(i)) /\ Sorted(InOrder(Of(i)))
          /\ Of(i) \ Range(InOrder(Of(i))) = {}
      BY <1>6
    <3> QED BY <1>1, <1>4, <3>1 DEF Of, i
  <2> QED BY <1>1, <1>2, <2>1 DEF TodoInv, i
<1> QED BY <1>1, <1>2, <1>4, <1>12, <1>13 DEF ImportInv, Imported, i

\* Where a patch leads to is below its item.
LEMMA PatchedIsInside ==
    ASSUME NEW d \in Seq(Name), NEW z \in Seq(Name)
    PROVE  Within(d \o z, d)
<1>1. Len(d \o z) = Len(d) + Len(z) /\ Len(d) \in Nat /\ Len(z) \in Nat
  BY JoinAt
<1>2. Begin(d \o z, Len(d)) = d /\ SubSeq(d, 1, Len(d)) = d /\ Len(d) <= Len(d \o z)
  BY <1>1, JoinParts
<1> QED BY <1>2 DEF Within, IsPrefix, Begin

\* A patch that is applied is the next one in its file's order.
LEMMA PatchImports ==
    ASSUME RunInv, TreeInv, PlaceInv, ImportInv, Next, ApplyPatch, pc' # "idle"
    PROVE  ImportInv'
<1> PICK i : i = run.item
  OBVIOUS
<1> DEFINE p == Head(run.todo)
           old == target.files
           new == target'.files
<1>1. /\ pc = "next" /\ pc' = "next" /\ run.todo # <<>> /\ Patch(target, Item, p).ok
      /\ target' = Patch(target, Item, p).tree
      /\ run'.todo = Tail(run.todo) /\ run'.item = i /\ run'.kept = run.kept /\ patches' = patches
  <2>1. /\ pc = "next" /\ pc' = "next" /\ run.todo # <<>> /\ Patch(target, Item, p).ok
        /\ target' = Patch(target, Item, p).tree
        /\ run' = [run EXCEPT !.todo = Tail(@)] /\ patches' = patches
    BY DEF ApplyPatch, Stops
  <2> QED BY <2>1 DEF RunInv, Records
<1>2. TodoInv /\ TextInv /\ i \in 0 .. Len(Mapping) /\ i # 0
  BY <1>1 DEF ImportInv, Importing, TodoInv
<1>3. /\ Len(Mapping) \in Nat /\ i \in 1 .. Len(Mapping) /\ Plain(Item.to) /\ Item = Mapping[i]
  <2>1. Accepted(run.desc) /\ Typed(run.desc)
    BY <1>1 DEF RunInv, Started
  <2> QED BY <1>2, <2>1, ItemsLead DEF Item, Mapping
<1>4. /\ Mapping' = Mapping /\ run'.rev = run.rev
      /\ \A k, q : (Puts(k, q))' <=> Puts(k, q)
  BY <1>1, SameImport DEF Importing
<1>5. /\ run.todo \in Seq(Of(i)) /\ Sorted(run.todo)
      /\ \A x \in Of(i) \ Range(run.todo), k \in DOMAIN run.todo : x.n < run.todo[k].n
  BY <1>1, <1>2 DEF TodoInv
<1>6. /\ p \in Of(i) /\ Tail(run.todo) \in Seq(Of(i)) /\ Sorted(Tail(run.todo))
      /\ Range(run.todo) = {p} \cup Range(Tail(run.todo)) /\ p = run.todo[1]
      /\ 1 \in DOMAIN run.todo
      /\ \A k \in DOMAIN Tail(run.todo) :
            p.n < Tail(run.todo)[k].n /\ k + 1 \in DOMAIN run.todo
            /\ Tail(run.todo)[k] = run.todo[k + 1]
  <2> PICK s : s = run.todo
    OBVIOUS
  <2> QED BY <1>1, <1>5, HeadAndTail, TailSorted
<1>7. p \notin Range(Tail(run.todo)) /\ p.n \in Nat /\ p.file \in Seq(Name)
  <2>1. p \in patches /\ Numbered(Of(i))
    BY <1>6, OfNumbered DEF Of, PlaceInv
  <2>2. p.n \in Nat /\ p.file \in Seq(Name)
    BY <2>1 DEF PlaceInv, Orderly
  <2>3. ASSUME p \in Range(Tail(run.todo)) PROVE FALSE
    <3>1. PICK k \in DOMAIN Tail(run.todo) : p = Tail(run.todo)[k]
      BY <2>3 DEF Range
    <3>2. p.n < p.n
      BY <1>6, <3>1
    <3> QED BY <2>2, <3>2
  <2> QED BY <2>2, <2>3
<1> DEFINE path == PatchedFile(Item, p)
<1>8. /\ path \in DOMAIN old /\ DOMAIN new = DOMAIN old
      /\ new[path] = [rev |-> old[path].rev, patched |-> Append(old[path].patched, p.n)]
      /\ \A q \in DOMAIN old : q # path => new[q] = old[q]
  <2>1. TreeOK(target)
    BY DEF TreeInv
  <2> HIDE DEF p
  <2> QED BY <1>1, <2>1, PatchLands
<1>9. path \in Seq(Name) /\ Puts(i, path)
  <2>1. Within(path, Item.to) /\ path \in Seq(Name)
    BY <1>3, <1>7, PatchedIsInside, JoinAt DEF Plain, PatchedFile
  <2> QED BY <1>1, <1>2, <1>3, <1>8, <2>1 DEF TextInv
<1>10. Count = i /\ Count' = i
  BY <1>1 DEF Count
<1>11. \A k, q : (Of(k))' = Of(k) /\ (To(k, q))' = To(k, q)
  BY <1>1, <1>4 DEF To, Of
<1>12. /\ \A k : k # i => (Waiting(k))' = {} /\ Waiting(k) = {}
       /\ (\A k : k = run.item => Waiting(k) = Range(run.todo))'
       /\ \A k : k = i => Waiting(k) = Range(run.todo)
  BY <1>1 DEF Waiting
<1>13. \A k : k = i => (Waiting(k))' = Range(Tail(run.todo))
  BY <1>1, <1>12
<1> HIDE DEF p, old, new, path
<1>14. ASSUME NEW k \in 1 .. i, NEW q \in Seq(Name), (LastPut(k, q))'
       PROVE  /\ q \in DOMAIN new
              /\ new[q] = [rev |-> run.rev,
                           patched |-> NumbersOf(InOrder((To(k, q))' \ (Waiting(k))'))]
  <2>1. LastPut(k, q)
    BY <1>4, <1>10, <1>14 DEF LastPut
  <2>2. /\ q \in DOMAIN old
        /\ old[q] = [rev |-> run.rev, patched |-> NumbersOf(InOrder(To(k, q) \ Waiting(k)))]
    BY <1>2, <1>10, <2>1 DEF TextInv, old
  <2>3. CASE k # i
    <3>1. q # path
      BY <1>3, <1>9, <1>10, <2>1, <2>3 DEF LastPut
    <3> QED BY <1>8, <1>11, <1>12, <2>2, <2>3, <3>1
  <2>4. CASE k = i /\ q # path
    <3>1. p \notin To(k, q)
      BY <1>3, <2>4 DEF To, path, PatchedFile
    <3>2. (To(k, q))' \ (Waiting(k))' = To(k, q) \ Waiting(k)
      BY <1>6, <1>11, <1>12, <1>13, <2>4, <3>1
    <3> QED BY <1>8, <2>2, <2>4, <3>2
  <2>5. CASE k = i /\ q = path
    <3> DEFINE S == To(k, q) \ Waiting(k)
    <3>1. p \in To(k, q)
      BY <1>3, <1>6, <2>5 DEF To, path, PatchedFile
    <3>2. (To(k, q))' \ (Waiting(k))' = S \cup {p}
      BY <1>6, <1>7, <1>11, <1>12, <1>13, <2>5, <3>1
    <3>3. S \cup {p} \subseteq Of(i) /\ \A x \in S : x.n < p.n
      <4>1. S \subseteq Of(i) \ Range(run.todo)
        BY <1>12, <2>5 DEF To
      <4> QED BY <1>5, <1>6, <4>1
    <3>4. Numbered(S \cup {p}) /\ Numbered(S)
      BY <3>3, OfNumbered DEF PlaceInv
    <3> HIDE DEF S
    <3>5. InOrder(S \cup {p}) = Append(InOrder(S), p) /\ InOrder(S) \in Seq(S)
      BY <3>3, <3>4, OrderGrows, InOrderHasAll
    <3>6. NumbersOf(InOrder(S \cup {p})) = Append(NumbersOf(InOrder(S)), p.n)
      BY <3>5, NumbersGrow
    <3>7. old[q].rev = run.rev /\ old[q].patched = NumbersOf(InOrder(S))
      BY <2>2 DEF S
    <3> QED BY <1>8, <2>2, <2>5, <3>2, <3>6, <3>7
  <2> QED BY <2>3, <2>4, <2>5
<1>15. TextInv'
  <2>1. (\A k \in 1 .. Count : \A q \in Seq(Name) :
           LastPut(k, q) =>
             /\ q \in DOMAIN target.files
             /\ target.files[q] =
                   [rev |-> run.rev, patched |-> NumbersOf(InOrder(To(k, q) \ Waiting(k)))])'
    BY <1>4, <1>10, <1>14 DEF new
  <2>2. (\A q \in DOMAIN target.files : q \in run.kept \/ \E k \in 1 .. Count : Puts(k, q))'
    BY <1>1, <1>2, <1>4, <1>8, <1>10 DEF TextInv, new, old
  <2>3. (pc = "next" /\ run.item # 0 =>
          \A q \in DOMAIN target.files : Within(q, Mapping[run.item].to) => Puts(run.item, q))'
    <3>1. CheckedOut' = CheckedOut /\ Excluded' = Excluded
      BY <1>1, SameImport DEF Importing
    <3>2. \A q \in DOMAIN new : Within(q, Mapping[i].to) => Puts(i, q)
      BY <1>1, <1>2, <1>8 DEF TextInv, old
    <3> QED BY <1>1, <1>4, <3>1, <3>2 DEF Puts, new
  <2> QED BY <2>1, <2>2, <2>3 DEF TextInv
<1>16. TodoInv'
  <2>1. \A x \in Of(i) \ Range(Tail(run.todo)), k \in DOMAIN Tail(run.todo) :
           x.n < Tail(run.todo)[k].n
    BY <1>5, <1>6
  <2>2. (/\ run.todo \in Seq(Of(run.item)) /\ Sorted(run.todo)
         /\ \A x \in Of(run.item) \ Range(run.todo), k \in DOMAIN run.todo : x.n < run.todo[k].n)'
    BY <1>1, <1>4, <1>6, <2>1 DEF Of
  <2> QED BY <1>1, <1>2, <2>2 DEF TodoInv
<1> QED BY <1>1, <1>3, <1>4, <1>15, <1>16 DEF ImportInv, Imported

\* What comes after the import leaves it alone.
LEMMA ImportStays ==
    ASSUME RunInv, ImportInv, Next, Truncate \/ WriteLock \/ Stage \/ Commit \/ World,
           pc \in Importing \cup Imported, pc' \in Importing \cup Imported
    PROVE  ImportInv'
<1>1. /\ run' = run /\ UNCHANGED <<target, patches>>
      /\ pc' = pc \/ (pc \in Imported /\ pc' \in Imported)
  <2>1. CASE World
    <3>1. ~Reset /\ ~Edit
      BY DEF Reset, Edit, Importing, Imported
    <3> QED BY <2>1, <3>1 DEF World, Push, Rebase, files
  <2>2. CASE Truncate \/ WriteLock \/ Stage \/ Commit
    BY <2>2 DEF Truncate, WriteLock, Stage, Commit, Goes, Stops, files, Importing, Imported
  <2> QED BY <2>1, <2>2
<1>2. Mapping' = Mapping /\ run.item \in 0 .. Len(Mapping) /\ TodoInv
  BY SameImport DEF ImportInv
<1>3. Count' = Count /\ \A i : (Waiting(i))' = Waiting(i)
  BY <1>1 DEF Count, Waiting, Imported
<1>4. TextInv'
  BY <1>1, <1>3, TextStays DEF Imported
<1>5. TodoInv'
  <2>1. \A i : (Of(i))' = Of(i)
    BY <1>1, <1>2 DEF Of
  <2>2. CASE pc' = pc
    BY <1>1, <1>2, <2>1, <2>2 DEF TodoInv, Of
  <2>3. CASE pc \in Imported /\ pc' \in Imported
    <3>1. run'.todo = <<>> /\ pc' # "next"
      BY <1>1, <2>3 DEF ImportInv, Imported
    <3> QED BY <3>1 DEF TodoInv
  <2> QED BY <1>1, <2>2, <2>3
<1>6. pc' \in Imported => run'.item = Len(Mapping') /\ run'.todo = <<>>
  BY <1>1, <1>2 DEF ImportInv
<1> QED BY <1>1, <1>2, <1>4, <1>5, <1>6 DEF ImportInv

\* The import, step by step.
LEMMA ImportStep ==
    ASSUME FilesKeepTheirPlace
    PROVE  /\ Init => ImportInv
           /\ RunInv /\ TreeInv /\ PlaceInv /\ ImportInv /\ [Next]_vars => ImportInv'
<1>1. Init => ImportInv
  BY DEF Init, ImportInv, Importing, Imported
<1>2. ASSUME ImportInv, UNCHANGED vars PROVE ImportInv'
  <2>1. /\ Mapping' = Mapping /\ CheckedOut' = CheckedOut /\ Excluded' = Excluded
        /\ Count' = Count
    BY <1>2 DEF Mapping, CheckedOut, Excluded, Count, vars
  <2>2. /\ \A i, q : (Puts(i, q))' <=> Puts(i, q)
        /\ \A i : (Waiting(i))' = Waiting(i) /\ (Of(i))' = Of(i)
        /\ \A i, q : (To(i, q))' = To(i, q)
    BY <1>2, <2>1 DEF Puts, Waiting, Of, To, vars, files
  <2>3. \A i, q : (LastPut(i, q))' <=> LastPut(i, q)
    BY <2>1, <2>2 DEF LastPut
  <2>4. TodoInv' <=> TodoInv
    BY <1>2, <2>1, <2>2 DEF TodoInv, Of, vars, files
  <2>5. TextInv' <=> TextInv
    <3>1. (\A i \in 1 .. Count : \A q \in Seq(Name) :
             LastPut(i, q) =>
               /\ q \in DOMAIN target.files
               /\ target.files[q] =
                     [rev |-> run.rev, patched |-> NumbersOf(InOrder(To(i, q) \ Waiting(i)))])'
          <=> \A i \in 1 .. Count : \A q \in Seq(Name) :
                 LastPut(i, q) =>
                   /\ q \in DOMAIN target.files
                   /\ target.files[q] =
                         [rev |-> run.rev, patched |-> NumbersOf(InOrder(To(i, q) \ Waiting(i)))]
      BY <1>2, <2>1, <2>2, <2>3 DEF vars, files
    <3>2. (\A q \in DOMAIN target.files : q \in run.kept \/ \E i \in 1 .. Count : Puts(i, q))'
          <=> \A q \in DOMAIN target.files : q \in run.kept \/ \E i \in 1 .. Count : Puts(i, q)
      BY <1>2, <2>1, <2>2 DEF vars, files
    <3>3. (pc = "next" /\ run.item # 0 =>
             \A q \in DOMAIN target.files : Within(q, Mapping[run.item].to) => Puts(run.item, q))'
          <=> (pc = "next" /\ run.item # 0 =>
             \A q \in DOMAIN target.files : Within(q, Mapping[run.item].to) => Puts(run.item, q))
      BY <1>2, <2>1 DEF Puts, vars, files
    <3> QED BY <3>1, <3>2, <3>3 DEF TextInv
  <2> QED BY <1>2, <2>1, <2>4, <2>5 DEF ImportInv, vars
<1>3. ASSUME RunInv, TreeInv, PlaceInv, ImportInv, Next PROVE ImportInv'
  <2>1. CASE pc' \notin Importing \cup Imported
    BY <2>1 DEF ImportInv
  <2>2. CASE pc' \in Importing \cup Imported
    <3>1. \/ RemoveTarget \/ NextItem \/ (CopyItem /\ pc' # "idle") \/ (ApplyPatch /\ pc' # "idle")
          \/ pc \in Importing \cup Imported /\ (Truncate \/ WriteLock \/ Stage \/ Commit \/ World)
      BY <1>3, <2>2
         DEF Next, Step, Start, Unlink, FetchPatches, ExportPatch, Clone, Truncate, WriteLock, Stage,
             Commit, Finish, Fail, World, Push, Rebase, Edit, Reset, Stops, Goes, Importing, Imported
    <3> QED BY <1>3, <2>2, <3>1, ImportBegins, NextImport, CopyImports, PatchImports, ImportStays
  <2> QED BY <2>1, <2>2
<1> QED BY <1>1, <1>2, <1>3

\* What is staged, step by step.
LEMMA StageStep ==
    /\ Init => StageInv
    /\ RunInv /\ TreeInv /\ WholeInv /\ StageInv /\ [Next]_vars => StageInv'
<1>1. Init => StageInv
  BY DEF Init, StageInv
<1>2. ASSUME StageInv, UNCHANGED vars PROVE StageInv'
  BY <1>2 DEF StageInv, vars, files, git
<1>3. ASSUME RunInv, TreeInv, WholeInv, StageInv, Next PROVE StageInv'
  <2>1. CASE pc' = "idle"
    BY <2>1 DEF StageInv
  <2>2. CASE pc = "idle" /\ pc' # "idle"
    <3>1. PICK a \in Argument : Start(a)
      BY <1>3, <2>2
         DEF Next, Step, Unlink, FetchPatches, ExportPatch, Clone, RemoveTarget, NextItem,
             CopyItem, ApplyPatch, Truncate, WriteLock, Stage, Commit, Finish, Fail, World, Push,
             Rebase, Edit, Reset
    <3>2. /\ run'.args.commit = a.commit /\ UNCHANGED <<index, head, patches>> /\ pc' # "commit"
      BY <3>1, InputAssumption DEF Start, NoRun, files, git
    <3>3. a.commit => index = head /\ head.patches \subseteq patches
      BY <3>1 DEF Start, MayStart, Clean
    <3> QED BY <3>2, <3>3 DEF StageInv
  <2>3. CASE pc # "idle" /\ pc' # "idle"
    <3>1. run'.args = run.args
      BY <1>3, <2>3, RunKeeps
    <3>2. patches' = patches \/ pc \in {"unlink", "export"}
      BY <1>3, <2>3
         DEF Next, Step, Start, Unlink, FetchPatches, ExportPatch, Clone, RemoveTarget, NextItem,
             CopyItem, ApplyPatch, Truncate, WriteLock, Stage, Commit, Finish, Fail, World, Push,
             Rebase, Edit, Reset, files
    <3>3. pc \in {"unlink", "export"} => run.args.refresh /\ pc' # "commit"
      BY <1>3
         DEF WholeInv, Next, Step, Start, Unlink, FetchPatches, ExportPatch, Clone, RemoveTarget,
             NextItem, CopyItem, ApplyPatch, Truncate, WriteLock, Stage, Commit, Finish, Fail,
             World, Push, Rebase, Edit, Reset, Goes, Stops
    <3>4. \/ /\ pc = "stage" /\ pc' = "commit" /\ index' = Added
             /\ UNCHANGED <<head, patches, target>> /\ run.args.commit
          \/ pc' = "done"
          \/ /\ pc \notin {"commit", "done"} /\ pc' \notin {"commit", "done"}
             /\ UNCHANGED <<index, head>>
          \/ pc = "commit" /\ pc' = "commit" /\ UNCHANGED <<index, head, patches, target>>
      BY <1>3, <2>3
         DEF Next, Step, Start, Unlink, FetchPatches, ExportPatch, Clone, RemoveTarget, NextItem,
             CopyItem, ApplyPatch, Truncate, WriteLock, Stage, Commit, Finish, Fail, World, Push,
             Rebase, Edit, Reset, Goes, Stops, files, git
    <3>5. CASE pc' = "done"
      BY <3>5 DEF StageInv
    <3>6. CASE pc \notin {"commit", "done"} /\ pc' \notin {"commit", "done"} /\ UNCHANGED <<index, head>>
      BY <1>3, <2>3, <3>1, <3>2, <3>3, <3>6 DEF StageInv
    <3>7. CASE pc = "commit" /\ pc' = "commit" /\ UNCHANGED <<index, head, patches, target>>
      BY <1>3, <3>1, <3>7 DEF StageInv
    <3>8. CASE /\ pc = "stage" /\ pc' = "commit" /\ index' = Added
               /\ UNCHANGED <<head, patches, target>> /\ run.args.commit
      <4>1. /\ index'.patches = IF run'.args.refresh THEN patches' ELSE head'.patches
            /\ ~run'.args.refresh => head'.patches \subseteq patches'
        <5>1. Added.patches = IF run.args.refresh THEN patches ELSE index.patches
          BY DEF Added, PatchesToCommit
        <5>2. /\ index.patches = head.patches
              /\ ~run.args.refresh => head.patches \subseteq patches
          BY <1>3, <3>8 DEF StageInv
        <5> QED BY <3>1, <3>8, <5>1, <5>2
      <4>2. /\ DOMAIN target.files \ GitIgnored \subseteq DOMAIN Added.files
            /\ \A f \in DOMAIN Added.files :
                  f \in DOMAIN target.files /\ Added.files[f] = target.files[f]
        <5>1. Added.files = [f \in {x \in DOMAIN target.files : Tracked(x)} |-> target.files[f]]
          BY DEF Added, ToCommit, Restrict
        <5> QED BY <5>1 DEF Tracked
      <4> QED BY <3>8, <4>1, <4>2 DEF StageInv
    <3> QED BY <3>4, <3>5, <3>6, <3>7, <3>8
  <2> QED BY <2>1, <2>2, <2>3
<1> QED BY <1>1, <1>2, <1>3

\* A finite part of the numbers has a largest one.
LEMMA LastOne ==
    ASSUME NEW n \in Nat, NEW S \in SUBSET (1 .. n), S # {}
    PROVE  \E k \in S : \A j \in S : j <= k
<1> DEFINE N == {n - i : i \in S}
           R == OpToRel(<, Nat)
<1>0. \A i \in S : i \in 1 .. n /\ n - i \in Nat
  OBVIOUS
<1>1. N \subseteq Nat /\ N # {}
  BY <1>0
<1>2. IsWellFoundedOn(R, Nat)
  BY NatLessThanWellFounded
<1> HIDE DEF R
<1>3. PICK m \in N : \A k \in N : <<k, m>> \notin R
  BY <1>1, <1>2, WFMin, Zenon
<1>4. PICK k \in S : m = n - k
  OBVIOUS
<1>5. ASSUME NEW j \in S PROVE j <= k
  <2>1. ~(n - j < n - k)
    BY <1>1, <1>3, <1>4 DEF R, OpToRel
  <2> QED BY <2>1
<1> QED BY <1>5

\* What an import promises: at each path an item puts something to, the text of
\* the last such item.
LEMMA ExpectedIsLast ==
    ASSUME NEW src, NEW r \in Rev, SourceOK(src, r), NEW n \in Nat,
           NEW items, DOMAIN items = 1 .. n,
           \A i \in 1 .. n : Plain(items[i].from) /\ Plain(items[i].to),
           NEW excludes, NEW ps
    PROVE  LET E == Expected(src, items, excludes, ps)
               Put(i, q) == Source(src, items[i], q, excludes) # {}
           IN  /\ \A q \in DOMAIN E :
                     /\ q \in Seq(Name)
                     /\ \E k \in 1 .. n :
                           /\ Put(k, q) /\ \A j \in k + 1 .. n : ~Put(j, q)
                           /\ E[q] = [rev |-> r, patched |-> PatchNumbers(ps, items[k], q)]
               /\ \A q : Plain(q) /\ (\E k \in 1 .. n : Put(k, q)) => q \in DOMAIN E
<1> DEFINE Put(i, q) == Source(src, items[i], q, excludes) # {}
           E == Expected(src, items, excludes, ps)
           Sources(q) == {k \in DOMAIN items : Source(src, items[k], q, excludes) # {}}
           candidates == UNION {{Dest(items[k], f) : f \in {g \in DOMAIN src : Within(g, items[k].from)}} :
                                   k \in DOMAIN items}
           Best(q) == CHOOSE i \in Sources(q) : \A j \in Sources(q) : j <= i
           From(q) == CHOOSE g \in Source(src, items[Best(q)], q, excludes) : TRUE
           Text(q) == [rev |-> src[From(q)].rev, patched |-> PatchNumbers(ps, items[Best(q)], q)]
<1>1. E = [q \in {c \in candidates : Sources(c) # {}} |-> Text(q)]
  BY DEF Expected
<1>2. ASSUME NEW q, Sources(q) # {}
      PROVE  /\ Best(q) \in Sources(q) /\ \A j \in Sources(q) : j <= Best(q)
             /\ Text(q).rev = r
  <2>1. Sources(q) \in SUBSET (1 .. n)
    OBVIOUS
  <2>2. \E k \in Sources(q) : \A j \in Sources(q) : j <= k
    <3> HIDE DEF Sources
    <3> QED BY <1>2, <2>1, LastOne
  <2>3. Best(q) \in Sources(q) /\ \A j \in Sources(q) : j <= Best(q)
    <3> HIDE DEF Sources
    <3> QED BY <2>2
  <2>4. Source(src, items[Best(q)], q, excludes) # {}
    <3> HIDE DEF Best
    <3> QED BY <2>3
  <2>5. From(q) \in Source(src, items[Best(q)], q, excludes)
    <3> HIDE DEF Best
    <3> QED BY <2>4
  <2>6. From(q) \in DOMAIN src
    <3> HIDE DEF Best, From
    <3> QED BY <2>4, <2>5, PutsWhere
  <2> HIDE DEF Best, From
  <2>7. src[From(q)].rev = r
    BY <2>6 DEF SourceOK
  <2> QED BY <2>3, <2>7
<1> HIDE DEF E, Best, Text, candidates
<1>3. ASSUME NEW k \in 1 .. n, NEW f \in DOMAIN src, Within(f, items[k].from)
      PROVE  Dest(items[k], f) \in Seq(Name)
  <2>1. f \in Seq(Name) /\ items[k].from \in Seq(Name) /\ items[k].to \in Seq(Name)
    BY DEF SourceOK, FilesOK, Plain
  <2>2. Rest(f, Len(items[k].from)) \in Seq(Name)
    BY <1>3, <2>1, WithinBegins, RestAt
  <2> QED BY <2>1, <2>2 DEF Dest, Rest
<1>4. ASSUME NEW q \in DOMAIN E
      PROVE  /\ q \in Seq(Name)
             /\ \E k \in 1 .. n :
                   /\ Put(k, q) /\ \A j \in k + 1 .. n : ~Put(j, q)
                   /\ E[q] = [rev |-> r, patched |-> PatchNumbers(ps, items[k], q)]
  <2>1. q \in candidates /\ Sources(q) # {} /\ E[q] = Text(q)
    BY <1>1
  <2>2. q \in Seq(Name)
    BY <1>3, <2>1 DEF candidates
  <2>3. Best(q) \in Sources(q) /\ (\A j \in Sources(q) : j <= Best(q)) /\ Text(q).rev = r
    BY <1>2, <2>1
  <2>4. Best(q) \in 1 .. n /\ Put(Best(q), q) /\ \A j \in Best(q) + 1 .. n : ~Put(j, q)
    <3> PICK k : k = Best(q)
      OBVIOUS
    <3>1. k \in 1 .. n /\ Put(k, q) /\ \A j \in 1 .. n : Put(j, q) => j <= k
      BY <2>3
    <3>2. \A j \in k + 1 .. n : j \in 1 .. n /\ ~(j <= k)
      BY <3>1
    <3> QED BY <3>1, <3>2
  <2>5. E[q] = [rev |-> r, patched |-> PatchNumbers(ps, items[Best(q)], q)]
    BY <2>1, <2>3 DEF Text
  <2> QED BY <2>2, <2>4, <2>5
<1>5. ASSUME NEW q, Plain(q), NEW k \in 1 .. n, Put(k, q) PROVE q \in DOMAIN E
  <2> PICK from \in Seq(Name), to \in Seq(Name) : from = items[k].from /\ to = items[k].to
    BY DEF Plain
  <2>1. q \in Seq(Name)
    BY <1>5 DEF Plain
  <2>2. \E f \in DOMAIN src : Within(f, from) /\ q = Dest(items[k], f)
    <3>1. CASE from \in DOMAIN src
      <4>1. q = to
        BY <1>5, <3>1, PutsWhere
      <4>2. Rest(from, Len(from)) = <<>>
        BY DEF Rest
      <4>3. Dest(items[k], from) = to
        <5>1. to \o <<>> = to
          OBVIOUS
        <5>2. Dest(items[k], from) = to \o Rest(from, Len(from))
          BY DEF Dest, Rest
        <5> QED BY <4>2, <5>1, <5>2
      <4>4. Within(from, from)
        BY DEF Within, IsPrefix
      <4> QED BY <3>1, <4>1, <4>3, <4>4
    <3>2. CASE from \notin DOMAIN src
      <4> DEFINE z == Rest(q, Len(to))
                 f == from \o z
      <4>1. Within(q, to) /\ f \in Copied(src, items[k], excludes)
        BY <1>5, <3>2, PutsWhere
      <4>2. Begin(q, Len(to)) = to /\ Len(to) \in 0 .. Len(q)
        BY <2>1, <4>1, WithinBegins
      <4>3. q = to \o z /\ z \in Seq(Name)
        BY <2>1, <4>2, BeginAndRest, RestAt
      <4>4. Rest(f, Len(from)) = z
        BY <4>3, JoinParts
      <4>5. Dest(items[k], f) = q
        BY <4>3, <4>4 DEF Dest, Rest
      <4>6. f \in DOMAIN src /\ Within(f, from)
        BY <4>1 DEF Copied, Below, Within, IsStrictPrefix
      <4> QED BY <4>5, <4>6
    <3> QED BY <3>1, <3>2
  <2>3. q \in candidates
    BY <2>2 DEF candidates
  <2>4. k \in Sources(q)
    BY <1>5
  <2> QED BY <1>1, <2>3, <2>4
<1> QED BY <1>4, <1>5 DEF E

\* After the import what is there is what the revision, the mapping and the
\* patches say.
LEMMA ImportedAsPromised ==
    ASSUME RunInv, TreeInv, ImportInv, pc \in Imported
    PROVE  LET promised == Expected(CheckedOut, Mapping, Excluded, patches)
           IN  /\ DOMAIN promised \subseteq DOMAIN target.files
               /\ \A f \in DOMAIN promised : target.files[f] = promised[f]
               /\ DOMAIN target.files \ DOMAIN promised \subseteq run.kept
<1> DEFINE promised == Expected(CheckedOut, Mapping, Excluded, patches)
           n == Len(Mapping)
<1>1. /\ n \in Nat /\ DOMAIN Mapping = 1 .. n
      /\ \A i \in 1 .. n : Plain(Mapping[i].from) /\ Plain(Mapping[i].to)
  <2>1. Accepted(run.desc) /\ Typed(run.desc)
    BY DEF RunInv, Started, Imported
  <2> QED BY <2>1, ItemsLead DEF Mapping
<1>2. run.rev \in Rev /\ SourceOK(CheckedOut, run.rev)
  <2>1. run.rev \in Rev /\ run.upstream.only_subdir \in {None} \cup Seq(Name)
    BY DEF RunInv, HasClone, Started, Cloned, UpstreamData, Imported
  <2> QED BY <2>1, CheckoutFiles DEF SourceOK, CheckedOut
<1>3. /\ \A q \in DOMAIN promised :
            /\ q \in Seq(Name)
            /\ \E k \in 1 .. n :
                  /\ Puts(k, q) /\ \A j \in k + 1 .. n : ~Puts(j, q)
                  /\ promised[q] = [rev |-> run.rev, patched |-> PatchNumbers(patches, Mapping[k], q)]
      /\ \A q : Plain(q) /\ (\E k \in 1 .. n : Puts(k, q)) => q \in DOMAIN promised
  <2> HIDE DEF n
  <2> QED BY <1>1, <1>2, ExpectedIsLast DEF Puts
<1>4. Count = n /\ run.todo = <<>> /\ TextInv
  BY DEF ImportInv, Imported, Count
<1> HIDE DEF promised, n
<1>5. ASSUME NEW q \in DOMAIN promised PROVE q \in DOMAIN target.files /\ target.files[q] = promised[q]
  <2>1. PICK k \in 1 .. n :
           /\ q \in Seq(Name) /\ Puts(k, q) /\ \A j \in k + 1 .. n : ~Puts(j, q)
           /\ promised[q] = [rev |-> run.rev, patched |-> PatchNumbers(patches, Mapping[k], q)]
    BY <1>3
  <2>2. LastPut(k, q)
    BY <1>4, <2>1 DEF LastPut
  <2>3. /\ q \in DOMAIN target.files
        /\ target.files[q] = [rev |-> run.rev, patched |-> NumbersOf(InOrder(To(k, q) \ Waiting(k)))]
    BY <1>4, <2>1, <2>2 DEF TextInv
  <2>4. To(k, q) \ Waiting(k) = {p \in patches : p.dir = Mapping[k].patch_dir /\ q = Mapping[k].to \o p.file}
    <3>1. Waiting(k) = {}
      BY <1>4 DEF Waiting, Range
    <3> QED BY <3>1 DEF To, Of
  <2>5. NumbersOf(InOrder(To(k, q) \ Waiting(k))) = PatchNumbers(patches, Mapping[k], q)
    BY <2>4 DEF NumbersOf, PatchNumbers
  <2> QED BY <2>1, <2>3, <2>5
<1>6. ASSUME NEW q \in DOMAIN target.files, q \notin DOMAIN promised PROVE q \in run.kept
  <2>1. Plain(q)
    BY DEF TreeInv, TreeOK
  <2> QED BY <1>3, <1>4, <1>6, <2>1 DEF TextInv
<1> QED BY <1>5, <1>6 DEF promised

\* The lock file of an import that is over, and what it promises.
LEMMA LockedAsImported ==
    ASSUME RunInv, pc \in Locked
    PROVE  /\ lock = LockData /\ LockOK(lock) /\ lock.rev \in Rev
           /\ Promised(lock) = Expected(CheckedOut, Mapping, Excluded, patches)
<1>1. /\ lock = LockData /\ run.upstream \in UpstreamData /\ run.rev \in Rev
  BY DEF RunInv, HasLocked, Started, HasClone, Cloned, Locked
<1>2. LockData \in UpstreamData /\ LockData.rev = run.rev
  BY <1>1, LockDataTyped
<1>3. LockData.only_subdir = run.upstream.only_subdir
  BY <1>1 DEF LockData, UpstreamData
<1>4. LockOK(lock)
  BY <1>1, <1>2, UpstreamThere DEF LockOK
<1> QED BY <1>1, <1>2, <1>3, <1>4 DEF Promised, CheckedOut, Mapping, Excluded

\* Everything that is at all times.
LockInv == RunInv /\ TreeInv /\ WholeInv /\ PlaceInv /\ ImportInv /\ StageInv

\* It is.
LEMMA LockInvariant == ASSUME FilesKeepTheirPlace PROVE Spec => []LockInv
<1>1. Init => LockInv
  BY RunStep, TreeStep, WholeStep, PlaceKept, ImportStep, StageStep DEF LockInv
<1>2. LockInv /\ [Next]_vars => LockInv'
  BY RunStep, TreeStep, WholeStep, PlaceKept, ImportStep, StageStep DEF LockInv
<1> QED BY <1>1, <1>2, PTL DEF Spec

\* "Import finished" is said only when the target directory holds, up to files
\* rmtree could not remove, exactly what the lock file's revision, the mapping
\* and the patches say, each file with the text of the last item that puts one
\* there and its patches in order, whatever failed runs left before, where no
\* description copies a file to where a directory is made.
THEOREM FinishedRunsAreLocked == ASSUME FilesKeepTheirPlace PROVE Spec => []FinishedIsLocked
<1>1. LockInv => FinishedIsLocked
  <2> SUFFICES ASSUME LockInv, pc = "done" PROVE FinishedIsLocked
    BY DEF FinishedIsLocked
  <2> PICK promised : promised = Promised(lock)
    OBVIOUS
  <2>1. LockOK(lock) /\ lock.rev \in Rev
    BY LockedAsImported DEF LockInv, Locked
  <2>2. /\ DOMAIN promised \subseteq DOMAIN target.files
        /\ \A f \in DOMAIN promised : target.files[f] = promised[f]
        /\ DOMAIN target.files \ DOMAIN promised \subseteq run.kept
    BY LockedAsImported, ImportedAsPromised DEF LockInv, Locked, Imported
  <2> QED BY <2>1, <2>2 DEF FinishedIsLocked
<1> QED BY <1>1, LockInvariant, PTL

\* What is staged when a run commits, and what the head becomes.
LEMMA CommitTakesIndex ==
    ASSUME RunInv, StageInv, Next, head' # head
    PROVE  /\ pc = "commit" /\ head' = index /\ index.lock = lock
           /\ index.patches = IF run.args.refresh THEN patches ELSE head.patches
           /\ ~run.args.refresh => head.patches \subseteq patches
<1>1. pc = "commit" /\ head' = index
  BY DEF Next, Step, Start, Unlink, FetchPatches, ExportPatch, Clone, RemoveTarget, NextItem,
         CopyItem, ApplyPatch, Truncate, WriteLock, Stage, Commit, Finish, Fail, World, Push,
         Rebase, Edit, Reset, git
<1>2. index.lock = lock
  BY <1>1 DEF RunInv, HasLocked
<1> QED BY <1>1, <1>2 DEF StageInv

\* A commit that changes the patches of a patch repository is one of a refresh
\* and holds one whole export: not a part of a refresh that failed, not two
\* refreshes mixed, however often a refresh fails half-way and whatever the
\* repository is rebased on; and a run without a refresh leaves them alone.
THEOREM PatchesStayWhole == Spec => CommittedPatchesAreWhole
<1> DEFINE A ==
      head' # head =>
          \/ Unnamed(head'.patches) = Unnamed(head.patches)
          \/ run.args.refresh /\ Unnamed(head'.patches) \in {Export(r) : r \in Rev}
           Inv == RunInv /\ TreeInv /\ WholeInv /\ StageInv
<1>1. Inv /\ [Next]_vars => [A]_vars
  <2> SUFFICES ASSUME Inv, Next, head' # head PROVE A
    BY DEF vars, git
  <2>1. /\ pc = "commit" /\ head' = index
        /\ index.patches = IF run.args.refresh THEN patches ELSE head.patches
    BY CommitTakesIndex
  <2>2. CASE run.args.refresh
    <3>1. Old \in Exported
      BY <2>1, <2>2 DEF WholeInv
    <3>2. Unnamed(head'.patches) = Old
      BY <2>1, <2>2 DEF Unnamed, Old
    <3> QED BY <2>2, <3>1, <3>2 DEF Exported
  <2>3. CASE ~run.args.refresh
    BY <2>1, <2>3
  <2> QED BY <2>2, <2>3
<1>2. Init => Inv
  BY RunStep, TreeStep, WholeStep, StageStep
<1>3. Inv /\ [Next]_vars => Inv'
  BY RunStep, TreeStep, WholeStep, StageStep
<1> HIDE DEF Inv
<1>4. Spec => [][A]_vars
  BY <1>1, <1>2, <1>3, PTL DEF Spec
<1> QED BY <1>4, PTL DEF CommittedPatchesAreWhole

\* A commit can be made again from what is in it: its files are, but for those
\* .gitignore names and those rmtree could not remove, what the lock file and
\* the patches of the same commit say, unless the run read patches that git has
\* never seen and did not refresh them.  The import stands as it was made while
\* the lock file is written and git add takes it, a refresh takes its patches
\* along, and the clean working directory a run begins with has all the others.
THEOREM CommitsAreReproducible == ASSUME FilesKeepTheirPlace PROVE Spec => CommitIsReproducible
<1> DEFINE A ==
      head' # head /\ (run.args.refresh \/ patches \subseteq head.patches) => Reproducible(head')
<1>1. LockInv /\ [Next]_vars => [A]_vars
  <2> SUFFICES ASSUME LockInv, Next, head' # head, run.args.refresh \/ patches \subseteq head.patches
               PROVE  Reproducible(head')
    BY DEF vars, git
  <2>1. /\ pc = "commit" /\ head' = index /\ head'.lock = lock
        /\ index.patches = IF run.args.refresh THEN patches ELSE head.patches
        /\ ~run.args.refresh => head.patches \subseteq patches
    BY CommitTakesIndex DEF LockInv
  <2>2. head'.patches = patches
    BY <2>1
  <2> PICK own : own = Own(head')
    OBVIOUS
  <2>3. own = Promised(lock)
    BY <2>1, <2>2 DEF Own, Promised
  <2>4. LockOK(lock) /\ lock.rev \in Rev
    BY <2>1, LockedAsImported DEF LockInv, Locked
  <2>5. /\ DOMAIN own \subseteq DOMAIN target.files
        /\ \A f \in DOMAIN own : target.files[f] = own[f]
        /\ DOMAIN target.files \ DOMAIN own \subseteq run.kept
    BY <2>1, <2>3, LockedAsImported, ImportedAsPromised DEF LockInv, Locked, Imported
  <2>6. /\ DOMAIN target.files \ GitIgnored \subseteq DOMAIN index.files
        /\ \A f \in DOMAIN index.files :
              f \in DOMAIN target.files /\ index.files[f] = target.files[f]
    BY <2>1 DEF LockInv, StageInv
  <2>7. /\ DOMAIN own \ GitIgnored \subseteq DOMAIN head'.files
        /\ \A f \in DOMAIN own \cap DOMAIN head'.files : head'.files[f] = own[f]
        /\ DOMAIN head'.files \ DOMAIN own \subseteq run.kept
    BY <2>1, <2>5, <2>6
  <2> QED BY <2>1, <2>4, <2>7 DEF Reproducible
<1>2. Spec => [][A]_vars
  BY <1>1, LockInvariant, PTL DEF Spec
<1> QED BY <1>2 DEF CommitIsReproducible
=============================================================================
