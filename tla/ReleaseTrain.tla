----------------------------- MODULE ReleaseTrain ---------------------------
(* scripts/release.ts: bump the version in every file that carries it,     *)
(* write the notes, commit, push, wait for CI on the pushed commit, tag,   *)
(* push the tag, publish.  The script stops at the first command that      *)
(* fails and is run again, with or without `git checkout .` in between,    *)
(* while developers commit in the same clone and CI runs come and go.      *)
EXTENDS Integers, Sequences, FiniteSets

CONSTANTS
    VersionFiles,  \* files of VERSION_TARGETS and the lockfiles
    LockFiles,     \* the lockfiles
    PackageJson,   \* the one that the current version is read from
    Releases,      \* bound on runs of the script
    CommitLimit,   \* bound on commits of the clone
    VersionMax     \* bound on a part of a version

ASSUME ReleaseAssumption ==
    /\ IsFiniteSet(VersionFiles) /\ PackageJson \in VersionFiles \ LockFiles /\ LockFiles \subseteq VersionFiles
    /\ {Releases, CommitLimit, VersionMax} \subseteq Nat

VARIABLES
    branch,    \* commits of the branch: version of each file, commits its notes cover
    tree,      \* the working tree: version of each file, the notes written
    main,      \* commits of origin/main
    ci,        \* by commit: the state of its CI run
    tags,      \* tags of the clone: version, commit, and whether nobody else committed meanwhile
    origin,    \* tags that origin has
    script,    \* the run of the script
    runs       \* runs so far

releaseVars == <<branch, tree, main, ci, tags, origin, script, runs>>

Versions == (0..VersionMax) \X (0..VersionMax) \X (0..VersionMax)
FirstVersion == <<0, 0, 0>>
Off == [at |-> "off", current |-> FirstVersion, new |-> FirstVersion, since |-> 0, todo |-> {},
        failures |-> 0, sha |-> 0, alone |-> TRUE]

ReleaseInit ==
    /\ branch = <<[files |-> [f \in VersionFiles |-> FirstVersion], notes |-> {}, release |-> TRUE]>>
    /\ tree = [files |-> [f \in VersionFiles |-> FirstVersion], notes |-> {}]
    /\ main = 1 /\ ci = <<"passed">>
    /\ tags = {[version |-> FirstVersion, of |-> 1, alone |-> TRUE]} /\ origin = tags
    /\ script = Off /\ runs = 0

Tip == Len(branch)
Clean == tree = [files |-> branch[Tip].files, notes |-> {}]
ScriptAt(stage) == script.at = stage
Script(s) == script' = s
ScriptTo(stage) == Script([script EXCEPT !.at = stage])

\* process.exit(1): what the script has done so far stays.
Exit == Script(Off)

-----------------------------------------------------------------------------
(* Versions.                                                               *)

\* compareSemver: is a below b?
Below(a, b) ==
    \/ a[1] < b[1]
    \/ a[1] = b[1] /\ a[2] < b[2]
    \/ a[1] = b[1] /\ a[2] = b[2] /\ a[3] < b[3]

\* bumpVersion: major, minor, patch, or any explicit version above the current one.
Bumped(v) == {<<v[1] + 1, 0, 0>>, <<v[1], v[2] + 1, 0>>, <<v[1], v[2], v[3] + 1>>}
BumpVersion(v) == (Bumped(v) \cup {w \in Versions : Below(v, w)}) \cap Versions

\* Mutant: the nearest release commit.
LastReleaseCommit == CHOOSE c \in DOMAIN branch : branch[c].release /\ \A d \in DOMAIN branch : branch[d].release => d <= c

\* getLastTag: `git describe` finds the nearest tag behind HEAD.
LastTag == LET behind == {t.of : t \in tags} IN CHOOSE c \in behind : \A d \in behind : d <= c

-----------------------------------------------------------------------------
(* The script.                                                             *)

StartRelease ==
    /\ ScriptAt("off") /\ runs < Releases /\ runs' = runs + 1 /\ Clean
    /\ \E new \in BumpVersion(tree.files[PackageJson]) :
         Script([Off EXCEPT !.at = "bump", !.current = tree.files[PackageJson], !.new = new,
                           !.since = LastTag, !.todo = VersionFiles])
    /\ UNCHANGED <<branch, tree, main, ci, tags, origin>>

\* updateVersionInFile: a file that does not carry the current version is left alone and
\* counted.
UpdateVersionInFile(f) ==
    /\ ScriptAt("bump") /\ f \in script.todo \ LockFiles
    /\ IF tree.files[f] = script.current
       THEN /\ tree' = [tree EXCEPT !.files[f] = script.new]
            /\ Script([script EXCEPT !.todo = @ \ {f}])
       ELSE /\ Script([script EXCEPT !.todo = @ \ {f}, !.failures = @ + 1])
            /\ UNCHANGED tree
    /\ UNCHANGED <<branch, main, ci, tags, origin, runs>>

\* syncBunLockVersions, which throws where the version is another one, and `cargo update`, which
\* takes the version of the manifest whatever was there and may fail by itself (ReleaseFails).
\* A run starts from a clean tree, in which all files agree: the ELSE stands for the first.
SyncLock(f) ==
    /\ ScriptAt("bump") /\ f \in script.todo /\ script.todo \subseteq LockFiles /\ script.failures = 0
    /\ IF tree.files[f] = script.current
       THEN /\ tree' = [tree EXCEPT !.files[f] = script.new]
            /\ Script([script EXCEPT !.todo = @ \ {f}])
       ELSE Exit /\ UNCHANGED tree
    /\ UNCHANGED <<branch, main, ci, tags, origin, runs>>

\* Any failure ends the run before the lockfiles.
CheckBump ==
    /\ ScriptAt("bump")
    /\ IF script.failures > 0 THEN script.todo \subseteq LockFiles /\ Exit
       ELSE script.todo = {} /\ ScriptTo("notes")
    /\ UNCHANGED <<branch, tree, main, ci, tags, origin, runs>>

\* getCommitsSinceTag, classifyCommits, updateChangelog: release commits are left out.
UpdateChangelog ==
    /\ ScriptAt("notes")
    /\ LET covered == {c \in (script.since + 1)..Tip : ~branch[c].release}
       IN /\ tree' = [tree EXCEPT !.notes = covered]
          /\ ScriptTo("commit")
    /\ UNCHANGED <<branch, main, ci, tags, origin, runs>>

\* filesToStage.
Staged == VersionFiles

\* The scan for stale versions, `git add` of the files by name and `git commit`; the scan
\* or a hook may refuse.
CommitRelease ==
    /\ ScriptAt("commit") /\ Tip < CommitLimit
    /\ branch' = Append(branch, [files |-> [f \in VersionFiles |-> IF f \in Staged THEN tree.files[f] ELSE branch[Tip].files[f]],
                                   notes |-> tree.notes, release |-> TRUE])
    /\ ci' = Append(ci, "none") /\ tree' = [tree EXCEPT !.notes = {}]
    /\ Script([script EXCEPT !.at = "push"])
    /\ UNCHANGED <<main, tags, origin, runs>>

\* `git push` of the branch, then `git rev-parse HEAD`.
Push ==
    /\ ScriptAt("push")
    /\ main' = Tip /\ ci' = [c \in DOMAIN ci |-> IF c = Tip /\ ci[c] = "none" THEN "running" ELSE ci[c]]
    /\ ScriptTo("resolve")
    /\ UNCHANGED <<branch, tree, tags, origin, runs>>

RevParse ==
    /\ ScriptAt("resolve") /\ Script([script EXCEPT !.at = "ci", !.sha = Tip])
    /\ UNCHANGED <<branch, tree, main, ci, tags, origin, runs>>

\* waitForCiSuccess: the run that is found, watched and viewed again is the push of this
\* very commit, completed with success.
CiSuccess(c) == ci[c] = "passed"

WaitForCiSuccess ==
    /\ ScriptAt("ci") /\ CiSuccess(script.sha) /\ ScriptTo("tag")
    /\ UNCHANGED <<branch, tree, main, ci, tags, origin, runs>>

\* `git tag -a`: HEAD, under a name that must be free.
CreateTag ==
    /\ ScriptAt("tag")
    /\ IF \E t \in tags : t.version = script.new THEN Exit /\ UNCHANGED tags
       ELSE tags' = tags \cup {[version |-> script.new, of |-> Tip, alone |-> script.alone]} /\ ScriptTo("pushTags")
    /\ UNCHANGED <<branch, tree, main, ci, origin, runs>>

\* `git push --tags`; the GitHub release that follows changes nothing here.
PushTags ==
    /\ ScriptAt("pushTags") /\ origin' = origin \cup tags /\ Exit
    /\ UNCHANGED <<branch, tree, main, ci, tags, runs>>

\* Any command may fail or time out, or the script is interrupted.
ReleaseFails ==
    /\ script.at # "off" /\ Exit
    /\ UNCHANGED <<branch, tree, main, ci, tags, origin, runs>>

-----------------------------------------------------------------------------
(* The developers and CI.                                                  *)

\* A developer commits something else in the clone, files of the release not included.
DeveloperCommits ==
    /\ Tip < CommitLimit
    /\ branch' = Append(branch, [files |-> branch[Tip].files, notes |-> {}, release |-> FALSE])
    /\ ci' = Append(ci, "none")
    /\ script' = IF script.at \in {"off", "bump", "notes"} THEN script ELSE [script EXCEPT !.alone = FALSE]
    /\ UNCHANGED <<tree, main, tags, origin, runs>>

\* `git checkout .`, as the messages advise.
Checkout ==
    /\ ScriptAt("off") /\ ~Clean /\ tree' = [files |-> branch[Tip].files, notes |-> {}]
    /\ UNCHANGED <<branch, main, ci, tags, origin, script, runs>>

\* CI proves a commit, the first time or when it is run again ...
CiPasses(c) ==
    /\ ci[c] \in {"running", "failed"} /\ ci' = [ci EXCEPT ![c] = "passed"]
    /\ UNCHANGED <<branch, tree, main, tags, origin, script, runs>>

\* ... or not.
CiFails(c) ==
    /\ ci[c] = "running" /\ ci' = [ci EXCEPT ![c] = "failed"]
    /\ UNCHANGED <<branch, tree, main, tags, origin, script, runs>>

-----------------------------------------------------------------------------
ReleaseNext ==
    \/ StartRelease \/ (\E f \in VersionFiles : UpdateVersionInFile(f) \/ SyncLock(f)) \/ CheckBump \/ UpdateChangelog
    \/ CommitRelease \/ Push \/ RevParse \/ WaitForCiSuccess \/ CreateTag \/ PushTags \/ ReleaseFails
    \/ DeveloperCommits \/ Checkout
    \/ \E c \in DOMAIN branch : CiPasses(c) \/ CiFails(c)

ReleaseSpec == ReleaseInit /\ [][ReleaseNext]_releaseVars

-----------------------------------------------------------------------------
(* Properties.                                                             *)

\* A tag is source that CI proved on this very commit (the gate of main), as long as nobody
\* commits in the clone while the script waits: `git tag` takes HEAD, not the pushed commit.
TagsAreProven == \A t \in tags : t.alone => ci[t.of] = "passed"

\* Every file of a tagged commit carries the version of the tag, whatever failed before and
\* whoever committed meanwhile.
TaggedFilesAgree == \A t \in tags : \A f \in VersionFiles : branch[t.of].files[f] = t.version

\* The notes of a tagged release cover every commit since the tag before it, also when
\* releases in between have failed after their commit (getCommitsSinceTag).
NotesComplete ==
    \A t \in tags : t.alone /\ t.of > 1 =>
        LET before == {u.of : u \in {v \in tags : v.of < t.of}}
        IN \A c \in 1..t.of : (~branch[c].release /\ \A b \in before : b < c) => c \in branch[t.of].notes

\* Later tags are higher versions.
TagsGoUp ==
    LET Number(v) == (v[1] * (VersionMax + 2) + v[2]) * (VersionMax + 2) + v[3]
    IN \A t, u \in tags : t.of < u.of => Number(t.version) < Number(u.version)

\* What is tagged can be released, through steps that fail, scripts that are started again
\* and people who commit meanwhile: proven, of one version, higher than before, and noted.
TagsSound ==
    /\ TagsAreProven
    /\ TaggedFilesAgree
    /\ NotesComplete
    /\ TagsGoUp
=============================================================================
