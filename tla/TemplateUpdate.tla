---------------------------- MODULE TemplateUpdate ----------------------------
(***************************************************************************)
(* How a repository generated from the template follows it: the scheduled  *)
(* workflow template-update.yml, the two scripts it runs, the provenance   *)
(* that internal/platform/template records, the pull requests the workflow *)
(* opens and the people who merge them, customise the repository, or run   *)
(* the updater by hand.                                                    *)
(*                                                                         *)
(* The template is one line of commits, numbered from 1; a release is a    *)
(* commit with a version tag, and its version is named by its number.  The *)
(* content of a file is the set of template commits merged into it.  A run *)
(* of the workflow works on a checkout of its own, so everything it does   *)
(* between two steps that others can see is one action.                    *)
(***************************************************************************)
EXTENDS Integers, Sequences, FiniteSets

CONSTANTS
  Paths,           \* files of the template
  Owned,           \* those in application_owned_paths
  Workflows,       \* runs of the workflow that may overlap
  RunnerIdentity,  \* whether the runner's git knows an author before the
                   \* workflow configures one
  Edits,           \* bound: the sets of files one commit may change
  Kinds,           \* bound: the kinds of commit the template may hold
  GeneratedBy,     \* bound: commits before the repository is generated
  MaxCommits,      \* bound: the template's history
  MaxLocal         \* bound: files the project edits

ASSUME TemplateAssumption ==
  /\ Owned \subseteq Paths
  /\ RunnerIdentity \in BOOLEAN
  /\ Edits \subseteq SUBSET Paths
  /\ Kinds \subseteq {"plain", "breaking", "incompatible", "deleting"}
  /\ GeneratedBy \in 1..MaxCommits
  /\ MaxCommits \in Nat
  /\ MaxLocal \in Nat

VARIABLES
  template,  \* the template's history
  main,      \* the derived repository's main branch
  branch,    \* its branches chore/template-update-<version>, and their PRs
  job        \* the runs of the workflow

vars == <<template, main, branch, job>>

\* A "deleting" commit removes a file that is not one of Paths.
\* A commit carries the version its manifest declares, the last release's.
Commit == [touched : SUBSET Paths, kind : Kinds, version : 1..MaxCommits]

\* .template/manifest.json: template_commit, 0 when it is empty or is no
\* commit of the template; template_version; and the declared compatibility.
Manifest(n) == [commit : 0..n, version : 1..n, compat : SUBSET (1..n)]

\* A checkout: the template commits merged into each file, the files the
\* project has edited, and the manifest.
Checkout(n) ==
  [merged : [Paths -> SUBSET (1..n)], local : SUBSET Paths, manifest : Manifest(n)]

-----------------------------------------------------------------------------
(* The template.                                                           *)

\* The history of file p up to commit c.
Content(p, c) == {k \in 1..c : p \in template[k].touched}

\* A release is a commit that declares its own number, and it is tagged.
LatestRelease == template[Len(template)].version

\* The compatibility it declares changes with every incompatible commit.
CompatAt(c) == {k \in 1..c : template[k].kind = "incompatible"}

\* What `git diff from to` shows of file p, and of the others.
Changes(p, from, to) == Content(p, to) \ Content(p, from)

\* Mutant of Crosses: only the target commit is looked at.
TargetIs(from, to, kind) == from < to /\ template[to].kind = kind

\* Whether a commit of a kind lies after from and up to to.
Crosses(from, to, kind) == \E k \in (from + 1)..to : template[k].kind = kind

-----------------------------------------------------------------------------
(* scripts/template-update.sh on a checkout.                               *)

Exists(tree, p) == tree.merged[p] # {} \/ p \in tree.local

\* Mutant of Recorded: an empty template_commit is taken as a commit.
RecordedOrEmpty(tree) == {tree.manifest.commit, tree.manifest.version}

\* The commits the script lets its caller start from.
Recorded(tree) == {tree.manifest.commit, tree.manifest.version} \ {0}

\* Mutant of Patched: the ownership file is not read.
PatchedWithOwned(tree, from, to) ==
  {p \in Paths :
     /\ Changes(p, from, to) # {}
     /\ ~ (p \notin tree.local /\ tree.merged[p] = Content(p, to))}

\* The files the patch touches: an application-owned file is left out once
\* it exists, and a file already equal to the target is skipped.
Patched(tree, from, to) ==
  {p \in Paths :
     /\ Changes(p, from, to) # {}
     /\ ~ (p \in Owned /\ Exists(tree, p))
     /\ ~ (p \notin tree.local /\ tree.merged[p] = Content(p, to))}

\* Mutant of Accepted: the caller's --from-commit is trusted.
AcceptedFromAnywhere(tree, from, to) ==
  /\ from < to
  /\ tree.manifest.compat = CompatAt(to)
  /\ ~ Crosses(from, to, "deleting")

\* Mutant of Accepted: the target need not descend from the start.
AcceptedBackwards(tree, from, to) ==
  /\ from \in Recorded(tree)
  /\ tree.manifest.compat = CompatAt(to)
  /\ ~ Crosses(from, to, "deleting")

\* The checks that stop it before it writes anything.
Accepted(tree, from, to) ==
  /\ from \in Recorded(tree)
  /\ from < to
  /\ tree.manifest.compat = CompatAt(to)
  /\ ~ Crosses(from, to, "deleting")

\* A patch creates files that are absent and changes files that are there.
Applicable(tree, from, to) ==
  \A p \in Patched(tree, from, to) : Exists(tree, p) <=> Content(p, from) # {}

\* The patch applies for sure to files that are as the template had them.
Pristine(tree, from, to) ==
  \A p \in Patched(tree, from, to) :
    p \notin tree.local /\ tree.merged[p] = Content(p, from)

Patch(tree, from, to) ==
  [p \in Paths |-> IF p \in Patched(tree, from, to)
                   THEN tree.merged[p] \cup Changes(p, from, to)
                   ELSE tree.merged[p]]

\* RecordProvenance, and the metadata copied from the target's manifest.
Provenance(to) ==
  [commit |-> to, version |-> template[to].version, compat |-> CompatAt(to)]

\* The script may succeed, and it may fail.
MaySucceed(tree, from, to) ==
  Accepted(tree, from, to) /\ Applicable(tree, from, to)
MayFail(tree, from, to) ==
  ~ Accepted(tree, from, to) \/ ~ Pristine(tree, from, to)

-----------------------------------------------------------------------------
(* A run of the workflow: its three steps.                                 *)

Idle == [step |-> "idle"]
NoBranch == [pr |-> "none"]
Closed == [pr |-> "closed"]

Abandon(w) == job' = [job EXCEPT ![w] = Idle]

\* Step Detect.  The recorded commit is used if it can be fetched; when the
\* template does not have it, or the fetch fails, the tag of the recorded
\* version is used instead.
Detect(w) ==
  /\ job[w] = Idle
  /\ \E from \in Recorded(main) :
       LET to == LatestRelease IN
       /\ from # to \/ from # main.manifest.commit
       /\ job' = [job EXCEPT ![w] =
            [step |-> "apply", base |-> main, from |-> from, to |-> to]]
  /\ UNCHANGED <<template, main, branch>>

\* template-update-bootstrap.sh copies the target's metadata.  The workflow
\* then commits the manifest if that changed it, and needs an author to.
Bootstrapped(tree, to) == [tree EXCEPT !.manifest.compat = CompatAt(to)]
CanBootstrap(tree, to) == RunnerIdentity \/ tree.manifest.compat = CompatAt(to)

\* What step Apply may commit.  When the content is the latest release's it
\* records the provenance and nothing else; otherwise it runs both scripts.
Outcomes(tree, from, to) ==
  LET synced == Bootstrapped(tree, to)
      repaired == [commit |-> from, version |-> to, compat |-> tree.manifest.compat]
  IN  IF from = to
      THEN {[merged |-> tree.merged, manifest |-> repaired]}
      ELSE {u \in {[merged |-> Patch(synced, from, to), manifest |-> Provenance(to)]} :
              CanBootstrap(tree, to) /\ MaySucceed(synced, from, to)}

\* The push that ends step Apply.  The branch is named for the version, and
\* the push is refused if the branch exists.
ApplyAndPush(w) ==
  /\ job[w].step = "apply"
  /\ LET j == job[w] IN
       /\ branch[j.to] = NoBranch
       /\ \E u \in Outcomes(j.base, j.from, j.to) :
            branch' = [branch EXCEPT ![j.to] =
              [ pr |-> "missing", flagged |-> FALSE, onto |-> j.base.manifest,
                creates |-> {p \in Paths : ~ Exists(j.base, p) /\ u.merged[p] # {}},
                merged |-> u.merged, manifest |-> u.manifest ]]
       /\ job' = [job EXCEPT ![w] =
            [step |-> "open", from |-> j.from, to |-> j.to]]
  /\ UNCHANGED <<template, main>>

\* Step Open: the title carries the report's `breaking` line.  A second
\* request for a branch is refused, and so is one for a branch that is gone.
OpenPullRequest(w) ==
  /\ job[w].step = "open"
  /\ LET v == job[w].to IN
       /\ branch[v].pr = "missing"
       /\ branch' = [branch EXCEPT
            ![v].pr = "open",
            ![v].flagged = Crosses(job[w].from, v, "breaking")]
  /\ Abandon(w)
  /\ UNCHANGED <<template, main>>

\* The run ends with an error: a script refuses or cannot apply the patch,
\* the push or the request is refused, or the runner is lost.
Fail(w) ==
  /\ job[w] # Idle
  /\ Abandon(w)
  /\ UNCHANGED <<template, main, branch>>

-----------------------------------------------------------------------------
(* People.                                                                 *)

\* git conflicts when main's manifest is no longer the one the branch started
\* from, and on a file that both sides have created.
Mergeable(v) ==
  /\ branch[v].pr = "open"
  /\ branch[v].onto = main.manifest
  /\ \A p \in branch[v].creates : ~ Exists(main, p)

Merge(v) ==
  /\ Mergeable(v)
  /\ main' = [main EXCEPT
       !.merged = [p \in Paths |-> main.merged[p] \cup branch[v].merged[p]],
       !.manifest = branch[v].manifest]
  /\ branch' = [branch EXCEPT ![v] = Closed]
  /\ UNCHANGED <<template, job>>

Close(v) ==
  /\ branch[v].pr = "open"
  /\ branch' = [branch EXCEPT ![v] = Closed]
  /\ UNCHANGED <<template, main, job>>

DeleteBranch(v) ==
  /\ branch[v].pr \in {"missing", "closed"}
  /\ branch' = [branch EXCEPT ![v] = NoBranch]
  /\ UNCHANGED <<template, main, job>>

\* The project edits a file, or creates it.
Customise(p) ==
  /\ p \notin main.local
  /\ Cardinality(main.local) < MaxLocal
  /\ main' = [main EXCEPT !.local = @ \cup {p}]
  /\ UNCHANGED <<template, branch, job>>

\* The updater, run by hand on main and pushed.  After a report of conflicts,
\* or a refusal that asks for a manual migration, the same changes are made
\* by hand and the provenance is recorded.
UpdateByHand(from, to) ==
  /\ \/ MaySucceed(main, from, to)
     \/ from \in Recorded(main) /\ from < to /\ MayFail(main, from, to)
  /\ main' = [main EXCEPT !.merged = Patch(main, from, to),
                          !.manifest = Provenance(to)]
  /\ UNCHANGED <<template, branch, job>>

-----------------------------------------------------------------------------
\* A commit on the template's main branch, which may be the next release.
Publish ==
  /\ Len(template) < MaxCommits
  /\ \E touched \in Edits, kind \in Kinds,
        version \in {LatestRelease, Len(template) + 1} :
       template' = Append(template,
         [touched |-> touched, kind |-> kind, version |-> version])
  /\ UNCHANGED <<main, branch, job>>

\* Every commit of a history declares the last release before it.
Versioned(t) ==
  \A c \in 1..Len(t) : LET r == t[c].version IN
    r <= c /\ t[r].version = r /\ \A s \in (r + 1)..c : t[s].version # s

\* The first commit is a release with every managed file; an application-owned
\* file may appear in the template later.
Histories(n) ==
  {t \in [1..n -> Commit] :
     /\ Versioned(t)
     /\ Paths \ Owned \subseteq t[1].touched /\ t[1].kind = "plain"
     /\ \A c \in 2..n : t[c].touched \in Edits}

\* setup.sh records the commit of the version's tag, unless it is given one
\* or finds none; the files are those of the head it was generated from.
Init ==
  /\ \E n \in 1..GeneratedBy : template \in Histories(n)
  /\ LET head == Len(template) IN
     \E commit \in {0, LatestRelease, head} :
       main = [ merged   |-> [p \in Paths |-> Content(p, head)],
                local    |-> {},
                manifest |-> [Provenance(head) EXCEPT !.commit = commit] ]
  /\ branch = [v \in 1..MaxCommits |-> NoBranch]
  /\ job = [w \in Workflows |-> Idle]

Next ==
  \/ Publish
  \/ \E w \in Workflows :
       Detect(w) \/ ApplyAndPush(w) \/ OpenPullRequest(w) \/ Fail(w)
  \/ \E v \in 1..MaxCommits : Merge(v) \/ Close(v) \/ DeleteBranch(v)
  \/ \E p \in Paths : Customise(p)
  \/ \E from, to \in 1..Len(template) : UpdateByHand(from, to)

Spec == Init /\ [][Next]_vars

-----------------------------------------------------------------------------
(* Properties.                                                             *)

Branch(n) ==
  {NoBranch, Closed} \cup
    [ pr : {"missing", "open"}, flagged : BOOLEAN, onto : Manifest(n),
      creates : SUBSET Paths, merged : [Paths -> SUBSET (1..n)],
      manifest : Manifest(n) ]

Job(n) ==
  {Idle}
    \cup [step : {"apply"}, base : Checkout(n), from : 1..n, to : 1..n]
    \cup [step : {"open"}, from : 1..n, to : 1..n]

TypeOK ==
  LET n == Len(template) IN
  /\ template \in Seq(Commit) /\ n \in 1..MaxCommits
  /\ main \in Checkout(n)
  /\ branch \in [1..MaxCommits -> Branch(n)]
  /\ job \in [Workflows -> Job(n)]

\* The commit a manifest says the content is based on.
Base(manifest) == IF manifest.commit = 0 THEN manifest.version ELSE manifest.commit

\* The provenance main records is honest: every change the template made up
\* to the recorded commit to a file it manages has been merged.
ProvenanceHonest ==
  \A p \in Paths \ Owned : Content(p, Base(main.manifest)) \subseteq main.merged[p]

\* The version main records never goes back, whoever updates it and in
\* whatever order pull requests are merged.
VersionNeverRegresses == [][main'.manifest.version >= main.manifest.version]_vars

\* Once an application-owned file exists in main, no template change is ever
\* merged into it, through a pull request or by hand.
OwnedFilesKept ==
  [][\A p \in Owned :
       Exists(main, p) => main'.merged[p] = main.merged[p]]_vars

\* A pull request that can be merged and brings a breaking commit's changes
\* to a file that lacks them says so in its title.
BreakingIsAnnounced ==
  \A v \in 1..MaxCommits : \A p \in Paths :
    Mergeable(v) /\ (\E k \in branch[v].merged[p] \ main.merged[p] :
                       template[k].kind = "breaking")
      => branch[v].flagged

\* What docs/template-maintenance.md says of the workflow: an update that
\* changes the declared compatibility is refused, never proposed.
CompatibilityIsManual ==
  \A v \in 1..MaxCommits :
    branch[v].pr = "open" => branch[v].manifest.compat = branch[v].onto.compat
=============================================================================
