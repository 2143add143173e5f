------------------------ MODULE TemplateUpdate_proofs ------------------------
(***************************************************************************)
(* Proofs about TemplateUpdate, for any files, any history of the template *)
(* and any number of overlapping workflow runs.                            *)
(*                                                                         *)
(* A patch from a recorded commit adds what lies between it and the target *)
(* to content that already held everything up to it, so a checkout whose   *)
(* provenance is honest is left honest.  Runs and pull requests only ever  *)
(* hold such checkouts, and a merge adds to what main already has.  Main   *)
(* has what precedes any commit a run starts from, so what a request adds  *)
(* comes after it, where its report looks.                                 *)
(***************************************************************************)
EXTENDS TemplateUpdate, SequenceTheorems, TLAPS

\* The version is a release, and is not ahead of the recorded commit.
Sound(manifest) ==
  /\ template[manifest.version].version = manifest.version
  /\ manifest.commit = 0 \/ manifest.version <= manifest.commit

Honest(merged, manifest) ==
  \A p \in Paths \ Owned : Content(p, Base(manifest)) \subseteq merged[p]

SoundTree(tree) == Sound(tree.manifest) /\ Honest(tree.merged, tree.manifest)

\* What a branch would make of the main branch it started from.
SoundBranch(b) ==
  b.pr \in {"missing", "open"} =>
    SoundTree(b) /\ b.manifest.version >= b.onto.version

SoundJob(j) ==
  j.step = "apply" =>
    SoundTree(j.base) /\ j.from \in Recorded(j.base) /\ template[j.to].version = j.to

IInv ==
  /\ TypeOK
  /\ Versioned(template)
  /\ SoundTree(main)
  /\ \A v \in 1..MaxCommits : SoundBranch(branch[v])
  /\ \A w \in Workflows : SoundJob(job[w])

-----------------------------------------------------------------------------
(* Histories.                                                              *)

\* What a commit of the template declares.
LEMMA DeclaredVersion ==
  ASSUME TypeOK, Versioned(template), NEW c \in 1..Len(template)
  PROVE  /\ template[c].version \in 1..Len(template)
         /\ template[c].version <= c
         /\ template[template[c].version].version = template[c].version
         /\ \A r \in 1..c : template[r].version = r => r <= template[c].version
  <1>a. template \in Seq(Commit) /\ Len(template) \in 1..MaxCommits
    BY DEF TypeOK
  <1>b. template[c] \in Commit
    BY <1>a, ElementOfSeq
  <1>1. template[c] \in Commit /\ c \in 1..MaxCommits
    BY <1>a, <1>b, TemplateAssumption
  <1>2. template[c].version \in 1..MaxCommits
    BY <1>1 DEF Commit
  <1>3. /\ template[c].version <= c
        /\ template[template[c].version].version = template[c].version
        /\ \A s \in (template[c].version + 1)..c : template[s].version # s
    BY DEF Versioned
  <1> QED
    BY <1>1, <1>2, <1>3 DEF TypeOK

\* The provenance of a commit is well typed and sound.
LEMMA ProvenanceSound ==
  ASSUME TypeOK, Versioned(template), NEW to \in 1..Len(template)
  PROVE  Provenance(to) \in Manifest(Len(template)) /\ Sound(Provenance(to))
  <1>1. CompatAt(to) \subseteq 1..Len(template)
    BY DEF CompatAt, TypeOK
  <1> QED
    BY <1>1, DeclaredVersion DEF Provenance, Manifest, Sound, TypeOK

\* The patch leaves an honest checkout honest, and takes its version forward.
LEMMA PatchHonest ==
  ASSUME TypeOK, Versioned(template), NEW tree \in Checkout(Len(template)),
         SoundTree(tree), NEW from \in Recorded(tree), NEW to \in 1..Len(template),
         from < to
  PROVE  /\ Patch(tree, from, to) \in [Paths -> SUBSET (1..Len(template))]
         /\ Honest(Patch(tree, from, to), Provenance(to))
         /\ Provenance(to).version >= tree.manifest.version
  <1> DEFINE m == tree.manifest
  <1>1. /\ m \in Manifest(Len(template)) /\ Len(template) \in Nat
        /\ m.commit \in 0..Len(template) /\ m.version \in 1..Len(template)
        /\ tree.merged \in [Paths -> SUBSET (1..Len(template))]
    BY DEF Checkout, Manifest, TypeOK
  <1>2. from \in 1..Len(template) /\ from <= Base(m) /\ m.version <= from
    BY <1>1 DEF Recorded, Base, SoundTree, Sound
  <1>3. ASSUME NEW p \in Paths
        PROVE  Changes(p, from, to) \subseteq 1..Len(template)
    BY <1>1 DEF Changes, Content
  <1>4. Patch(tree, from, to) \in [Paths -> SUBSET (1..Len(template))]
    BY <1>1, <1>3 DEF Patch
  <1>5. ASSUME NEW p \in Paths \ Owned
        PROVE  Content(p, to) \subseteq Patch(tree, from, to)[p]
    <2>1. Content(p, from) \subseteq tree.merged[p]
      <3>1. Content(p, from) \subseteq Content(p, Base(m))
        BY <1>1, <1>2 DEF Content, Base
      <3> QED
        BY <3>1 DEF SoundTree, Honest
    <2>2. CASE p \in Patched(tree, from, to)
      BY <2>1, <2>2 DEF Patch, Changes
    <2>3. CASE p \notin Patched(tree, from, to)
      <3>1. Changes(p, from, to) = {} \/ tree.merged[p] = Content(p, to)
        BY <2>3 DEF Patched
      <3> QED
        BY <2>1, <2>3, <3>1 DEF Patch, Changes
    <2> QED
      BY <2>2, <2>3
  <1>6. Base(Provenance(to)) = to
    BY DEF Base, Provenance
  <1>7. m.version <= template[to].version
    <2>1. m.version \in 1..to /\ template[m.version].version = m.version
      BY <1>1, <1>2 DEF SoundTree, Sound
    <2> QED
      BY <2>1, DeclaredVersion
  <1>8. Provenance(to).version >= m.version
    BY <1>1, <1>7, DeclaredVersion DEF Provenance
  <1> QED
    BY <1>4, <1>5, <1>6, <1>8 DEF Honest

-----------------------------------------------------------------------------
(* Types.                                                                  *)

\* The types of a longer history include those of a shorter one.
LEMMA TypesGrow ==
  ASSUME NEW n \in Nat
  PROVE  /\ Manifest(n) \subseteq Manifest(n + 1)
         /\ Checkout(n) \subseteq Checkout(n + 1)
         /\ Branch(n) \subseteq Branch(n + 1)
         /\ Job(n) \subseteq Job(n + 1)
  <1>1. 0..n \subseteq 0..(n + 1) /\ 1..n \subseteq 1..(n + 1)
    OBVIOUS
  <1>2. SUBSET (1..n) \subseteq SUBSET (1..(n + 1))
    BY <1>1
  <1>3. Manifest(n) \subseteq Manifest(n + 1)
    BY <1>1, <1>2 DEF Manifest
  <1>4. [Paths -> SUBSET (1..n)] \subseteq [Paths -> SUBSET (1..(n + 1))]
    BY <1>2
  <1>5. Checkout(n) \subseteq Checkout(n + 1)
    BY <1>3, <1>4 DEF Checkout
  <1>6. Branch(n) \subseteq Branch(n + 1)
    BY <1>3, <1>4 DEF Branch
  <1>7. Job(n) \subseteq Job(n + 1)
    BY <1>1, <1>5 DEF Job
  <1> QED
    BY <1>3, <1>5, <1>6, <1>7

\* A commit is added to the template: all that is known of the commits
\* before it stays true.
LEMMA PublishStep ==
  ASSUME IInv, Publish
  PROVE  IInv'
  <1> DEFINE n == Len(template)
  <1>1. template \in Seq(Commit) /\ n \in 1..MaxCommits /\ MaxCommits \in Nat
    BY TemplateAssumption DEF IInv, TypeOK
  <1>2. PICK c \in Commit : /\ template' = Append(template, c)
                            /\ c.version \in {template[n].version, n + 1}
    <2>1. template[n].version \in 1..n
      BY <1>1, DeclaredVersion DEF IInv
    <2>2. PICK touched \in Edits, kind \in Kinds, version \in {LatestRelease, n + 1} :
            template' = Append(template,
              [touched |-> touched, kind |-> kind, version |-> version])
      BY DEF Publish
    <2>3. touched \in SUBSET Paths /\ version \in 1..MaxCommits
      BY <1>1, <2>1, <2>2, TemplateAssumption DEF LatestRelease, Publish
    <2> QED
      BY <2>2, <2>3 DEF Commit, LatestRelease
  <1>3. /\ template' \in Seq(Commit) /\ Len(template') = n + 1
        /\ \A k \in 1..n : template'[k] = template[k]
        /\ template'[n + 1] = c
    BY <1>1, <1>2
  <1>4. n + 1 \in 1..MaxCommits
    BY <1>1 DEF Publish
  <1>5. main' = main /\ branch' = branch /\ job' = job
    BY DEF Publish
  <1>6. TypeOK'
    <2>1. /\ main \in Checkout(n + 1)
          /\ branch \in [1..MaxCommits -> Branch(n + 1)]
          /\ job \in [Workflows -> Job(n + 1)]
      BY <1>1, TypesGrow DEF IInv, TypeOK
    <2> QED
      BY <1>3, <1>4, <1>5, <2>1 DEF TypeOK
  <1>7. Versioned(template')
    <2>1. ASSUME NEW k \in 1..n
          PROVE  /\ template[k].version \in 1..k
                 /\ template[template[k].version].version = template[k].version
                 /\ \A s \in (template[k].version + 1)..k : template[s].version # s
      BY <1>1, DeclaredVersion DEF IInv, Versioned
    <2>2. ASSUME NEW k \in 1..n
          PROVE  LET r == template'[k].version IN
                   /\ r <= k /\ template'[r].version = r
                   /\ \A s \in (r + 1)..k : template'[s].version # s
      <3>1. template[k].version \in 1..n /\ template'[k] = template[k]
        BY <1>1, <1>3, <2>1
      <3>2. template'[template[k].version] = template[template[k].version]
        BY <1>3, <3>1
      <3>3. ASSUME NEW s \in (template[k].version + 1)..k
            PROVE  template'[s].version # s
        <4>1. s \in 1..n
          BY <1>1, <3>1
        <4> QED
          BY <1>3, <2>1, <4>1
      <3> QED
        BY <2>1, <3>1, <3>2, <3>3
    <2>3. LET r == template'[n + 1].version IN
            /\ r <= n + 1 /\ template'[r].version = r
            /\ \A s \in (r + 1)..(n + 1) : template'[s].version # s
      <3>1. CASE c.version = n + 1
        BY <1>1, <1>3, <3>1
      <3>2. CASE c.version = template[n].version
        <4>1. c.version \in 1..n /\ template'[c.version].version = c.version
          BY <1>1, <1>3, <2>1, <3>2
        <4>2. ASSUME NEW s \in (c.version + 1)..(n + 1)
              PROVE  template'[s].version # s
          <5>1. CASE s = n + 1
            BY <1>1, <1>3, <4>1, <5>1
          <5>2. CASE s # n + 1
            <6>1. s \in (template[n].version + 1)..n /\ s \in 1..n
              BY <1>1, <3>2, <4>1, <5>2
            <6> QED
              BY <1>1, <1>3, <2>1, <6>1
          <5> QED
            BY <5>1, <5>2
        <4> QED
          BY <1>1, <1>3, <4>1, <4>2
      <3> QED
        BY <1>2, <3>1, <3>2
    <2> QED
      BY <1>1, <1>3, <2>2, <2>3 DEF Versioned
  <1>8. ASSUME NEW m \in Manifest(n), Sound(m)
        PROVE  Sound(m)'
    BY <1>1, <1>3, <1>8 DEF Sound, Manifest
  <1>9. ASSUME NEW m \in Manifest(n), NEW merged, Honest(merged, m)
        PROVE  Honest(merged, m)'
    <2>1. Base(m) \in 1..n
      BY <1>1 DEF Base, Manifest
    <2>2. \A p \in Paths : Content(p, Base(m))' = Content(p, Base(m))
      BY <1>1, <1>3, <2>1 DEF Content, Base
    <2> QED
      BY <1>9, <2>2 DEF Honest
  <1>10. SoundTree(main)'
    BY <1>5, <1>8, <1>9 DEF IInv, TypeOK, Checkout, SoundTree
  <1>11. ASSUME NEW v \in 1..MaxCommits
         PROVE  SoundBranch(branch[v])'
    <2>1. branch[v] \in Branch(n) /\ SoundBranch(branch[v])
      BY DEF IInv, TypeOK
    <2>2. CASE branch[v].pr \in {"missing", "open"}
      <3>1. branch[v].manifest \in Manifest(n)
        BY <2>1, <2>2 DEF Branch, NoBranch, Closed
      <3> QED
        BY <1>5, <1>8, <1>9, <2>1, <2>2, <3>1 DEF SoundBranch, SoundTree
    <2>3. CASE branch[v].pr \notin {"missing", "open"}
      BY <1>5, <2>3 DEF SoundBranch
    <2> QED
      BY <2>2, <2>3
  <1>12. ASSUME NEW w \in Workflows
         PROVE  SoundJob(job[w])'
    <2>1. job[w] \in Job(n) /\ SoundJob(job[w])
      BY DEF IInv, TypeOK
    <2>2. CASE job[w].step = "apply"
      <3>1. /\ job[w].base.manifest \in Manifest(n)
            /\ job[w].to \in 1..n
        BY <2>1, <2>2 DEF Job, Idle, Checkout
      <3> QED
        BY <1>3, <1>5, <1>8, <1>9, <2>1, <2>2, <3>1 DEF SoundJob, SoundTree, Recorded
    <2>3. CASE job[w].step # "apply"
      BY <1>5, <2>3 DEF SoundJob
    <2> QED
      BY <2>2, <2>3
  <1> QED
    BY <1>5, <1>6, <1>7, <1>10, <1>11, <1>12 DEF IInv

-----------------------------------------------------------------------------
(* Steps of workflow runs and of people.                                   *)

\* The definitions whose value depends on the template alone, besides their
\* arguments.
LEMMA SameTemplate ==
  ASSUME template' = template
  PROVE  /\ Versioned(template)' <=> Versioned(template)
         /\ \A tree : SoundTree(tree)' <=> SoundTree(tree)
         /\ \A b : SoundBranch(b)' <=> SoundBranch(b)
         /\ \A j : SoundJob(j)' <=> SoundJob(j)
  BY DEF SoundTree, Sound, Honest, Content, SoundBranch, SoundJob, Versioned,
         Recorded, Base

\* Step Detect starts from what main records and goes to a release.
LEMMA DetectStep ==
  ASSUME IInv, NEW w \in Workflows, Detect(w)
  PROVE  IInv'
  <1> DEFINE n == Len(template)
  <1>1. n \in 1..MaxCommits /\ MaxCommits \in Nat /\ main \in Checkout(n)
    BY TemplateAssumption DEF IInv, TypeOK
  <1>2. PICK from \in Recorded(main) :
          job' = [job EXCEPT ![w] =
            [step |-> "apply", base |-> main, from |-> from, to |-> LatestRelease]]
    BY DEF Detect
  <1> DEFINE j == [step |-> "apply", base |-> main, from |-> from, to |-> LatestRelease]
  <1>3. from \in 1..n
    BY <1>1 DEF Recorded, Checkout, Manifest
  <1>4. LatestRelease \in 1..n /\ template[LatestRelease].version = LatestRelease
    BY <1>1, DeclaredVersion DEF IInv, LatestRelease
  <1>5. j \in Job(n) /\ SoundJob(j)
    BY <1>1, <1>3, <1>4 DEF Job, SoundJob, IInv
  <1>6. UNCHANGED <<template, main, branch>>
    BY DEF Detect
  <1>7. job' \in [Workflows -> Job(n)] /\ \A u \in Workflows : SoundJob(job'[u])
    BY <1>2, <1>5 DEF IInv, TypeOK
  <1> QED
    BY <1>6, <1>7, SameTemplate DEF IInv, TypeOK

\* What step Apply may commit is well typed and honest, and its version is
\* not behind the one it started from.
LEMMA OutcomeSound ==
  ASSUME IInv, NEW w \in Workflows, job[w].step = "apply",
         NEW u \in Outcomes(job[w].base, job[w].from, job[w].to)
  PROVE  /\ u.merged \in [Paths -> SUBSET (1..Len(template))]
         /\ u.manifest \in Manifest(Len(template))
         /\ SoundTree(u)
         /\ u.manifest.version >= job[w].base.manifest.version
  <1> DEFINE n == Len(template)
             tree == job[w].base
             from == job[w].from
             to == job[w].to
             synced == Bootstrapped(tree, to)
  <1>1. /\ n \in Nat /\ tree \in Checkout(n) /\ from \in 1..n /\ to \in 1..n
        /\ SoundTree(tree) /\ from \in Recorded(tree) /\ template[to].version = to
    BY DEF IInv, TypeOK, Job, Idle, SoundJob
  <1>2. /\ tree.manifest \in Manifest(n)
        /\ tree.manifest.version \in 1..n /\ tree.manifest.commit \in 0..n
        /\ tree.merged \in [Paths -> SUBSET (1..n)] /\ tree.local \in SUBSET Paths
    BY <1>1 DEF Checkout, Manifest
  <1>3. CASE from = to
    <2>1. u = [merged |-> tree.merged,
               manifest |-> [commit |-> from, version |-> to,
                             compat |-> tree.manifest.compat]]
      BY <1>3 DEF Outcomes
    <2>2. /\ u.manifest \in Manifest(n)
          /\ u.manifest.commit = to /\ u.manifest.version = to
      <3>1. u.manifest = [commit |-> from, version |-> to, compat |-> tree.manifest.compat]
        BY <2>1
      <3>2. tree.manifest.compat \in SUBSET (1..n) /\ from \in 0..n
        BY <1>1, <1>2 DEF Manifest
      <3> QED
        BY <1>1, <1>3, <3>1, <3>2 DEF Manifest
    <2>3. from <= Base(tree.manifest) /\ tree.manifest.version <= from
      BY <1>1, <1>2 DEF Recorded, Base, SoundTree, Sound
    <2>4. Honest(u.merged, u.manifest)
      BY <1>1, <1>2, <1>3, <2>1, <2>2, <2>3 DEF Honest, SoundTree, Base, Content
    <2> QED
      BY <1>1, <1>2, <1>3, <2>1, <2>2, <2>3, <2>4 DEF SoundTree, Sound
  <1>4. CASE from # to
    <2>1. /\ u = [merged |-> Patch(synced, from, to), manifest |-> Provenance(to)]
          /\ from < to
      BY <1>4 DEF Outcomes, MaySucceed, Accepted
    <2>2. CompatAt(to) \in SUBSET (1..n)
      BY <1>1 DEF CompatAt
    <2>3. /\ synced \in Checkout(n) /\ synced.merged = tree.merged
          /\ synced.manifest.commit = tree.manifest.commit
          /\ synced.manifest.version = tree.manifest.version
      BY <1>1, <1>2, <2>2 DEF Bootstrapped, Checkout, Manifest
    <2>4. SoundTree(synced) /\ from \in Recorded(synced)
      BY <1>1, <2>3 DEF SoundTree, Sound, Honest, Base, Recorded
    <2>5. /\ Patch(synced, from, to) \in [Paths -> SUBSET (1..n)]
          /\ Honest(Patch(synced, from, to), Provenance(to))
          /\ Provenance(to).version >= synced.manifest.version
      BY <1>1, <2>1, <2>3, <2>4, PatchHonest DEF IInv
    <2>6. Provenance(to) \in Manifest(n) /\ Sound(Provenance(to))
      BY <1>1, ProvenanceSound DEF IInv
    <2> QED
      BY <2>1, <2>3, <2>5, <2>6 DEF SoundTree
  <1> QED
    BY <1>3, <1>4

\* Step Apply and its push: the branch holds what the scripts left.
LEMMA ApplyStep ==
  ASSUME IInv, NEW w \in Workflows, ApplyAndPush(w)
  PROVE  IInv'
  <1> DEFINE n == Len(template)
             j == job[w]
  <1>1. /\ n \in Nat /\ j.base \in Checkout(n) /\ j.from \in 1..n /\ j.to \in 1..n
        /\ j.step = "apply"
    BY DEF IInv, TypeOK, Job, Idle, ApplyAndPush
  <1>2. PICK u \in Outcomes(j.base, j.from, j.to) :
          branch' = [branch EXCEPT ![j.to] =
            [ pr |-> "missing", flagged |-> FALSE, onto |-> j.base.manifest,
              creates |-> {p \in Paths : ~ Exists(j.base, p) /\ u.merged[p] # {}},
              merged |-> u.merged, manifest |-> u.manifest ]]
    BY DEF ApplyAndPush
  <1>3. /\ u.merged \in [Paths -> SUBSET (1..n)] /\ u.manifest \in Manifest(n)
        /\ SoundTree(u) /\ u.manifest.version >= j.base.manifest.version
    BY <1>1, OutcomeSound
  <1> DEFINE creates == {p \in Paths : ~ Exists(j.base, p) /\ u.merged[p] # {}}
             b == [ pr |-> "missing", flagged |-> FALSE, onto |-> j.base.manifest,
                    creates |-> creates, merged |-> u.merged, manifest |-> u.manifest ]
             opening == [step |-> "open", from |-> j.from, to |-> j.to]
  <1>4. creates \in SUBSET Paths /\ j.base.manifest \in Manifest(n)
    BY <1>1 DEF Checkout
  <1> HIDE DEF creates
  <1>5. b \in Branch(n) /\ SoundBranch(b)
    BY <1>3, <1>4 DEF Branch, SoundBranch, SoundTree
  <1>6. opening \in Job(n) /\ SoundJob(opening)
    BY <1>1 DEF Job, SoundJob
  <1>7. /\ branch' = [branch EXCEPT ![j.to] = b]
        /\ job' = [job EXCEPT ![w] = opening]
        /\ UNCHANGED <<template, main>>
    BY <1>2 DEF ApplyAndPush, creates
  <1>8. /\ branch' \in [1..MaxCommits -> Branch(n)]
        /\ \A v \in 1..MaxCommits : SoundBranch(branch'[v])
    BY <1>5, <1>7 DEF IInv, TypeOK
  <1>9. job' \in [Workflows -> Job(n)] /\ \A k \in Workflows : SoundJob(job'[k])
    BY <1>6, <1>7 DEF IInv, TypeOK
  <1> QED
    BY <1>7, <1>8, <1>9, SameTemplate DEF IInv, TypeOK

\* A run that gives up, leaving the rest as it is.
LEMMA AbandonJob ==
  ASSUME IInv, NEW w \in Workflows, Abandon(w)
  PROVE  /\ job' \in [Workflows -> Job(Len(template))]
         /\ \A u \in Workflows : SoundJob(job'[u])
  BY DEF Abandon, IInv, TypeOK, Job, Idle, SoundJob

\* Opening the request changes neither what the branch holds nor its base.
LEMMA OpenStep ==
  ASSUME IInv, NEW w \in Workflows, OpenPullRequest(w)
  PROVE  IInv'
  <1> DEFINE n == Len(template)
             v == job[w].to
             flag == Crosses(job[w].from, v, "breaking")
             b == [branch[v] EXCEPT !.pr = "open", !.flagged = flag]
  <1>1. /\ v \in 1..n /\ branch[v].pr = "missing" /\ flag \in BOOLEAN
        /\ n \in 1..MaxCommits /\ MaxCommits \in Nat
    BY TemplateAssumption DEF IInv, TypeOK, Job, Idle, OpenPullRequest, Crosses
  <1>2. branch[v] \in Branch(n) /\ SoundBranch(branch[v])
    BY <1>1 DEF IInv, TypeOK
  <1>3. branch' = [branch EXCEPT ![v] = b] /\ Abandon(w) /\ UNCHANGED <<template, main>>
    BY DEF OpenPullRequest
  <1> HIDE DEF flag
  <1>4. b \in Branch(n) /\ SoundBranch(b)
    <2>1. branch[v] \in [ pr : {"missing", "open"}, flagged : BOOLEAN,
                          onto : Manifest(n), creates : SUBSET Paths,
                          merged : [Paths -> SUBSET (1..n)], manifest : Manifest(n) ]
      BY <1>1, <1>2 DEF Branch, NoBranch, Closed
    <2>2. b \in Branch(n)
      BY <1>1, <2>1 DEF Branch
    <2>3. /\ b.merged = branch[v].merged /\ b.manifest = branch[v].manifest
          /\ b.onto = branch[v].onto
      BY <2>1
    <2> QED
      BY <1>1, <1>2, <2>2, <2>3 DEF SoundBranch, SoundTree
  <1>5. /\ branch' \in [1..MaxCommits -> Branch(n)]
        /\ \A k \in 1..MaxCommits : SoundBranch(branch'[k])
    BY <1>3, <1>4 DEF IInv, TypeOK
  <1> QED
    BY <1>3, <1>5, AbandonJob, SameTemplate DEF IInv, TypeOK

\* Failing leaves only an idle run.
LEMMA FailStep ==
  ASSUME IInv, NEW w \in Workflows, Fail(w)
  PROVE  IInv'
  BY AbandonJob, SameTemplate DEF Fail, IInv, TypeOK

\* A merge takes the branch's manifest, and adds its content to main's.
LEMMA MergeStep ==
  ASSUME IInv, NEW v \in 1..MaxCommits, Merge(v)
  PROVE  IInv' /\ main'.manifest.version >= main.manifest.version
  <1> DEFINE n == Len(template)
             b == branch[v]
             merged == [p \in Paths |-> main.merged[p] \cup b.merged[p]]
  <1>1. /\ b \in Branch(n) /\ b.pr = "open" /\ b.onto = main.manifest
        /\ main' = [main EXCEPT !.merged = merged, !.manifest = b.manifest]
        /\ branch' = [branch EXCEPT ![v] = Closed]
        /\ UNCHANGED <<template, job>>
    BY DEF IInv, TypeOK, Merge, Mergeable
  <1>2. /\ b.merged \in [Paths -> SUBSET (1..n)] /\ b.manifest \in Manifest(n)
        /\ SoundTree(b) /\ b.manifest.version >= b.onto.version
    BY <1>1 DEF Branch, NoBranch, Closed, IInv, SoundBranch
  <1>3. main.merged \in [Paths -> SUBSET (1..n)] /\ main \in Checkout(n)
    BY DEF IInv, TypeOK, Checkout
  <1>4. merged \in [Paths -> SUBSET (1..n)]
    BY <1>2, <1>3
  <1>5. Honest(merged, b.manifest)
    BY <1>2 DEF SoundTree, Honest
  <1> HIDE DEF merged
  <1>6. /\ main' \in Checkout(n)
        /\ main'.merged = merged /\ main'.manifest = b.manifest
    BY <1>1, <1>2, <1>3, <1>4 DEF Checkout
  <1>7. SoundTree(main')
    BY <1>2, <1>5, <1>6 DEF SoundTree
  <1>8. /\ branch' \in [1..MaxCommits -> Branch(n)]
        /\ \A k \in 1..MaxCommits : SoundBranch(branch'[k])
    BY <1>1 DEF IInv, TypeOK, Branch, SoundBranch, Closed
  <1> QED
    BY <1>1, <1>2, <1>6, <1>7, <1>8, SameTemplate DEF IInv, TypeOK

\* Closing a request and deleting a branch only forget.
LEMMA ForgetStep ==
  ASSUME IInv, NEW v \in 1..MaxCommits, Close(v) \/ DeleteBranch(v)
  PROVE  IInv'
  <1>1. /\ \/ branch' = [branch EXCEPT ![v] = Closed]
           \/ branch' = [branch EXCEPT ![v] = NoBranch]
        /\ UNCHANGED <<template, main, job>>
    BY DEF Close, DeleteBranch
  <1>2. ASSUME NEW b \in {Closed, NoBranch}, branch' = [branch EXCEPT ![v] = b]
        PROVE  /\ branch' \in [1..MaxCommits -> Branch(Len(template))]
               /\ \A k \in 1..MaxCommits : SoundBranch(branch'[k])
    <2>1. b \in Branch(Len(template)) /\ SoundBranch(b)
      BY DEF Branch, SoundBranch, Closed, NoBranch
    <2> QED
      BY <1>2, <2>1 DEF IInv, TypeOK
  <1> QED
    BY <1>1, <1>2, SameTemplate DEF IInv, TypeOK

\* The project's own edits touch no template content and no provenance.
LEMMA CustomiseStep ==
  ASSUME IInv, NEW p \in Paths, Customise(p)
  PROVE  IInv'
  <1>1. main' = [main EXCEPT !.local = main.local \cup {p}]
    BY DEF Customise
  <1>2. main \in Checkout(Len(template)) /\ SoundTree(main)
    BY DEF IInv, TypeOK
  <1>3. main' \in Checkout(Len(template))
    BY <1>1, <1>2 DEF Checkout
  <1>4. SoundTree(main')
    BY <1>1, <1>2 DEF Checkout, SoundTree
  <1> QED
    BY <1>3, <1>4, SameTemplate DEF IInv, TypeOK, Customise

\* The updater on main, or its work done by hand.
LEMMA HandStep ==
  ASSUME IInv, NEW from \in 1..Len(template), NEW to \in 1..Len(template),
         UpdateByHand(from, to)
  PROVE  IInv' /\ main'.manifest.version >= main.manifest.version
  <1> DEFINE n == Len(template)
             merged == Patch(main, from, to)
  <1>1. /\ main' = [main EXCEPT !.merged = merged, !.manifest = Provenance(to)]
        /\ UNCHANGED <<template, branch, job>>
        /\ from \in Recorded(main) /\ from < to
    BY DEF UpdateByHand, MaySucceed, Accepted
  <1>2. main \in Checkout(n) /\ SoundTree(main)
    BY DEF IInv, TypeOK
  <1>3. /\ merged \in [Paths -> SUBSET (1..n)] /\ Honest(merged, Provenance(to))
        /\ Provenance(to).version >= main.manifest.version
    BY <1>1, <1>2, PatchHonest DEF IInv
  <1>4. Provenance(to) \in Manifest(n) /\ Sound(Provenance(to))
    BY ProvenanceSound DEF IInv
  <1> HIDE DEF merged
  <1>5. /\ main' \in Checkout(n)
        /\ main'.merged = merged /\ main'.manifest = Provenance(to)
    BY <1>1, <1>2, <1>3, <1>4 DEF Checkout
  <1>6. SoundTree(main')
    BY <1>3, <1>4, <1>5 DEF SoundTree
  <1> QED
    BY <1>1, <1>3, <1>5, <1>6, SameTemplate DEF IInv, TypeOK

-----------------------------------------------------------------------------
(* The theorems.                                                           *)

\* A repository as setup.sh leaves it satisfies the invariant.
LEMMA InitEstablishes == Init => IInv
  <1> SUFFICES ASSUME Init
               PROVE  IInv
    OBVIOUS
  <1>1. PICK n \in 1..GeneratedBy : template \in Histories(n)
    BY DEF Init
  <1>2. n \in 1..MaxCommits /\ n \in Nat
    BY <1>1, TemplateAssumption
  <1>3. /\ template \in [1..n -> Commit] /\ Versioned(template)
    BY <1>1 DEF Histories
  <1>4. template \in Seq(Commit) /\ Len(template) = n
    <2>1. template \in Seq(Commit)
      BY <1>2, <1>3, SeqDef
    <2> QED
      BY <1>2, <1>3, <2>1, LenProperties
  <1>5. /\ LatestRelease \in 1..n /\ LatestRelease <= n
        /\ template[LatestRelease].version = LatestRelease
    <2>1. template[n] \in Commit
      BY <1>2, <1>3
    <2>2. template[n].version \in 1..MaxCommits
      BY <2>1 DEF Commit
    <2>3. template[n].version <= n /\ template[template[n].version].version = template[n].version
      BY <1>2, <1>3, <1>4 DEF Versioned
    <2> QED
      BY <1>2, <1>4, <2>2, <2>3, TemplateAssumption DEF LatestRelease
  <1>6. PICK commit \in {0, LatestRelease, n} :
          main = [ merged |-> [p \in Paths |-> Content(p, n)], local |-> {},
                   manifest |-> [Provenance(n) EXCEPT !.commit = commit] ]
    BY <1>4 DEF Init
  <1>7. CompatAt(n) \in SUBSET (1..n) /\ \A p \in Paths : Content(p, n) \in SUBSET (1..n)
    BY DEF CompatAt, Content
  <1>8. /\ main.manifest =
             [commit |-> commit, version |-> LatestRelease, compat |-> CompatAt(n)]
        /\ main.merged = [p \in Paths |-> Content(p, n)] /\ main.local = {}
    BY <1>4, <1>6 DEF Provenance, LatestRelease
  <1>9. main \in Checkout(n)
    <2>1. main.manifest \in Manifest(n)
      BY <1>2, <1>5, <1>6, <1>7, <1>8 DEF Manifest
    <2> QED
      BY <1>6, <1>7, <1>8, <2>1 DEF Checkout
  <1>10. SoundTree(main)
    <2>1. Base(main.manifest) <= n /\ Sound(main.manifest)
      BY <1>2, <1>5, <1>6, <1>8 DEF Base, Sound
    <2>2. Base(main.manifest) \in 1..n
      BY <1>2, <1>5, <1>6, <1>8 DEF Base
    <2> QED
      BY <1>2, <1>8, <2>1, <2>2 DEF SoundTree, Honest, Content
  <1>11. /\ branch \in [1..MaxCommits -> Branch(n)]
         /\ \A v \in 1..MaxCommits : SoundBranch(branch[v])
    BY DEF Init, Branch, NoBranch, SoundBranch
  <1>12. job \in [Workflows -> Job(n)] /\ \A w \in Workflows : SoundJob(job[w])
    BY DEF Init, Job, Idle, SoundJob
  <1> QED
    BY <1>2, <1>3, <1>4, <1>9, <1>10, <1>11, <1>12 DEF IInv, TypeOK

\* Every step of the template, the workflow runs and the people preserves the
\* invariant, and none takes main's version back.
LEMMA StepPreserves ==
  ASSUME IInv, [Next]_vars
  PROVE  IInv' /\ main'.manifest.version >= main.manifest.version
  <1>1. main.manifest.version \in Nat
    BY DEF IInv, TypeOK, Checkout, Manifest
  <1>2. CASE UNCHANGED main /\ IInv'
    BY <1>1, <1>2
  <1>3. CASE Publish
    BY <1>2, <1>3, PublishStep DEF Publish
  <1>4. ASSUME NEW w \in Workflows,
               Detect(w) \/ ApplyAndPush(w) \/ OpenPullRequest(w) \/ Fail(w)
        PROVE  UNCHANGED main /\ IInv'
    BY <1>4, DetectStep, ApplyStep, OpenStep, FailStep
       DEF Detect, ApplyAndPush, OpenPullRequest, Fail
  <1>5. ASSUME NEW v \in 1..MaxCommits, Close(v) \/ DeleteBranch(v)
        PROVE  UNCHANGED main /\ IInv'
    BY <1>5, ForgetStep DEF Close, DeleteBranch
  <1>6. ASSUME NEW p \in Paths, Customise(p)
        PROVE  IInv' /\ main'.manifest = main.manifest
    BY <1>6, CustomiseStep DEF Customise, IInv, TypeOK, Checkout
  <1>7. CASE UNCHANGED vars
    BY <1>2, <1>7, SameTemplate DEF vars, IInv, TypeOK
  <1> QED
    BY <1>1, <1>2, <1>3, <1>4, <1>5, <1>6, <1>7, MergeStep, HandStep DEF Next

\* The invariant holds in every state of every behaviour.
THEOREM InductiveInvariant == Spec => []IInv
  <1>1. IInv /\ [Next]_vars => IInv'
    BY StepPreserves
  <1> QED
    BY <1>1, InitEstablishes, PTL DEF Spec

\* Type correctness.
THEOREM TypeCorrect == Spec => []TypeOK
  <1>1. IInv => TypeOK
    BY DEF IInv
  <1> QED
    BY <1>1, InductiveInvariant, PTL

\* Whatever the interleaving of releases, overlapping runs, merges, edits and
\* updates by hand, the provenance main records is honest.
THEOREM ProvenanceAlwaysHonest == Spec => []ProvenanceHonest
  <1>1. IInv => ProvenanceHonest
    BY DEF IInv, SoundTree, Honest, ProvenanceHonest
  <1> QED
    BY <1>1, InductiveInvariant, PTL

\* No step takes the version main records back.
THEOREM VersionMonotone == Spec => VersionNeverRegresses
  <1>1. IInv /\ [Next]_vars => [main'.manifest.version >= main.manifest.version]_vars
    BY StepPreserves
  <1> QED
    BY <1>1, InductiveInvariant, PTL DEF Spec, VersionNeverRegresses

-----------------------------------------------------------------------------
(* What main already has of a checkout, a branch and a starting commit.    *)

\* Main has what the template did to every file up to commit c, but for files
\* that the project owns.
Brought(p, c) == Content(p, c) \subseteq main.merged[p] \/ (p \in Owned /\ Exists(main, p))
Known(c) == \A p \in Paths : Brought(p, c)

\* What branch b of version v adds to file p.
Adds(b, v, p) ==
  /\ b.merged[p] \subseteq main.merged[p] \cup Content(p, v)
  /\ p \in Owned /\ p \notin b.creates => b.merged[p] \subseteq main.merged[p]
  /\ \/ Content(p, b.manifest.commit) \subseteq main.merged[p] \cup b.merged[p]
     \/ p \in Owned /\ Exists(main, p)

\* Its title announces what lies after a commit that main has.
Announced(b, v) ==
  b.pr = "open" =>
    \E f \in 1..Len(template) : Known(f) /\ (Crosses(f, v, "breaking") => b.flagged)

\* A pushed branch of version v may be merged into main as far as it goes.
FittingBranch(b, v) ==
  b.pr \in {"missing", "open"} =>
    /\ v <= Len(template) /\ b.manifest.commit # 0
    /\ \A p \in Paths : Adds(b, v, p)
    /\ Announced(b, v)

\* Main has grown from the checkout of a run.
Extends(tree) ==
  /\ \A p \in Paths : tree.merged[p] \subseteq main.merged[p]
  /\ tree.local \subseteq main.local

\* A run starts from a commit that main has, on a checkout main grew from.
FittingJob(j) ==
  /\ j.step = "apply" => Extends(j.base)
  /\ j.step \in {"apply", "open"} => Known(j.from)

\* Everything in flight fits main.
Fitting ==
  /\ \A c \in Recorded(main) : Known(c)
  /\ \A v \in 1..MaxCommits : FittingBranch(branch[v], v)
  /\ \A w \in Workflows : FittingJob(job[w])

\* Main only ever gains content and edits.
Grows ==
  /\ template' = template
  /\ \A p \in Paths : main.merged[p] \subseteq main'.merged[p]
  /\ main.local \subseteq main'.local

\* A patch adds template content only, and what a file lacks of the target
\* unless the project owns it.
LEMMA PatchBrings ==
  ASSUME NEW tree, NEW from \in Nat, NEW to \in Nat, from < to, NEW p \in Paths
  PROVE  LET q == Patch(tree, from, to)[p] IN
         /\ tree.merged[p] \subseteq q
         /\ q \subseteq tree.merged[p] \cup Content(p, to)
         /\ Content(p, to) \subseteq Content(p, from) \cup q \/ (p \in Owned /\ Exists(tree, p))
         /\ p \in Owned /\ Exists(tree, p) => q = tree.merged[p]
  <1> DEFINE q == Patch(tree, from, to)[p]
  <1>1. CASE p \in Patched(tree, from, to)
    <2>1. q = tree.merged[p] \cup Changes(p, from, to)
      BY <1>1 DEF Patch
    <2>2. ~ (p \in Owned /\ Exists(tree, p))
      BY <1>1 DEF Patched
    <2> QED
      BY <2>1, <2>2 DEF Changes
  <1>2. CASE p \notin Patched(tree, from, to)
    <2>1. q = tree.merged[p]
      BY <1>2 DEF Patch
    <2>2. \/ Changes(p, from, to) = {}
          \/ p \in Owned /\ Exists(tree, p)
          \/ tree.merged[p] = Content(p, to)
      BY <1>2 DEF Patched
    <2> QED
      BY <2>1, <2>2 DEF Changes
  <1> QED
    BY <1>1, <1>2

\* What main has, it keeps.
LEMMA GrowthKeeps ==
  ASSUME Grows
  PROVE  /\ \A c : Known(c) => Known(c)'
         /\ \A b, v : FittingBranch(b, v) => FittingBranch(b, v)'
         /\ \A j : FittingJob(j) => FittingJob(j)'
  <1>1. ASSUME NEW p \in Paths
        PROVE  /\ main.merged[p] \subseteq main'.merged[p]
               /\ Exists(main, p) => Exists(main, p)'
    BY DEF Grows, Exists
  <1>2. \A p, c : Content(p, c)' = Content(p, c)
    BY DEF Grows, Content
  <1>3. ASSUME NEW c, Known(c)
        PROVE  Known(c)'
    BY <1>1, <1>2, <1>3 DEF Known, Brought
  <1>4. ASSUME NEW b, NEW v, FittingBranch(b, v)
        PROVE  FittingBranch(b, v)'
    <2>1. ASSUME NEW p \in Paths, Adds(b, v, p)
          PROVE  Adds(b, v, p)'
      BY <1>1, <1>2, <2>1 DEF Adds
    <2>2. Announced(b, v) => Announced(b, v)'
      BY <1>3 DEF Announced, Grows, Crosses
    <2> QED
      BY <1>4, <2>1, <2>2 DEF FittingBranch, Grows
  <1>5. ASSUME NEW j, FittingJob(j)
        PROVE  FittingJob(j)'
    <2>1. Extends(j.base) => Extends(j.base)'
      BY <1>1 DEF Extends, Grows
    <2> QED
      BY <1>3, <1>5, <2>1 DEF FittingJob
  <1> QED
    BY <1>3, <1>4, <1>5

\* What main has up to a commit it has up to every earlier one.
LEMMA KnownDown ==
  ASSUME NEW c \in Nat, NEW d \in Nat, d <= c, Known(c)
  PROVE  Known(d)
  <1>1. \A p : Content(p, d) \subseteq Content(p, c)
    BY DEF Content
  <1> QED
    BY <1>1 DEF Known, Brought

\* After a merge or an update by hand, main has what its provenance says.
LEMMA RecordedKnown ==
  ASSUME IInv', NEW c, c # 0, main'.manifest.commit = c, Known(c)'
  PROVE  \A d \in Recorded(main)' : Known(d)'
  <1>1. /\ c \in Nat /\ main'.manifest.version \in Nat
        /\ main'.manifest.version <= c
    BY DEF IInv, TypeOK, Checkout, Manifest, SoundTree, Sound
  <1>2. ASSUME NEW d \in Nat, d <= c
        PROVE  Known(d)'
    <2>1. \A p : Content(p, d)' \subseteq Content(p, c)'
      BY <1>1, <1>2 DEF Content
    <2> QED
      BY <2>1 DEF Known, Brought
  <1> QED
    BY <1>1, <1>2 DEF Recorded

\* A new commit of the template comes after all that main, the branches and
\* the runs refer to.
LEMMA FittingPublish ==
  ASSUME IInv, Fitting, Publish
  PROVE  Fitting'
  <1> DEFINE n == Len(template)
  <1>1. /\ n \in Nat /\ template \in Seq(Commit)
        /\ Len(template') = n + 1
        /\ \A k \in 1..n : template'[k] = template[k]
    <2>1. PICK x : template' = Append(template, x)
      BY DEF Publish
    <2>2. template \in Seq(Commit) /\ n \in Nat
      BY TemplateAssumption DEF IInv, TypeOK
    <2>3. template \in Seq(Commit \cup {x})
      BY <2>2
    <2> QED
      BY <2>1, <2>2, <2>3, AppendProperties
  <1>2. UNCHANGED <<main, branch, job>>
    BY DEF Publish
  <1>3. \A p : \A c \in 0..n : Content(p, c)' = Content(p, c)
    BY <1>1 DEF Content
  <1>4. ASSUME NEW c \in 0..n
        PROVE  Known(c)' <=> Known(c)
    BY <1>2, <1>3 DEF Known, Brought, Exists
  <1>5. \A c \in Recorded(main) : c \in 0..n
    BY DEF Recorded, IInv, TypeOK, Checkout, Manifest
  <1>6. ASSUME NEW v \in 1..MaxCommits
        PROVE  FittingBranch(branch[v], v)'
    <2> DEFINE b == branch[v]
    <2>1. CASE b.pr \notin {"missing", "open"}
      BY <1>2, <2>1 DEF FittingBranch
    <2>2. CASE b.pr \in {"missing", "open"}
      <3>1. v \in 0..n /\ b.manifest.commit \in 0..n /\ FittingBranch(b, v)
        BY <2>2, TemplateAssumption
           DEF IInv, TypeOK, Branch, NoBranch, Closed, Manifest, Fitting, FittingBranch
      <3>2. \A p \in Paths : Adds(b, v, p)'
        BY <1>2, <1>3, <2>2, <3>1 DEF Adds, FittingBranch, Exists
      <3>3. Announced(b, v)'
        <4>1. \A f \in 1..n : Crosses(f, v, "breaking")' <=> Crosses(f, v, "breaking")
          BY <1>1, <3>1 DEF Crosses
        <4> QED
          BY <1>1, <1>2, <1>4, <2>2, <3>1, <4>1 DEF Announced, FittingBranch
      <3> QED
        BY <1>1, <1>2, <3>1, <3>2, <3>3 DEF FittingBranch
    <2> QED
      BY <2>1, <2>2
  <1>7. ASSUME NEW w \in Workflows
        PROVE  FittingJob(job[w])'
    <2>1. job[w].step \in {"apply", "open"} => job[w].from \in 0..n
      BY DEF IInv, TypeOK, Job, Idle
    <2> QED
      BY <1>2, <1>4, <2>1 DEF Fitting, FittingJob, Extends
  <1> QED
    BY <1>2, <1>4, <1>5, <1>6, <1>7 DEF Fitting, Recorded

\* A run starts from a commit that main records.
LEMMA FittingDetect ==
  ASSUME IInv, Fitting, NEW w \in Workflows, Detect(w)
  PROVE  Fitting'
  <1>1. PICK from \in Recorded(main) :
          job' = [job EXCEPT ![w] =
            [step |-> "apply", base |-> main, from |-> from, to |-> LatestRelease]]
    BY DEF Detect
  <1>2. UNCHANGED <<template, main, branch>>
    BY DEF Detect
  <1>3. Grows
    BY <1>2 DEF Grows
  <1>4. FittingJob([step |-> "apply", base |-> main, from |-> from, to |-> LatestRelease])
    BY DEF FittingJob, Extends, Fitting
  <1>5. \A u \in Workflows : FittingJob(job'[u])
    BY <1>1, <1>4 DEF Fitting, IInv, TypeOK
  <1> QED
    BY <1>2, <1>3, <1>5, GrowthKeeps DEF Fitting, Recorded

\* The branch adds what lies between two commits, and nothing to an owned file
\* that was there.
LEMMA FittingApply ==
  ASSUME IInv, Fitting, NEW w \in Workflows, ApplyAndPush(w)
  PROVE  Fitting'
  <1> DEFINE n == Len(template)
             j == job[w]
             tree == j.base
             synced == Bootstrapped(tree, j.to)
  <1>1. /\ n \in Nat /\ tree \in Checkout(n) /\ j.from \in 1..n /\ j.to \in 1..n
        /\ j.step = "apply" /\ FittingJob(j)
    BY DEF IInv, TypeOK, Job, Idle, ApplyAndPush, Fitting
  <1>2. PICK u \in Outcomes(tree, j.from, j.to) :
          branch' = [branch EXCEPT ![j.to] =
            [ pr |-> "missing", flagged |-> FALSE, onto |-> tree.manifest,
              creates |-> {p \in Paths : ~ Exists(tree, p) /\ u.merged[p] # {}},
              merged |-> u.merged, manifest |-> u.manifest ]]
    BY DEF ApplyAndPush
  <1> DEFINE b == [ pr |-> "missing", flagged |-> FALSE, onto |-> tree.manifest,
                    creates |-> {p \in Paths : ~ Exists(tree, p) /\ u.merged[p] # {}},
                    merged |-> u.merged, manifest |-> u.manifest ]
             opening == [step |-> "open", from |-> j.from, to |-> j.to]
  <1>3. /\ synced.merged = tree.merged
        /\ \A p \in Paths : Exists(synced, p) <=> Exists(tree, p)
    BY <1>1 DEF Bootstrapped, Checkout, Exists
  <1>4. /\ u.manifest.commit = j.to
        /\ \A p \in Paths :
             /\ u.merged[p] \subseteq tree.merged[p] \cup Content(p, j.to)
             /\ \/ Content(p, j.to) \subseteq Content(p, j.from) \cup u.merged[p]
                \/ p \in Owned /\ Exists(tree, p)
             /\ p \in Owned /\ Exists(tree, p) => u.merged[p] = tree.merged[p]
    <2>1. CASE j.from = j.to
      BY <2>1 DEF Outcomes
    <2>2. CASE j.from # j.to
      <3>1. /\ u = [merged |-> Patch(synced, j.from, j.to), manifest |-> Provenance(j.to)]
            /\ j.from < j.to
        BY <2>2 DEF Outcomes, MaySucceed, Accepted
      <3>2. u.manifest.commit = j.to /\ u.merged = Patch(synced, j.from, j.to)
        BY <3>1 DEF Provenance
      <3> QED
        <4>1. ASSUME NEW p \in Paths
              PROVE  LET q == Patch(synced, j.from, j.to)[p] IN
                     /\ synced.merged[p] \subseteq q
                     /\ q \subseteq synced.merged[p] \cup Content(p, j.to)
                     /\ \/ Content(p, j.to) \subseteq Content(p, j.from) \cup q
                        \/ p \in Owned /\ Exists(synced, p)
                     /\ p \in Owned /\ Exists(synced, p) => q = synced.merged[p]
          <5> HIDE DEF synced
          <5>1. j.from \in Nat /\ j.to \in Nat
            BY <1>1
          <5> QED
            BY <3>1, <5>1, PatchBrings
        <4> HIDE DEF synced, j
        <4> QED
          BY <1>3, <3>2, <4>1
    <2> QED
      BY <2>1, <2>2
  <1>5. ASSUME NEW p \in Paths
        PROVE  Adds(b, j.to, p)
    <2>1. /\ tree.merged[p] \subseteq main.merged[p]
          /\ Exists(tree, p) => Exists(main, p)
          /\ Brought(p, j.from)
      BY <1>1 DEF FittingJob, Extends, Known, Exists
    <2>2. p \in Owned /\ p \notin b.creates => u.merged[p] \subseteq main.merged[p]
      BY <1>4, <2>1
    <2> QED
      BY <1>4, <2>1, <2>2 DEF Adds, Brought
  <1>6. FittingBranch(b, j.to)
    <2>1. b.pr = "missing" /\ b.manifest.commit = j.to
      BY <1>4
    <2> HIDE DEF b
    <2> QED
      BY <1>1, <1>5, <2>1 DEF FittingBranch, Announced
  <1>7. FittingJob(opening)
    BY <1>1 DEF FittingJob
  <1>8. UNCHANGED <<template, main>> /\ job' = [job EXCEPT ![w] = opening]
    BY DEF ApplyAndPush
  <1> HIDE DEF b, opening, j
  <1>9. /\ \A v \in 1..MaxCommits : FittingBranch(branch'[v], v)
        /\ \A k \in Workflows : FittingJob(job'[k])
    BY <1>2, <1>6, <1>7, <1>8 DEF Fitting, IInv, TypeOK, b
  <1>10. Grows
    BY <1>8 DEF Grows
  <1> QED
    BY <1>8, <1>9, <1>10, GrowthKeeps DEF Fitting, Recorded

\* The title is the report's, whose start is a commit that main has.
LEMMA FittingOpen ==
  ASSUME IInv, Fitting, NEW w \in Workflows, OpenPullRequest(w)
  PROVE  Fitting'
  <1> DEFINE v == job[w].to
             flag == Crosses(job[w].from, v, "breaking")
             b == [branch[v] EXCEPT !.pr = "open", !.flagged = flag]
  <1>1. /\ v \in 1..Len(template) /\ v \in 1..MaxCommits
        /\ job[w].from \in 1..Len(template)
        /\ job[w].step = "open" /\ branch[v].pr = "missing" /\ flag \in BOOLEAN
    BY TemplateAssumption DEF IInv, TypeOK, Job, Idle, OpenPullRequest, Crosses
  <1>2. /\ branch[v] \in [ pr : {"missing", "open"}, flagged : BOOLEAN,
                           onto : Manifest(Len(template)), creates : SUBSET Paths,
                           merged : [Paths -> SUBSET (1..Len(template))],
                           manifest : Manifest(Len(template)) ]
        /\ FittingBranch(branch[v], v)
    BY <1>1 DEF IInv, TypeOK, Branch, NoBranch, Closed, Fitting
  <1>3. branch' = [branch EXCEPT ![v] = b] /\ Abandon(w) /\ UNCHANGED <<template, main>>
    BY DEF OpenPullRequest
  <1>4. Known(job[w].from)
    BY <1>1 DEF Fitting, FittingJob
  <1> HIDE DEF flag
  <1>5. /\ b.pr = "open" /\ b.flagged = flag /\ b.merged = branch[v].merged
        /\ b.creates = branch[v].creates /\ b.manifest = branch[v].manifest
    BY <1>2
  <1>6. FittingBranch(b, v)
    <2>1. Announced(b, v)
      BY <1>1, <1>4, <1>5 DEF Announced, flag
    <2>2. \A p \in Paths : Adds(b, v, p)
      BY <1>1, <1>2, <1>5 DEF FittingBranch, Adds
    <2> QED
      BY <1>1, <1>2, <1>5, <2>1, <2>2 DEF FittingBranch
  <1> HIDE DEF b
  <1>7. /\ \A k \in 1..MaxCommits : FittingBranch(branch'[k], k)
        /\ \A k \in Workflows : FittingJob(job'[k])
    BY <1>3, <1>6 DEF Fitting, IInv, TypeOK, Abandon, Idle, FittingJob
  <1>8. Grows
    BY <1>3 DEF Grows
  <1> QED
    BY <1>3, <1>7, <1>8, GrowthKeeps DEF Fitting, Recorded

\* A merge: main grows by what the branch adds, which is none of an owned file
\* it has.
LEMMA FittingMerge ==
  ASSUME IInv, IInv', Fitting, NEW v \in 1..MaxCommits, Merge(v)
  PROVE  /\ Fitting'
         /\ \A p \in Owned : Exists(main, p) => main'.merged[p] = main.merged[p]
  <1> DEFINE b == branch[v]
             merged == [p \in Paths |-> main.merged[p] \cup b.merged[p]]
  <1>0. PICK c : c = b.manifest.commit
    OBVIOUS
  <1>1. /\ b.pr = "open" /\ FittingBranch(b, v)
        /\ main' = [main EXCEPT !.merged = merged, !.manifest = b.manifest]
        /\ branch' = [branch EXCEPT ![v] = Closed]
        /\ UNCHANGED <<template, job>>
        /\ \A p \in b.creates : ~ Exists(main, p)
    BY DEF Merge, Mergeable, Fitting
  <1>2. /\ main'.merged = merged /\ main'.local = main.local
        /\ main'.manifest = b.manifest
    BY <1>1 DEF IInv, TypeOK, Checkout
  <1>3. Grows
    BY <1>1, <1>2 DEF Grows
  <1>4. \A p, k : Content(p, k)' = Content(p, k)
    BY <1>1 DEF Content
  <1>5. Known(c)'
    <2>1. ASSUME NEW p \in Paths
          PROVE  Brought(p, c)'
      <3>1. main'.merged[p] = main.merged[p] \cup b.merged[p]
        BY <1>2
      <3>2. Adds(b, v, p)
        BY <1>1 DEF FittingBranch
      <3>3. Exists(main, p) => Exists(main, p)'
        BY <1>2, <3>1 DEF Exists
      <3> QED
        BY <1>0, <1>4, <3>1, <3>2, <3>3 DEF Adds, Brought
    <2> QED
      BY <2>1 DEF Known
  <1>6. \A k \in Recorded(main)' : Known(k)'
    <2>1. main'.manifest.commit = c /\ c # 0
      BY <1>0, <1>1, <1>2 DEF FittingBranch
    <2> QED
      BY <1>5, <2>1, RecordedKnown
  <1>7. \A k \in 1..MaxCommits : FittingBranch(branch'[k], k)
    BY <1>1 DEF Fitting, IInv, TypeOK, FittingBranch, Closed
  <1>8. Fitting'
    BY <1>1, <1>3, <1>6, <1>7, GrowthKeeps DEF Fitting
  <1>9. ASSUME NEW p \in Owned, Exists(main, p)
        PROVE  main'.merged[p] = main.merged[p]
    <2>1. p \in Paths /\ Adds(b, v, p) /\ p \notin b.creates
      BY <1>1, <1>9, TemplateAssumption DEF FittingBranch
    <2> QED
      BY <1>2, <1>9, <2>1 DEF Adds
  <1> QED
    BY <1>8, <1>9

\* The same of an update by hand.
LEMMA FittingByHand ==
  ASSUME IInv, IInv', Fitting, NEW from \in 1..Len(template), NEW to \in 1..Len(template),
         UpdateByHand(from, to)
  PROVE  /\ Fitting'
         /\ \A p \in Owned : Exists(main, p) => main'.merged[p] = main.merged[p]
  <1> DEFINE merged == Patch(main, from, to)
  <1>1. /\ main' = [main EXCEPT !.merged = merged, !.manifest = Provenance(to)]
        /\ UNCHANGED <<template, branch, job>>
        /\ from \in Recorded(main) /\ from < to
    BY DEF UpdateByHand, MaySucceed, Accepted
  <1>2. Len(template) \in Nat /\ from \in Nat /\ to \in Nat
    BY TemplateAssumption DEF IInv, TypeOK
  <1> HIDE DEF merged
  <1>3. /\ main'.merged = merged /\ main'.local = main.local
        /\ main'.manifest = Provenance(to)
    BY <1>1 DEF IInv, TypeOK, Checkout
  <1>4. \A p \in Paths :
          /\ main.merged[p] \subseteq merged[p]
          /\ Content(p, to) \subseteq Content(p, from) \cup merged[p]
             \/ (p \in Owned /\ Exists(main, p))
          /\ p \in Owned /\ Exists(main, p) => merged[p] = main.merged[p]
    BY <1>1, <1>2, PatchBrings DEF merged
  <1>5. Grows
    BY <1>1, <1>3, <1>4 DEF Grows
  <1>6. Known(to)'
    <2>1. ASSUME NEW p \in Paths
          PROVE  Brought(p, to)'
      <3>1. Brought(p, from)
        BY <1>1 DEF Fitting, Known
      <3>2. Exists(main, p) => Exists(main, p)'
        BY <1>3, <1>4 DEF Exists
      <3>3. Content(p, to)' = Content(p, to)
        BY <1>1 DEF Content
      <3> QED
        BY <1>3, <1>4, <3>1, <3>2, <3>3 DEF Brought
    <2> QED
      BY <2>1 DEF Known
  <1>7. \A c \in Recorded(main)' : Known(c)'
    <2>1. main'.manifest.commit = to /\ to # 0
      BY <1>3 DEF Provenance
    <2> QED
      BY <1>6, <2>1, RecordedKnown
  <1>8. Fitting'
    BY <1>1, <1>5, <1>7, GrowthKeeps DEF Fitting
  <1> QED
    BY <1>3, <1>4, <1>8, TemplateAssumption

\* A run or a request that is given up leaves nothing to fit, an edit takes
\* nothing away.
LEMMA FittingRest ==
  ASSUME IInv, Fitting,
         \/ \E w \in Workflows : Fail(w)
         \/ \E v \in 1..MaxCommits : Close(v) \/ DeleteBranch(v)
         \/ \E p \in Paths : Customise(p)
         \/ UNCHANGED vars
  PROVE  Fitting' /\ main'.merged = main.merged
  <1>1. /\ template' = template /\ main'.merged = main.merged
        /\ main'.manifest = main.manifest /\ main.local \subseteq main'.local
    BY DEF Fail, Close, DeleteBranch, Customise, vars, IInv, TypeOK, Checkout
  <1>2. Grows
    BY <1>1 DEF Grows
  <1>3. \A v \in 1..MaxCommits : FittingBranch(branch'[v], v)
    <2>1. /\ \A v \in 1..MaxCommits : FittingBranch(branch[v], v)
          /\ branch \in [1..MaxCommits -> Branch(Len(template))]
      BY DEF Fitting, IInv, TypeOK
    <2>2. /\ \A v : FittingBranch(Closed, v)
          /\ \A v : FittingBranch(NoBranch, v)
      BY DEF FittingBranch, Closed, NoBranch
    <2>3. \/ branch' = branch
          \/ \E k \in 1..MaxCommits : \E b \in {Closed, NoBranch} :
               branch' = [branch EXCEPT ![k] = b]
      BY DEF Fail, Close, DeleteBranch, Customise, vars
    <2> QED
      BY <2>1, <2>2, <2>3
  <1>4. \A w \in Workflows : FittingJob(job'[w])
    BY DEF Fail, Close, DeleteBranch, Customise, vars, Fitting, IInv, TypeOK,
           FittingJob, Abandon, Idle
  <1> QED
    BY <1>1, <1>2, <1>3, <1>4, GrowthKeeps DEF Fitting, Recorded

\* A project has the content it is generated from.
LEMMA FittingInit == Init => Fitting
  <1> SUFFICES ASSUME Init
               PROVE  Fitting
    OBVIOUS
  <1> DEFINE n == Len(template)
  <1>1. IInv
    BY InitEstablishes
  <1>2. /\ n \in Nat /\ main.merged = [p \in Paths |-> Content(p, n)]
        /\ \A c \in Recorded(main) : c \in 0..n
    BY <1>1 DEF Init, IInv, TypeOK, Checkout, Manifest, Recorded
  <1>3. Known(n)
    BY <1>2 DEF Known, Brought
  <1>4. \A c \in Recorded(main) : Known(c)
    BY <1>2, <1>3, KnownDown
  <1> QED
    BY <1>4 DEF Init, Fitting, FittingBranch, FittingJob, NoBranch, Idle

\* Every step keeps things fitting, and adds nothing to an owned file.
LEMMA FittingStep ==
  ASSUME IInv, Fitting, [Next]_vars
  PROVE  /\ Fitting'
         /\ \A p \in Owned : Exists(main, p) => main'.merged[p] = main.merged[p]
  <1>1. IInv'
    BY StepPreserves
  <1>2. CASE Publish
    BY <1>2, FittingPublish DEF Publish
  <1>3. ASSUME NEW w \in Workflows, Detect(w) \/ ApplyAndPush(w) \/ OpenPullRequest(w)
        PROVE  Fitting' /\ UNCHANGED main
    BY <1>3, FittingDetect, FittingApply, FittingOpen
       DEF Detect, ApplyAndPush, OpenPullRequest
  <1> QED
    BY <1>1, <1>2, <1>3, FittingMerge, FittingByHand, FittingRest DEF Next

\* Branches, runs and main fit together in every reachable state.
LEMMA AlwaysFitting == Spec => []Fitting
  <1>1. IInv /\ Fitting /\ [Next]_vars => Fitting'
    BY FittingStep
  <1> QED
    BY <1>1, FittingInit, InductiveInvariant, PTL DEF Spec

\* Once the project has an application-owned file, nothing of the template is
\* merged into it again.
THEOREM OwnedStayOwned == Spec => OwnedFilesKept
  <1>1. IInv /\ Fitting /\ [Next]_vars =>
          [\A p \in Owned : Exists(main, p) => main'.merged[p] = main.merged[p]]_vars
    BY FittingStep
  <1> QED
    BY <1>1, AlwaysFitting, InductiveInvariant, PTL DEF Spec, OwnedFilesKept

\* A request that would bring a breaking change says so, whichever of several
\* overlapping runs has pushed its branch and whichever opens it.
THEOREM BreakingAlwaysAnnounced == Spec => []BreakingIsAnnounced
  <1>1. ASSUME IInv, Fitting, NEW v \in 1..MaxCommits, NEW p \in Paths, Mergeable(v),
               NEW k \in branch[v].merged[p] \ main.merged[p],
               template[k].kind = "breaking"
        PROVE  branch[v].flagged
    <2>1. /\ branch[v].pr = "open" /\ Adds(branch[v], v, p) /\ Announced(branch[v], v)
          /\ p \in branch[v].creates => ~ Exists(main, p)
      BY <1>1 DEF Mergeable, Fitting, FittingBranch
    <2>2. k \in Content(p, v) /\ ~ (p \in Owned /\ Exists(main, p))
      BY <2>1 DEF Adds
    <2>3. PICK f \in 1..Len(template) :
            Known(f) /\ (Crosses(f, v, "breaking") => branch[v].flagged)
      BY <2>1 DEF Announced
    <2>4. k \notin Content(p, f)
      BY <2>2, <2>3 DEF Known, Brought
    <2>5. Len(template) \in Nat /\ v \in Nat
      BY <1>1, TemplateAssumption DEF IInv, TypeOK
    <2>6. k \in (f + 1)..v
      BY <2>2, <2>4, <2>5 DEF Content
    <2> QED
      BY <1>1, <2>3, <2>6 DEF Crosses
  <1>2. IInv /\ Fitting => BreakingIsAnnounced
    BY <1>1 DEF BreakingIsAnnounced
  <1> QED
    BY <1>2, AlwaysFitting, InductiveInvariant, PTL
=============================================================================
