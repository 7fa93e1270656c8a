------------------------------- MODULE SkillStore -------------------------------
(***************************************************************************)
(* Skills: packages and their append-only revisions (skills/persistence.py)*)
(* their installation (skills/installer.py), review and binding            *)
(* (routes/skills.py), and their way into a run's context                  *)
(* (skills/discovery.py, skills/context.py).  Installers race for a        *)
(* revision number; an administrator may revoke a revision between the     *)
(* moment a run selects it and the moment its text is loaded.              *)
(***************************************************************************)
EXTENDS Integers, FiniteSets, FiniteSetsExt

CONSTANTS
    SkillOwners,        \* users; Bundled is the owner of the skills shipped with the product
    Bundled,
    SkillNames, Hashes, \* names and content hashes of parsed skills
    Installers,
    SkillRuns,          \* runs that enrich their context
    InstallAttempts     \* _MAX_REVISION_WRITE_ATTEMPTS

VARIABLES
    packages,       \* rows of skill_packages: <<owner, name>>
    revisions,      \* rows of skill_revisions
    skillBinding,   \* rows of project_skill_bindings (own) and project_skill_pins (bundled)
    install,        \* [Installers -> the installation under way]
    skillRun,       \* [SkillRuns -> what a run selected and loaded]
    adminWord       \* history: the last word of an administrator on a revision

skillVars == <<packages, revisions, skillBinding, install, skillRun, adminWord>>

NoInstall == [stage |-> "idle"]
(* off: disabled_ids; left: selected and still to be loaded; key: the       *)
(* revision being read; reads: the reads of a reference made so far;        *)
(* vetted (history): what an administrator's word approved when its text    *)
(* was read.                                                                *)
NoSkillRun == [stage |-> "idle", user |-> Bundled, off |-> {}, selected |-> {}, left |-> {},
               loaded |-> {}, key |-> <<>>, reads |-> 0, vetted |-> {}]

SkillInit ==
    /\ packages = {} /\ revisions = {} /\ skillBinding = {} /\ adminWord = {}
    /\ install = [i \in Installers |-> NoInstall]
    /\ skillRun = [r \in SkillRuns |-> NoSkillRun]

-----------------------------------------------------------------------------
(* SkillSourcePolicy.resolve(): only pinned files of allowlisted            *)
(* repositories are fetched ...                                             *)
Allowed(source) == source.listed /\ source.pinned

(* ... and parse_skill_markdown() must accept what was fetched.             *)
Parses(source) == source.parses

Fetchable(source) == Allowed(source) /\ Parses(source)

Begin(i, o, n, h, trust, review) ==
    /\ install[i] = NoInstall
    /\ install' = [install EXCEPT ![i] =
           [stage |-> "begun", attempt |-> 1, fresh |-> FALSE, owner |-> o, name |-> n, hash |-> h,
            trust |-> trust, review |-> review]]

(* An installation of an external skill is pending review and untrusted.    *)
RequestInstall(i, o, n, h, source) ==
    /\ o # Bundled /\ Fetchable(source)
    /\ Begin(i, o, n, h, "untrusted", "pending")
    /\ UNCHANGED <<packages, revisions, skillBinding, skillRun, adminWord>>

(* create_skill() by an administrator, and the bundled skills at startup.   *)
CreateSkill(i, o, n, h) ==
    /\ Begin(i, o, n, h, "verified", "approved")
    /\ UNCHANGED <<packages, revisions, skillBinding, skillRun, adminWord>>

Of(o, n) == {r \in revisions : r.owner = o /\ r.name = n}

NextNumber(o, n) == Max({0} \cup {r.number : r \in Of(o, n)}) + 1

(* The package is looked up before anything is locked ... *)
ReadPackage(i) ==
    /\ install[i].stage = "begun"
    /\ install' = [install EXCEPT ![i] = [@ EXCEPT !.stage = "read",
                                          !.fresh = <<install[i].owner, install[i].name>> \notin packages]]
    /\ UNCHANGED <<packages, revisions, skillBinding, skillRun, adminWord>>

Ended(i, outcome) == install' = [install EXCEPT ![i] = [stage |-> outcome]]

(* _install_once() under the package's lock: known content is returned as   *)
(* it is, whatever its review state; new content gets the next number.      *)
InsertRevision(x) ==
    LET known == {r \in Of(x.owner, x.name) : r.hash = x.hash}
        row == [owner |-> x.owner, name |-> x.name, hash |-> x.hash, trust |-> x.trust,
                review |-> x.review, number |-> NextNumber(x.owner, x.name)]
    IN  /\ revisions' = IF known = {} THEN revisions \cup {row} ELSE revisions
        /\ adminWord' = IF known = {} /\ x.review = "approved"
                        THEN adminWord \cup {<<x.owner, x.name, x.hash>>} ELSE adminWord

(* ... so that two first installations may both insert it: one of them      *)
(* meets the unique constraint ...                                          *)
WriteRevision(i) ==
    LET x == install[i]
        p == <<x.owner, x.name>>
    IN  /\ x.stage = "read" /\ ~(x.fresh /\ p \in packages)
        /\ packages' = packages \cup {p}
        /\ InsertRevision(x)
        /\ Ended(i, "installed")
        /\ UNCHANGED <<skillBinding, skillRun>>

(* ... and starts again, as after any OperationalError: a busy database can *)
(* use up all attempts.                                                     *)
WriteConflicts(i) ==
    LET x == install[i]
    IN  /\ x.stage = "read"
        /\ IF x.attempt = InstallAttempts THEN Ended(i, "conflict")
           ELSE install' = [install EXCEPT ![i] = [x EXCEPT !.stage = "begun", !.attempt = x.attempt + 1]]
        /\ UNCHANGED <<packages, revisions, skillBinding, skillRun, adminWord>>

-----------------------------------------------------------------------------
Key(r) == <<r.owner, r.name, r.hash>>

SetReviewState(r, state) == revisions' = (revisions \ {r}) \cup {[r EXCEPT !.review = state]}

(* approve() and revoke() of the routes, for administrators. *)
ApproveSkill(r) ==
    /\ SetReviewState(r, "approved")
    /\ adminWord' = adminWord \cup {Key(r)}
    /\ UNCHANGED <<packages, skillBinding, install, skillRun>>

RevokeSkill(r) ==
    /\ SetReviewState(r, "rejected")
    /\ adminWord' = adminWord \ {Key(r)}
    /\ UNCHANGED <<packages, skillBinding, install, skillRun>>

(* What the bind route asks of a revision. *)
Bindable(o, r, on) ==
    /\ r.owner \in {o, Bundled}
    /\ on => r.review = "approved"
    /\ r.owner = Bundled => r.trust = "verified"

Binding(o, r, on) == [user |-> o, owner |-> r.owner, name |-> r.name, hash |-> r.hash, enabled |-> on]

(* bind(): one row per package, whose revision is replaced ... *)
BindOwn(o, r, on) ==
    {b \in skillBinding : ~(b.user = o /\ b.owner = r.owner /\ b.name = r.name)} \cup {Binding(o, r, on)}

(* ... _bind_shared(): one row per revision of the bundled owner. *)
BindShared(o, r, on) ==
    {b \in skillBinding : ~(b.user = o /\ <<b.owner, b.name, b.hash>> = Key(r))} \cup {Binding(o, r, on)}

BindSkill(o, r, on) ==
    /\ o # Bundled /\ Bindable(o, r, on)
    /\ skillBinding' = IF r.owner = o THEN BindOwn(o, r, on) ELSE BindShared(o, r, on)
    /\ UNCHANGED <<packages, revisions, install, skillRun, adminWord>>

(* What list_bound() and get_project_visible_revision() ask of a revision.  *)
Trusted(r) == r.review = "approved" /\ r.trust \in {"allowlisted", "verified"}

BoundTo(o, k) ==
    \E b \in skillBinding : b.user = o /\ b.enabled /\ <<b.owner, b.name, b.hash>> = k

Visible(o, r) == Trusted(r) /\ BoundTo(o, Key(r))

(* discover(): relevance and budgets pick among the visible revisions that  *)
(* the scope has not disabled; CapabilityIndex refuses two of one skill,    *)
(* which pins of a bundled skill can give.                                  *)
Discoverable(o, off) == {r \in revisions : Visible(o, r) /\ <<r.owner, r.name>> \notin off}

OneEach(S) == \A r, s \in S : r.owner = s.owner /\ r.name = s.name => r = s

DiscoverSkills(x, o, off, chosen) ==
    /\ skillRun[x].stage = "idle" /\ o # Bundled
    /\ chosen # {} /\ chosen \subseteq Discoverable(o, off)
    /\ skillRun' = [skillRun EXCEPT ![x] =
           IF ~OneEach(Discoverable(o, off)) THEN [NoSkillRun EXCEPT !.stage = "refused"]
           ELSE [NoSkillRun EXCEPT !.stage = "selected", !.user = o, !.off = off,
                                   !.selected = {Key(r) : r \in chosen}, !.left = {Key(r) : r \in chosen}]]
    /\ UNCHANGED <<packages, revisions, skillBinding, install, adminWord>>

(* Mutant: the selection is trusted when the text is loaded. *)
StillTrustedOnceSelected(k) == TRUE

(* The first read of get_project_visible_revision(): the revision's row. *)
StillTrusted(k) == \E r \in revisions : Key(r) = k /\ Trusted(r)

(* enrich(): each selected revision is validated again as it is loaded; one *)
(* that no longer may be seen ends the enrichment.  Its row, with the text, *)
(* is read first ...                                                        *)
LoadRow(x, k) ==
    LET run == skillRun[x]
    IN  /\ run.stage = "selected" /\ k \in run.left
        /\ skillRun' = [skillRun EXCEPT ![x] =
               IF StillTrusted(k)
               THEN [run EXCEPT !.stage = "checking", !.key = k, !.vetted = @ \cup ({k} \cap adminWord)]
               ELSE [run EXCEPT !.stage = "refused"]]
        /\ UNCHANGED <<packages, revisions, skillBinding, install, adminWord>>

(* ... then its binding; a text too long for what is left of the budget is  *)
(* dropped.                                                                 *)
LoadSkill(x, fits) ==
    LET run == skillRun[x]
    IN  /\ run.stage = "checking"
        /\ skillRun' = [skillRun EXCEPT ![x] =
               IF BoundTo(run.user, run.key)
               THEN [run EXCEPT !.stage = "selected", !.left = @ \ {run.key},
                                !.loaded = IF fits THEN @ \cup {run.key} ELSE @]
               ELSE [run EXCEPT !.stage = "refused"]]
        /\ UNCHANGED <<packages, revisions, skillBinding, install, adminWord>>

(* load_reference() of a selected skill reads its row and its binding, both *)
(* again in get_reference(), and the row once more with the reference.      *)
ReferenceReads == 5

LoadReference(x, k) ==
    LET run == skillRun[x]
        found == IF run.reads % 2 = 0 THEN StillTrusted(k) ELSE BoundTo(run.user, k)
    IN  /\ run.stage = "selected" /\ run.left = {} /\ k \in run.selected
        /\ run.reads > 0 => k = run.key
        /\ skillRun' = [skillRun EXCEPT ![x] =
               IF ~found \/ <<k[1], k[2]>> \in run.off THEN [run EXCEPT !.stage = "refused"]
               ELSE [run EXCEPT !.key = k, !.reads = @ + 1,
                                !.stage = IF run.reads + 1 = ReferenceReads THEN "read" ELSE @]]
        /\ UNCHANGED <<packages, revisions, skillBinding, install, adminWord>>

SkillNext ==
    \/ \E i \in Installers :
           \/ \E o \in SkillOwners \cup {Bundled}, n \in SkillNames, h \in Hashes :
                  \/ CreateSkill(i, o, n, h)
                  \/ \E s \in [listed : {TRUE}, pinned : BOOLEAN, parses : BOOLEAN] :
                         RequestInstall(i, o, n, h, s)
           \/ ReadPackage(i) \/ WriteRevision(i) \/ WriteConflicts(i)
    \/ \E r \in revisions :
           \/ ApproveSkill(r) \/ RevokeSkill(r)
           \/ \E o \in SkillOwners, on \in BOOLEAN : BindSkill(o, r, on)
    \/ \E x \in SkillRuns :
           \/ \E o \in SkillOwners, chosen \in SUBSET revisions :
                  \E off \in {{}, {Bundled} \X SkillNames} :
                      DiscoverSkills(x, o, off, chosen)
           \/ \E k \in skillRun[x].selected : LoadRow(x, k) \/ LoadReference(x, k)
           \/ \E fits \in BOOLEAN : LoadSkill(x, fits)

-----------------------------------------------------------------------------
(* The revisions of a package are numbered 1, 2, ... without gap, and a     *)
(* content has one of them, although installers race for a new package and  *)
(* repeat attempts that failed (install, persistence.py:60).                *)
RevisionsAreDense ==
    \A p \in packages :
        /\ {r.number : r \in Of(p[1], p[2])} = 1..Cardinality(Of(p[1], p[2]))
        /\ \A r, s \in Of(p[1], p[2]) : r.hash = s.hash => r = s

(* A revision counts as approved only while approval was an administrator's *)
(* last word on that content: installing it again does not undo a           *)
(* revocation (_install_once, persistence.py:116).                          *)
ReviewIsTheLastWord ==
    \A r \in revisions : r.review = "approved" => Key(r) \in adminWord

(* Every text in a run's context had the word of an administrator when it   *)
(* was read, not only when it was selected: neither an installation of the  *)
(* same content nor a pin brings back what was revoked.  And of a skill the *)
(* run sees one revision, however its user binds and pins meanwhile         *)
(* (enrich, context.py:89-97; CapabilityIndex, index.py:14).                *)
LoadedSkillsAreVouchedFor ==
    \A x \in SkillRuns :
        /\ skillRun[x].loaded \subseteq skillRun[x].vetted
        /\ \A k, l \in skillRun[x].loaded : k[1] = l[1] /\ k[2] = l[2] => k = l
==============================================================================
