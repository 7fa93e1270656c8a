------------------------- MODULE StoredSystemProofs -------------------------
(***************************************************************************)
(* What enters the context of a run, and what a request uses, was agreed   *)
(* to: proofs for the server's stored state. Each part of StoredSystem     *)
(* whose promise is proved has an inductive invariant of its own, a lemma  *)
(* for its initial states, one for a step of its own and one for a step of *)
(* another part, which leaves its variables alone. First the skills and    *)
(* the project instructions (ContextInv); the invariant of a scan of       *)
(* instruction files (ScanInv) speaks of sets that are closed under        *)
(* includes instead of the files a recursion visits. Then McpInv,          *)
(* AccessInv, ExportInv, ChatInv and CandidateInv; ConsentInv joins them.  *)
(* Last, the record of a run is whole (LedgerInv) and a request that is    *)
(* over leaves no run behind (CloseInv).                                   *)
(***************************************************************************)
EXTENDS StoredSystem, FiniteSetTheorems, TLAPS

-----------------------------------------------------------------------------
(* Skills. *)

Revisions ==
    [owner : SkillOwners \cup {Bundled}, name : SkillNames, hash : Hashes,
     trust : {"untrusted", "verified"}, review : {"pending", "approved", "rejected"}, number : Nat]

(* A skill is stored under its package, content is stored once, and the     *)
(* revisions of a package are numbered in the order of their writing.       *)
PackageInv ==
    /\ IsFiniteSet(revisions)
    /\ \A r \in revisions :
           r \in Revisions /\ <<r.owner, r.name>> \in packages
    /\ \A r, s \in revisions : Skill!Key(r) = Skill!Key(s) => r = s
    /\ \A p \in packages :
           {r.number : r \in Skill!Of(p[1], p[2])} = 1 .. Cardinality(Skill!Of(p[1], p[2]))

Installations ==
    [stage : {"begun", "read"}, attempt : Nat, fresh : BOOLEAN, owner : SkillOwners \cup {Bundled},
     name : SkillNames, hash : Hashes, trust : {"untrusted", "verified"},
     review : {"pending", "approved"}]

InstallHolds(x) == x.stage \in {"idle", "installed", "conflict"} \/ x \in Installations

InstallInv ==
    /\ install = [i \in Installers |-> install[i]]
    /\ \A i \in Installers : InstallHolds(install[i])

Keys == (SkillOwners \cup {Bundled}) \X SkillNames \X Hashes

SkillRunStates ==
    [stage : {"idle", "selected", "checking", "read", "refused"}, user : SkillOwners \cup {Bundled},
     off : SUBSET ((SkillOwners \cup {Bundled}) \X SkillNames), selected : SUBSET Keys,
     left : SUBSET Keys, loaded : SUBSET Keys, key : Keys \cup {<<>>}, reads : Nat, vetted : SUBSET Keys]

OneKeyEach(K) == \A k, l \in K : k[1] = l[1] /\ k[2] = l[2] => k = l

(* A revision between its two reads was vetted at the first, and a run      *)
(* loads what it selected, one revision of a skill.                         *)
RunHolds(run) ==
    /\ run \in SkillRunStates
    /\ run.loaded \subseteq run.vetted
    /\ run.stage = "checking" => run.key \in run.vetted /\ run.key \in run.selected
    /\ run.loaded \subseteq run.selected /\ OneKeyEach(run.selected)

EnrichInv ==
    /\ skillRun = [x \in SkillRuns |-> skillRun[x]]
    /\ \A x \in SkillRuns : RunHolds(skillRun[x])

SkillInv == PackageInv /\ InstallInv /\ EnrichInv /\ Skill!ReviewIsTheLastWord

LEMMA SkillCardinality == ASSUME NEW S PROVE Skill!Cardinality(S) = Cardinality(S)
  BY DEF Skill!Cardinality, Cardinality

(* The next revision of a package with n of them is n + 1. *)
LEMMA SkillMax ==
    ASSUME NEW n \in Nat
    PROVE  Skill!Max({0} \cup 1 .. n) = n
  <1>1. {0} \cup 1 .. n = 0 .. n
    OBVIOUS
  <1>2. n \in 0 .. n /\ \A y \in 0 .. n : n >= y
    OBVIOUS
  <1>3. \A x \in 0 .. n : (\A y \in 0 .. n : x >= y) => x = n
    OBVIOUS
  <1>4. QED
    BY <1>1, <1>2, <1>3 DEF Skill!Max

LEMMA SkillStart == ASSUME Skill!SkillInit PROVE SkillInv
  <1>1. /\ packages = {} /\ revisions = {}
        /\ install = [i \in Installers |-> Skill!NoInstall]
        /\ skillRun = [r \in SkillRuns |-> Skill!NoSkillRun]
    BY DEF Skill!SkillInit
  <1>2. PackageInv
    BY <1>1, FS_EmptySet DEF PackageInv
  <1>3. InstallInv
    BY <1>1 DEF InstallInv, InstallHolds, Skill!NoInstall
  <1>4. EnrichInv
    <2>1. RunHolds(Skill!NoSkillRun)
      BY DEF RunHolds, SkillRunStates, Skill!NoSkillRun, OneKeyEach
    <2>2. QED
      BY <1>1, <2>1 DEF EnrichInv
  <1>5. QED
    BY <1>1, <1>2, <1>3, <1>4 DEF SkillInv, Skill!ReviewIsTheLastWord

LEMMA InstallChange ==
    ASSUME InstallInv, NEW i \in Installers, NEW y,
           install' = [install EXCEPT ![i] = y], InstallHolds(y)
    PROVE  InstallInv'
  <1>1. install' = [j \in Installers |-> IF j = i THEN y ELSE install[j]]
    BY DEF InstallInv
  <1>2. \A j \in Installers : InstallHolds(install'[j])
    BY <1>1 DEF InstallInv
  <1>3. QED
    BY <1>1, <1>2 DEF InstallInv

LEMMA SkillRests == ASSUME SkillInv, UNCHANGED skillsPart PROVE SkillInv'
  <1>1. UNCHANGED <<packages, revisions, install, skillRun, adminWord>>
    BY DEF skillsPart
  <1>2. Skill!ReviewIsTheLastWord'
    BY <1>1 DEF SkillInv, Skill!ReviewIsTheLastWord, Skill!Key
  <1>3. PackageInv'
    BY <1>1 DEF SkillInv, PackageInv, Skill!Key, Skill!Of
  <1>4. InstallInv' /\ EnrichInv'
    BY <1>1 DEF SkillInv, InstallInv, EnrichInv
  <1>5. QED
    BY <1>2, <1>3, <1>4 DEF SkillInv

(* The installer's own bookkeeping. *)
LEMMA BeginStep ==
    ASSUME InstallInv, NEW i \in Installers, NEW o \in SkillOwners \cup {Bundled},
           NEW n \in SkillNames, NEW h \in Hashes,
           \/ Skill!CreateSkill(i, o, n, h)
           \/ \E s \in [listed : {TRUE}, pinned : BOOLEAN, parses : BOOLEAN] :
                  Skill!RequestInstall(i, o, n, h, s)
    PROVE  InstallInv'
  <1>1. \E trust \in {"untrusted", "verified"}, review \in {"pending", "approved"} :
            Skill!Begin(i, o, n, h, trust, review)
    BY DEF Skill!CreateSkill, Skill!RequestInstall
  <1>2. PICK trust \in {"untrusted", "verified"}, review \in {"pending", "approved"} :
            Skill!Begin(i, o, n, h, trust, review)
    BY <1>1
  <1> DEFINE y == [stage |-> "begun", attempt |-> 1, fresh |-> FALSE, owner |-> o, name |-> n,
                   hash |-> h, trust |-> trust, review |-> review]
  <1>3. install' = [install EXCEPT ![i] = y] /\ InstallHolds(y)
    BY <1>2 DEF Skill!Begin, InstallHolds, Installations
  <1> HIDE DEF y
  <1>4. QED
    BY <1>3, InstallChange

LEMMA ReadPackageStep ==
    ASSUME InstallInv, NEW i \in Installers, Skill!ReadPackage(i)
    PROVE  InstallInv'
  <1> DEFINE x == install[i]
             fresh == <<x.owner, x.name>> \notin packages
             y == [x EXCEPT !.stage = "read", !.fresh = fresh]
  <1>1. x.stage = "begun" /\ install' = [install EXCEPT ![i] = y]
    BY DEF Skill!ReadPackage
  <1>2. InstallHolds(x)
    BY DEF InstallInv
  <1> HIDE DEF x
  <1>3. fresh \in BOOLEAN
    OBVIOUS
  <1> HIDE DEF fresh
  <1>4. y \in Installations
    BY <1>1, <1>2, <1>3 DEF InstallHolds, Installations
  <1> HIDE DEF y
  <1>5. QED
    BY <1>1, <1>4, InstallChange DEF InstallHolds

LEMMA WriteConflictsStep ==
    ASSUME InstallInv, NEW i \in Installers, Skill!WriteConflicts(i)
    PROVE  InstallInv'
  <1> DEFINE x == install[i]
             y == [x EXCEPT !.stage = "begun", !.attempt = x.attempt + 1]
             lost == [stage |-> "conflict"]
  <1>1. /\ x.stage = "read"
        /\ install' = [install EXCEPT ![i] = lost] \/ install' = [install EXCEPT ![i] = y]
    BY DEF Skill!WriteConflicts, Skill!Ended
  <1>2. InstallHolds(x)
    BY DEF InstallInv
  <1> HIDE DEF x
  <1>3. x \in Installations
    BY <1>1, <1>2 DEF InstallHolds
  <1>4. y \in Installations
    <2>1. x.attempt + 1 \in Nat
      BY <1>3 DEF Installations
    <2>2. PICK a \in Nat : a = x.attempt + 1
      BY <2>1
    <2>3. y = [x EXCEPT !.stage = "begun", !.attempt = a]
      BY <2>2
    <2>4. QED
      BY <1>3, <2>3 DEF Installations
  <1>5. InstallHolds(y) /\ InstallHolds(lost)
    BY <1>4 DEF InstallHolds
  <1> HIDE DEF y, lost
  <1>6. QED
    BY <1>1, <1>5, InstallChange

(* A new revision gets the number after the last; known content stays.      *)
LEMMA InsertStep ==
    ASSUME PackageInv, Skill!ReviewIsTheLastWord, NEW x \in Installations,
           packages' = packages \cup {<<x.owner, x.name>>}, Skill!InsertRevision(x)
    PROVE  PackageInv' /\ Skill!ReviewIsTheLastWord'
  <1> DEFINE O == Skill!Of(x.owner, x.name)
             c == Cardinality(O)
             row == [owner |-> x.owner, name |-> x.name, hash |-> x.hash, trust |-> x.trust,
                     review |-> x.review, number |-> Skill!NextNumber(x.owner, x.name)]
  <1>1. IsFiniteSet(O) /\ c \in Nat
    BY FS_Subset, FS_CardinalityType DEF PackageInv, Skill!Of
  <1>2. {r.number : r \in O} = 1 .. c
    <2>1. CASE <<x.owner, x.name>> \in packages
      <3>1. <<x.owner, x.name>>[1] = x.owner /\ <<x.owner, x.name>>[2] = x.name
        OBVIOUS
      <3>2. QED
        BY <2>1, <3>1 DEF PackageInv
    <2>2. CASE <<x.owner, x.name>> \notin packages
      <3>1. O = {}
        BY <2>2 DEF PackageInv, Skill!Of
      <3>2. c = 0
        BY <3>1, FS_EmptySet
      <3>3. QED
        BY <3>1, <3>2
    <2>3. QED
      BY <2>1, <2>2
  <1>3. row.number = c + 1
    BY <1>1, <1>2, SkillMax DEF Skill!NextNumber
  <1>4. CASE {r \in O : r.hash = x.hash} # {}
    <2>1. revisions' = revisions /\ adminWord' = adminWord
      BY <1>4 DEF Skill!InsertRevision
    <2>2. packages' = packages
      BY <1>4 DEF PackageInv, Skill!Of
    <2>3. QED
      BY <2>1, <2>2 DEF PackageInv, Skill!ReviewIsTheLastWord, Skill!Key, Skill!Of
  <1>5. CASE {r \in O : r.hash = x.hash} = {}
    <2>1. /\ revisions' = revisions \cup {row}
          /\ adminWord' = IF x.review = "approved" THEN adminWord \cup {<<x.owner, x.name, x.hash>>}
                          ELSE adminWord
      BY <1>5 DEF Skill!InsertRevision
    <2>2. row \in Revisions /\ row.owner = x.owner /\ row.name = x.name /\ row.hash = x.hash
          /\ row.review = x.review
      BY <1>1, <1>3 DEF Revisions, Installations
    <2> HIDE DEF row
    <2>3. \A r \in revisions : Skill!Key(r) # Skill!Key(row)
      BY <1>5, <2>2 DEF Skill!Key, Skill!Of
    <2>4. row \notin O
      BY <1>5, <2>2 DEF Skill!Of
    <2>5. Skill!Of(x.owner, x.name)' = O \cup {row}
      BY <2>1, <2>2 DEF Skill!Of
    <2>6. \A a, b : ~(a = x.owner /\ b = x.name) => Skill!Of(a, b)' = Skill!Of(a, b)
      BY <2>1, <2>2 DEF Skill!Of
    <2>7. Cardinality(O \cup {row}) = c + 1
      BY <1>1, <2>4, FS_AddElement
    <2> HIDE DEF O, c
    <2>8. {r.number : r \in O \cup {row}} = 1 .. (c + 1)
      <3>1. {r.number : r \in O \cup {row}} = {r.number : r \in O} \cup {c + 1}
        BY <1>3
      <3>2. QED
        BY <1>1, <1>2, <3>1
    <2>9. \A p \in packages' :
             {r.number : r \in Skill!Of(p[1], p[2])'} = 1 .. Cardinality(Skill!Of(p[1], p[2])')
      <3> SUFFICES ASSUME NEW p \in packages'
                   PROVE  {r.number : r \in Skill!Of(p[1], p[2])'}
                              = 1 .. Cardinality(Skill!Of(p[1], p[2])')
        OBVIOUS
      <3>1. CASE p[1] = x.owner /\ p[2] = x.name
        <4>1. Skill!Of(p[1], p[2])' = O \cup {row}
          BY <2>5, <3>1
        <4>2. QED
          BY <2>7, <2>8, <4>1
      <3>2. CASE ~(p[1] = x.owner /\ p[2] = x.name)
        <4>1. p \in packages
          BY <3>2
        <4>2. Skill!Of(p[1], p[2])' = Skill!Of(p[1], p[2])
          BY <2>6, <3>2
        <4>3. QED
          BY <4>1, <4>2 DEF PackageInv
      <3>3. QED
        BY <3>1, <3>2
    <2>10. IsFiniteSet(revisions')
      BY <2>1, FS_AddElement DEF PackageInv
    <2>11. \A r \in revisions' : r \in Revisions /\ <<r.owner, r.name>> \in packages'
      BY <2>1, <2>2 DEF PackageInv
    <2>12. \A r, s \in revisions' : Skill!Key(r) = Skill!Key(s) => r = s
      BY <2>1, <2>3 DEF PackageInv
    <2>13. PackageInv'
      BY <2>9, <2>10, <2>11, <2>12 DEF PackageInv, Skill!Key
    <2>14. Skill!ReviewIsTheLastWord'
      BY <2>1, <2>2 DEF Skill!ReviewIsTheLastWord, Skill!Key
    <2>15. QED
      BY <2>13, <2>14
  <1>6. QED
    BY <1>4, <1>5

(* A review replaces one revision by itself with another review state.      *)
LEMMA ReviewStep ==
    ASSUME PackageInv, Skill!ReviewIsTheLastWord, NEW r \in revisions, packages' = packages,
           Skill!ApproveSkill(r) \/ Skill!RevokeSkill(r)
    PROVE  PackageInv' /\ Skill!ReviewIsTheLastWord'
  <1>1. PICK state \in {"approved", "rejected"} :
            /\ revisions' = (revisions \ {r}) \cup {[r EXCEPT !.review = state]}
            /\ adminWord' = IF state = "approved" THEN adminWord \cup {Skill!Key(r)}
                            ELSE adminWord \ {Skill!Key(r)}
    BY DEF Skill!ApproveSkill, Skill!RevokeSkill, Skill!SetReviewState
  <1> DEFINE q == [r EXCEPT !.review = state]
  <1>2. r \in Revisions
    BY DEF PackageInv
  <1>3. /\ q \in Revisions /\ q.owner = r.owner /\ q.name = r.name /\ q.hash = r.hash
        /\ q.number = r.number /\ q.review = state
    BY <1>2 DEF Revisions
  <1>4. revisions' = (revisions \ {r}) \cup {q}
    BY <1>1
  <1> HIDE DEF q
  <1>5. Skill!Key(q) = Skill!Key(r)
    BY <1>3 DEF Skill!Key
  <1>6. q \in revisions => q = r
    BY <1>5 DEF PackageInv
  <1>7. \A s, t \in revisions' : Skill!Key(s) = Skill!Key(t) => s = t
    <2>1. \A s \in revisions \ {r} : Skill!Key(s) # Skill!Key(q)
      BY <1>5 DEF PackageInv
    <2>2. \A s, t \in revisions \ {r} : Skill!Key(s) = Skill!Key(t) => s = t
      BY DEF PackageInv
    <2>3. QED
      BY <1>4, <2>1, <2>2
  <1>8. \A a, b : /\ {s.number : s \in Skill!Of(a, b)'} = {s.number : s \in Skill!Of(a, b)}
                  /\ Cardinality(Skill!Of(a, b)') = Cardinality(Skill!Of(a, b))
    <2> SUFFICES ASSUME NEW a, NEW b
                 PROVE  /\ {s.number : s \in Skill!Of(a, b)'} = {s.number : s \in Skill!Of(a, b)}
                        /\ Cardinality(Skill!Of(a, b)') = Cardinality(Skill!Of(a, b))
      OBVIOUS
    <2> DEFINE O == Skill!Of(a, b)
    <2>1. CASE r.owner = a /\ r.name = b
      <3>1. Skill!Of(a, b)' = (O \ {r}) \cup {q} /\ r \in O
        BY <1>3, <1>4, <2>1 DEF Skill!Of
      <3>2. IsFiniteSet(O) /\ q \notin O \ {r}
        BY <1>6, FS_Subset DEF PackageInv, Skill!Of
      <3> HIDE DEF O
      <3>3. IsFiniteSet(O \ {r}) /\ Cardinality(O \ {r}) = Cardinality(O) - 1
        BY <3>1, <3>2, FS_RemoveElement
      <3>4. Cardinality((O \ {r}) \cup {q}) = Cardinality(O)
        <4>1. Cardinality(O) \in Nat
          BY <3>2, FS_CardinalityType
        <4>2. Cardinality((O \ {r}) \cup {q}) = Cardinality(O \ {r}) + 1
          BY <3>2, <3>3, FS_AddElement
        <4>3. QED
          BY <3>3, <4>1, <4>2
      <3>5. {s.number : s \in (O \ {r}) \cup {q}} = {s.number : s \in O}
        BY <1>3, <3>1
      <3>6. QED
        BY <3>1, <3>4, <3>5 DEF O
    <2>2. CASE ~(r.owner = a /\ r.name = b)
      <3>1. Skill!Of(a, b)' = O
        BY <1>3, <1>4, <2>2 DEF Skill!Of
      <3>2. QED
        BY <3>1
    <2>3. QED
      BY <2>1, <2>2
  <1>9. IsFiniteSet(revisions')
    <2>1. IsFiniteSet(revisions \ {r})
      BY FS_Subset DEF PackageInv
    <2>2. QED
      BY <1>4, <2>1, FS_AddElement
  <1>10. \A s \in revisions' : s \in Revisions /\ <<s.owner, s.name>> \in packages'
    BY <1>3, <1>4 DEF PackageInv
  <1>11. ASSUME NEW p \in packages'
         PROVE  {s.number : s \in Skill!Of(p[1], p[2])'} = 1 .. Cardinality(Skill!Of(p[1], p[2])')
    <2>1. {s.number : s \in Skill!Of(p[1], p[2])} = 1 .. Cardinality(Skill!Of(p[1], p[2]))
      BY <1>4 DEF PackageInv
    <2>2. QED
      BY <1>8, <2>1
  <1>12. PackageInv'
    BY <1>7, <1>9, <1>10, <1>11 DEF PackageInv, Skill!Key
  <1>13. Skill!ReviewIsTheLastWord'
    <2>1. \A s \in revisions \ {r} : Skill!Key(s) # Skill!Key(r)
      BY DEF PackageInv
    <2>2. \A s \in revisions' : s.review = "approved" => Skill!Key(s) \in adminWord'
      <3>1. CASE state = "approved"
        BY <1>1, <1>4, <1>5, <3>1 DEF Skill!ReviewIsTheLastWord
      <3>2. CASE state = "rejected"
        BY <1>1, <1>3, <1>4, <2>1, <3>2 DEF Skill!ReviewIsTheLastWord
      <3>3. QED
        BY <3>1, <3>2
    <2>3. QED
      BY <2>2 DEF Skill!ReviewIsTheLastWord, Skill!Key
  <1>14. QED
    BY <1>12, <1>13

LEMMA EnrichChange ==
    ASSUME EnrichInv, NEW x \in SkillRuns, NEW y,
           skillRun' = [skillRun EXCEPT ![x] = y], RunHolds(y)
    PROVE  EnrichInv'
  <1>1. skillRun' = [z \in SkillRuns |-> IF z = x THEN y ELSE skillRun[z]]
    BY DEF EnrichInv
  <1>2. \A z \in SkillRuns : RunHolds(skillRun'[z])
    BY <1>1 DEF EnrichInv
  <1>3. QED
    BY <1>1, <1>2 DEF EnrichInv

LEMMA RefusedHolds ==
    ASSUME NEW run, RunHolds(run)
    PROVE  RunHolds([run EXCEPT !.stage = "refused"])
  BY DEF RunHolds, SkillRunStates

(* A row that is trusted when it is read has the administrator's word. *)
LEMMA LoadRowStep ==
    ASSUME SkillInv, NEW x \in SkillRuns, NEW k \in skillRun[x].selected, Skill!LoadRow(x, k)
    PROVE  EnrichInv'
  <1> DEFINE run == skillRun[x]
             word == run.vetted \cup ({k} \cap adminWord)
             kept == [run EXCEPT !.stage = "checking", !.key = k, !.vetted = word]
             refused == [run EXCEPT !.stage = "refused"]
  <1>1. skillRun' = [skillRun EXCEPT ![x] = IF Skill!StillTrusted(k) THEN kept ELSE refused]
    BY DEF Skill!LoadRow
  <1>2. RunHolds(run) /\ k \in run.selected
    BY DEF SkillInv, EnrichInv
  <1> HIDE DEF run
  <1>3. CASE Skill!StillTrusted(k)
    <2>1. k \in adminWord
      BY <1>3 DEF Skill!StillTrusted, Skill!Trusted, SkillInv, Skill!ReviewIsTheLastWord
    <2>2. PICK w : w = run.vetted \cup {k}
      OBVIOUS
    <2>3. word = w
      BY <2>1, <2>2
    <2>4. k \in Keys /\ w \in SUBSET Keys /\ k \in w /\ run.vetted \subseteq w
      BY <1>2, <2>2 DEF RunHolds, SkillRunStates
    <2>5. kept = [run EXCEPT !.stage = "checking", !.key = k, !.vetted = w]
      BY <2>3
    <2> HIDE DEF word
    <2>6. /\ kept \in SkillRunStates /\ kept.loaded = run.loaded /\ kept.selected = run.selected
          /\ kept.key = k /\ kept.vetted = w
      BY <1>2, <2>4, <2>5 DEF RunHolds, SkillRunStates
    <2> HIDE DEF kept
    <2>7. RunHolds(kept)
      BY <1>2, <2>4, <2>6 DEF RunHolds
    <2>8. QED
      BY <1>1, <1>3, <2>7, EnrichChange DEF SkillInv
  <1>4. CASE ~Skill!StillTrusted(k)
    <2>1. RunHolds(refused)
      BY <1>2, RefusedHolds
    <2> HIDE DEF refused
    <2>2. QED
      BY <1>1, <1>4, <2>1, EnrichChange DEF SkillInv
  <1>5. QED
    BY <1>3, <1>4

LEMMA LoadSkillStep ==
    ASSUME EnrichInv, NEW x \in SkillRuns, NEW fits \in BOOLEAN, Skill!LoadSkill(x, fits)
    PROVE  EnrichInv'
  <1> DEFINE run == skillRun[x]
             left == run.left \ {run.key}
             loaded == IF fits THEN run.loaded \cup {run.key} ELSE run.loaded
             kept == [run EXCEPT !.stage = "selected", !.left = left, !.loaded = loaded]
             refused == [run EXCEPT !.stage = "refused"]
  <1>1. /\ run.stage = "checking"
        /\ skillRun' = [skillRun EXCEPT ![x] =
               IF Skill!BoundTo(run.user, run.key) THEN kept ELSE refused]
    BY DEF Skill!LoadSkill
  <1>2. RunHolds(run)
    BY DEF EnrichInv
  <1> HIDE DEF run
  <1>3. /\ left \in SUBSET Keys /\ loaded \in SUBSET Keys /\ loaded \subseteq run.vetted
        /\ loaded \subseteq run.selected
    BY <1>1, <1>2 DEF RunHolds, SkillRunStates
  <1> HIDE DEF left, loaded
  <1>4. /\ kept \in SkillRunStates /\ kept.stage = "selected" /\ kept.loaded = loaded
        /\ kept.selected = run.selected /\ kept.vetted = run.vetted
    BY <1>2, <1>3 DEF RunHolds, SkillRunStates
  <1>5. RunHolds(refused)
    BY <1>2, RefusedHolds
  <1> HIDE DEF kept, refused
  <1>6. RunHolds(kept)
    BY <1>2, <1>3, <1>4 DEF RunHolds
  <1>7. QED
    BY <1>1, <1>5, <1>6, EnrichChange

LEMMA LoadReferenceStep ==
    ASSUME EnrichInv, NEW x \in SkillRuns, NEW k \in skillRun[x].selected, Skill!LoadReference(x, k)
    PROVE  EnrichInv'
  <1> DEFINE run == skillRun[x]
             n == run.reads + 1
             to == IF n = Skill!ReferenceReads THEN "read" ELSE "selected"
             kept == [run EXCEPT !.key = k, !.reads = n, !.stage = to]
             refused == [run EXCEPT !.stage = "refused"]
  <1>1. run.stage = "selected"
    BY DEF Skill!LoadReference
  <1>2. RunHolds(run) /\ k \in run.selected
    BY DEF EnrichInv
  <1>3. \/ skillRun' = [skillRun EXCEPT ![x] = kept]
        \/ skillRun' = [skillRun EXCEPT ![x] = refused]
    BY <1>1 DEF Skill!LoadReference
  <1> HIDE DEF run
  <1>4. n \in Nat /\ to \in {"read", "selected"} /\ k \in Keys
    BY <1>2 DEF RunHolds, SkillRunStates
  <1> HIDE DEF n, to
  <1>5. /\ kept \in SkillRunStates /\ kept.stage = to /\ kept.loaded = run.loaded
        /\ kept.selected = run.selected /\ kept.vetted = run.vetted
    BY <1>2, <1>4 DEF RunHolds, SkillRunStates
  <1>6. RunHolds(refused)
    BY <1>2, RefusedHolds
  <1> HIDE DEF kept, refused
  <1>7. RunHolds(kept)
    BY <1>2, <1>4, <1>5 DEF RunHolds
  <1>8. QED
    BY <1>3, <1>6, <1>7, EnrichChange

LEMMA DiscoverStep ==
    ASSUME SkillInv, NEW x \in SkillRuns, NEW o \in SkillOwners, NEW chosen,
           NEW off \in {{}, {Bundled} \X SkillNames}, Skill!DiscoverSkills(x, o, off, chosen)
    PROVE  EnrichInv'
  <1> DEFINE K == {Skill!Key(r) : r \in chosen}
             kept == [Skill!NoSkillRun EXCEPT !.stage = "selected", !.user = o, !.off = off,
                                              !.selected = K, !.left = K]
             refused == [Skill!NoSkillRun EXCEPT !.stage = "refused"]
  <1>1. /\ skillRun' = [skillRun EXCEPT ![x] =
               IF ~Skill!OneEach(Skill!Discoverable(o, off)) THEN refused ELSE kept]
        /\ chosen \subseteq Skill!Discoverable(o, off)
    BY DEF Skill!DiscoverSkills
  <1>2. chosen \subseteq revisions
    BY <1>1 DEF Skill!Discoverable
  <1>3. K \subseteq Keys
    <2>1. \A r \in chosen : r \in Revisions
      BY <1>2 DEF SkillInv, PackageInv
    <2>2. \A r \in Revisions : Skill!Key(r) \in Keys
      BY DEF Revisions, Skill!Key, Keys
    <2>3. QED
      BY <2>1, <2>2
  <1>4. RunHolds(refused)
    <2>1. RunHolds(Skill!NoSkillRun)
      BY DEF RunHolds, SkillRunStates, Skill!NoSkillRun, OneKeyEach
    <2>2. QED
      BY <2>1, RefusedHolds
  <1>5. CASE Skill!OneEach(Skill!Discoverable(o, off))
    <2>1. OneKeyEach(K)
      <3>1. \A r, q \in chosen : r.owner = q.owner /\ r.name = q.name => r = q
        BY <1>1, <1>5 DEF Skill!OneEach
      <3>2. \A r, q \in chosen : Skill!Key(r)[1] = Skill!Key(q)[1] /\ Skill!Key(r)[2] = Skill!Key(q)[2] => r = q
        BY <3>1 DEF Skill!Key
      <3>3. QED
        BY <3>2 DEF OneKeyEach
    <2> HIDE DEF K
    <2>2. /\ kept \in SkillRunStates /\ kept.stage = "selected" /\ kept.loaded = {}
          /\ kept.selected = K /\ kept.vetted = {}
      BY <1>3 DEF SkillRunStates, Skill!NoSkillRun
    <2> HIDE DEF kept
    <2>3. RunHolds(kept)
      BY <2>1, <2>2 DEF RunHolds
    <2>4. QED
      BY <1>1, <1>5, <2>3, EnrichChange DEF SkillInv
  <1>6. CASE ~Skill!OneEach(Skill!Discoverable(o, off))
    <2> HIDE DEF refused
    <2>1. QED
      BY <1>1, <1>4, <1>6, EnrichChange DEF SkillInv
  <1>7. QED
    BY <1>5, <1>6

LEMMA SkillQuiet ==
    ASSUME SkillInv, InstallInv', UNCHANGED <<packages, revisions, skillRun, adminWord>>
    PROVE  SkillInv'
  <1>1. PackageInv' /\ Skill!ReviewIsTheLastWord'
    BY DEF SkillInv, PackageInv, Skill!ReviewIsTheLastWord, Skill!Key, Skill!Of
  <1>2. EnrichInv'
    BY DEF SkillInv, EnrichInv
  <1>3. QED
    BY <1>1, <1>2 DEF SkillInv

LEMMA SkillNextStep ==
    ASSUME SkillInv, Skill!SkillNext
    PROVE  SkillInv'
  <1> USE DEF SkillInv
  <1>1. ASSUME NEW i \in Installers, NEW o \in SkillOwners \cup {Bundled}, NEW n \in SkillNames,
               NEW h \in Hashes,
               \/ Skill!CreateSkill(i, o, n, h)
               \/ \E s \in [listed : {TRUE}, pinned : BOOLEAN, parses : BOOLEAN] :
                      Skill!RequestInstall(i, o, n, h, s)
        PROVE  SkillInv'
    <2>1. UNCHANGED <<packages, revisions, skillRun, adminWord>>
      BY <1>1 DEF Skill!CreateSkill, Skill!RequestInstall
    <2>2. InstallInv'
      BY <1>1, BeginStep
    <2>3. QED
      BY <2>1, <2>2, SkillQuiet
  <1>2. ASSUME NEW i \in Installers, Skill!ReadPackage(i) \/ Skill!WriteConflicts(i)
        PROVE  SkillInv'
    <2>1. UNCHANGED <<packages, revisions, skillRun, adminWord>>
      BY <1>2 DEF Skill!ReadPackage, Skill!WriteConflicts
    <2>2. InstallInv'
      BY <1>2, ReadPackageStep, WriteConflictsStep
    <2>3. QED
      BY <2>1, <2>2, SkillQuiet
  <1>3. ASSUME NEW i \in Installers, Skill!WriteRevision(i)
        PROVE  SkillInv'
    <2> DEFINE x == install[i]
    <2>1. /\ x.stage = "read" /\ packages' = packages \cup {<<x.owner, x.name>>}
          /\ Skill!InsertRevision(x) /\ Skill!Ended(i, "installed") /\ skillRun' = skillRun
      BY <1>3 DEF Skill!WriteRevision
    <2>2. x \in Installations
      BY <2>1 DEF InstallInv, InstallHolds
    <2> HIDE DEF x
    <2>3. PackageInv' /\ Skill!ReviewIsTheLastWord'
      BY <2>1, <2>2, InsertStep
    <2>4. InstallInv'
      <3>1. InstallHolds([stage |-> "installed"])
        BY DEF InstallHolds
      <3>2. QED
        BY <2>1, <3>1, InstallChange DEF Skill!Ended
    <2>5. EnrichInv'
      BY <2>1 DEF EnrichInv
    <2>6. QED
      BY <2>3, <2>4, <2>5
  <1>4. ASSUME NEW r \in revisions, Skill!ApproveSkill(r) \/ Skill!RevokeSkill(r)
        PROVE  SkillInv'
    <2>1. UNCHANGED <<packages, install, skillRun>>
      BY <1>4 DEF Skill!ApproveSkill, Skill!RevokeSkill
    <2>2. PackageInv' /\ Skill!ReviewIsTheLastWord'
      BY <1>4, <2>1, ReviewStep
    <2>3. InstallInv' /\ EnrichInv'
      BY <2>1 DEF InstallInv, EnrichInv
    <2>4. QED
      BY <2>2, <2>3
  <1>5. ASSUME NEW r \in revisions, NEW o \in SkillOwners, NEW on \in BOOLEAN,
               Skill!BindSkill(o, r, on)
        PROVE  SkillInv'
    <2>1. UNCHANGED <<packages, revisions, install, skillRun, adminWord>>
      BY <1>5 DEF Skill!BindSkill
    <2>2. InstallInv'
      BY <2>1 DEF InstallInv
    <2>3. QED
      BY <2>1, <2>2, SkillQuiet
  <1>6. ASSUME EnrichInv', UNCHANGED <<packages, revisions, install, adminWord>>
        PROVE  SkillInv'
    <2>1. PackageInv' /\ Skill!ReviewIsTheLastWord'
      BY <1>6 DEF PackageInv, Skill!ReviewIsTheLastWord, Skill!Key, Skill!Of
    <2>2. InstallInv'
      BY <1>6 DEF InstallInv
    <2>3. QED
      BY <1>6, <2>1, <2>2
  <1>7. ASSUME NEW x \in SkillRuns,
               \/ \E k \in skillRun[x].selected : Skill!LoadRow(x, k) \/ Skill!LoadReference(x, k)
               \/ \E fits \in BOOLEAN : Skill!LoadSkill(x, fits)
        PROVE  SkillInv'
    <2>1. UNCHANGED <<packages, revisions, install, adminWord>>
      BY <1>7 DEF Skill!LoadRow, Skill!LoadSkill, Skill!LoadReference
    <2>2. EnrichInv'
      BY <1>7, LoadRowStep, LoadSkillStep, LoadReferenceStep
    <2>3. QED
      BY <1>6, <2>1, <2>2
  <1>8. ASSUME NEW x \in SkillRuns, NEW o \in SkillOwners, NEW chosen \in SUBSET revisions,
               NEW off \in {{}, {Bundled} \X SkillNames}, Skill!DiscoverSkills(x, o, off, chosen)
        PROVE  SkillInv'
    <2>1. UNCHANGED <<packages, revisions, install, adminWord>>
      BY <1>8 DEF Skill!DiscoverSkills
    <2>2. QED
      BY <1>6, <1>8, <2>1, DiscoverStep
  <1> HIDE DEF SkillInv
  <1>9. QED
    BY <1>1, <1>2, <1>3, <1>4, <1>5, <1>7, <1>8 DEF Skill!SkillNext

LEMMA SkillPromise ==
    ASSUME SkillInv
    PROVE  /\ Skill!ReviewIsTheLastWord /\ Skill!RevisionsAreDense
           /\ Skill!LoadedSkillsAreVouchedFor
  <1>1. ASSUME NEW a, NEW b, NEW r \in Skill!Of(a, b), NEW q \in Skill!Of(a, b), r.hash = q.hash
        PROVE  r = q
    BY <1>1 DEF SkillInv, PackageInv, Skill!Of, Skill!Key
  <1>2. Skill!RevisionsAreDense
    BY <1>1, SkillCardinality DEF SkillInv, PackageInv, Skill!RevisionsAreDense
  <1>3. Skill!LoadedSkillsAreVouchedFor
    BY DEF SkillInv, EnrichInv, RunHolds, OneKeyEach, Skill!LoadedSkillsAreVouchedFor
  <1>4. QED
    BY <1>2, <1>3 DEF SkillInv

-----------------------------------------------------------------------------
(* Instructions: the snapshots. *)

IsSnapshot(r) == \E x, n, v : r = [sources |-> x, number |-> n, review |-> v]

(* What is loaded once is stored once, and numbered after what is there.    *)
SnapshotInv ==
    /\ IsFiniteSet(snapshots) /\ \A r \in snapshots : IsSnapshot(r)
    /\ \A r, q \in snapshots : r.sources = q.sources => r = q
    /\ {r.number : r \in snapshots} = 1 .. Cardinality(snapshots)

(* An approved snapshot is current until it is revoked or another is.       *)
CurrentInv ==
    /\ \E e \in BOOLEAN : \E c : workspace = [exists |-> e, current |-> c]
    /\ workspace.current # NoRevision =>
           /\ workspace.current \in endorsed
           /\ \E r \in snapshots : r.sources = workspace.current /\ r.review = "approved"

LEMMA SnapshotStart ==
    ASSUME Context!InstructionInit
    PROVE  SnapshotInv /\ CurrentInv
  <1>1. snapshots = {} /\ workspace = [exists |-> FALSE, current |-> NoRevision]
    BY Zenon DEF Context!InstructionInit
  <1>2. SnapshotInv
    BY <1>1, FS_EmptySet DEF SnapshotInv
  <1>3. CurrentInv
    BY <1>1 DEF CurrentInv
  <1>4. QED
    BY <1>2, <1>3

LEMMA SnapshotsRest ==
    ASSUME SnapshotInv, CurrentInv, UNCHANGED <<snapshots, workspace, endorsed>>
    PROVE  SnapshotInv' /\ CurrentInv'
  BY DEF SnapshotInv, CurrentInv

LEMMA ContextMax ==
    ASSUME NEW n \in Nat
    PROVE  Context!Max({0} \cup 1 .. n) = n
  <1>1. {0} \cup 1 .. n = 0 .. n
    OBVIOUS
  <1>2. n \in 0 .. n /\ \A y \in 0 .. n : n >= y
    OBVIOUS
  <1>3. \A x \in 0 .. n : (\A y \in 0 .. n : x >= y) => x = n
    OBVIOUS
  <1>4. QED
    BY <1>1, <1>2, <1>3 DEF Context!Max

LEMMA NewWorkspace ==
    ASSUME CurrentInv, NEW e \in BOOLEAN, NEW c, workspace' = [exists |-> e, current |-> c],
           c = workspace.current, snapshots \subseteq snapshots', endorsed' = endorsed
    PROVE  CurrentInv'
  <1>1. workspace'.current = workspace.current
    OBVIOUS
  <1>2. QED
    BY <1>1 DEF CurrentInv

(* A snapshot that is not known is numbered after the others. *)
LEMMA AppendWritesStep ==
    ASSUME SnapshotInv, CurrentInv, NEW s \in Scanners, Context!AppendWrites(s)
    PROVE  SnapshotInv' /\ CurrentInv'
  <1> DEFINE x == appending[s].sources
             row == [sources |-> x, review |-> "pending",
                     number |-> Context!Max({0} \cup {r.number : r \in snapshots}) + 1]
             c == Cardinality(snapshots)
  <1>1. /\ snapshots' = IF {r \in snapshots : r.sources = x} = {} THEN snapshots \cup {row}
                        ELSE snapshots
        /\ workspace' = [exists |-> TRUE, current |-> workspace.current]
        /\ endorsed' = endorsed
    BY DEF Context!AppendWrites, Context!CurrentAfterAppend
  <1>2. c \in Nat
    BY FS_CardinalityType DEF SnapshotInv
  <1>3. row.number = c + 1
    BY <1>2, ContextMax DEF SnapshotInv
  <1>4. IsSnapshot(row) /\ row.sources = x
    BY DEF IsSnapshot
  <1> HIDE DEF row, x
  <1>6. CurrentInv'
    BY <1>1, NewWorkspace
  <1>7. SnapshotInv'
    <2>1. CASE {r \in snapshots : r.sources = x} # {}
      BY <1>1, <2>1 DEF SnapshotInv
    <2>2. CASE {r \in snapshots : r.sources = x} = {}
      <3>1. snapshots' = snapshots \cup {row} /\ \A r \in snapshots : r.sources # x
        BY <1>1, <2>2
      <3>2. row \notin snapshots
        BY <1>4, <3>1
      <3>3. IsFiniteSet(snapshots') /\ Cardinality(snapshots') = c + 1
        BY <3>1, <3>2, FS_AddElement DEF SnapshotInv
      <3> HIDE DEF c
      <3>4. {r.number : r \in snapshots'} = 1 .. (c + 1)
        <4>1. {r.number : r \in snapshots'} = {r.number : r \in snapshots} \cup {c + 1}
          BY <1>3, <3>1
        <4>2. QED
          BY <1>2, <4>1 DEF SnapshotInv, c
      <3>5. \A r, q \in snapshots' : r.sources = q.sources => r = q
        BY <1>4, <3>1 DEF SnapshotInv
      <3>6. \A r \in snapshots' : IsSnapshot(r)
        BY <1>4, <3>1 DEF SnapshotInv
      <3>7. QED
        BY <3>3, <3>4, <3>5, <3>6 DEF SnapshotInv
    <2>3. QED
      BY <2>1, <2>2
  <1>8. QED
    BY <1>6, <1>7

LEMMA ApproveStep ==
    ASSUME SnapshotInv, CurrentInv, NEW r \in snapshots, Context!ApproveSnapshot(r)
    PROVE  SnapshotInv' /\ CurrentInv'
  <1> DEFINE q == [r EXCEPT !.review = "approved"]
  <1>1. /\ snapshots' = (snapshots \ {r}) \cup {q}
        /\ workspace' = [workspace EXCEPT !.current = r.sources]
        /\ endorsed' = endorsed \cup {r.sources}
    BY DEF Context!ApproveSnapshot
  <1>2. /\ IsSnapshot(q) /\ q.sources = r.sources /\ q.number = r.number /\ q.review = "approved"
    <2>1. PICK x, n, v : r = [sources |-> x, number |-> n, review |-> v]
      BY DEF SnapshotInv, IsSnapshot
    <2>2. q = [sources |-> x, number |-> n, review |-> "approved"]
      BY <2>1
    <2> HIDE DEF q
    <2>3. QED
      BY <2>1, <2>2 DEF IsSnapshot
  <1> HIDE DEF q
  <1>3. q \notin snapshots \ {r}
    BY <1>2 DEF SnapshotInv
  <1>4. IsFiniteSet(snapshots') /\ Cardinality(snapshots') = Cardinality(snapshots)
    <2>1. IsFiniteSet(snapshots \ {r}) /\ Cardinality(snapshots \ {r}) = Cardinality(snapshots) - 1
      BY FS_RemoveElement DEF SnapshotInv
    <2>2. /\ IsFiniteSet((snapshots \ {r}) \cup {q})
          /\ Cardinality((snapshots \ {r}) \cup {q}) = Cardinality(snapshots \ {r}) + 1
      BY <1>3, <2>1, FS_AddElement
    <2>3. Cardinality(snapshots) \in Nat
      BY FS_CardinalityType DEF SnapshotInv
    <2>4. QED
      BY <1>1, <2>1, <2>2, <2>3
  <1>5. {z.number : z \in snapshots'} = {z.number : z \in snapshots}
    BY <1>1, <1>2
  <1>6. \A z, y \in snapshots' : z.sources = y.sources => z = y
    BY <1>1, <1>2 DEF SnapshotInv
  <1>7. SnapshotInv'
    BY <1>1, <1>2, <1>4, <1>5, <1>6 DEF SnapshotInv
  <1>8. CurrentInv'
    <2>1. \E e \in BOOLEAN : workspace' = [exists |-> e, current |-> r.sources]
      BY <1>1 DEF CurrentInv
    <2>2. workspace'.current = r.sources
      BY <2>1
    <2>3. QED
      BY <1>1, <1>2, <2>1, <2>2 DEF CurrentInv
  <1>9. QED
    BY <1>7, <1>8

LEMMA EnsureOrRevoke ==
    ASSUME SnapshotInv, CurrentInv, Context!EnsureWorkspace \/ Context!RevokeCurrent
    PROVE  SnapshotInv' /\ CurrentInv'
  <1>1. UNCHANGED <<snapshots, endorsed>>
    BY DEF Context!EnsureWorkspace, Context!RevokeCurrent
  <1>2. CurrentInv'
    <2>1. PICK e \in BOOLEAN : \E c : workspace = [exists |-> e, current |-> c]
      BY DEF CurrentInv
    <2>2. PICK c : workspace = [exists |-> e, current |-> c]
      BY <2>1
    <2>3. CASE Context!EnsureWorkspace
      <3>1. workspace' = [exists |-> TRUE, current |-> c] /\ c = workspace.current
        BY <2>2, <2>3 DEF Context!EnsureWorkspace
      <3>2. QED
        BY <1>1, <3>1, NewWorkspace
    <2>4. CASE Context!RevokeCurrent
      <3>1. workspace' = [exists |-> e, current |-> NoRevision]
        BY <2>2, <2>4 DEF Context!RevokeCurrent
      <3>2. workspace'.current = NoRevision
        BY <3>1
      <3>3. QED
        BY <3>1, <3>2 DEF CurrentInv
    <2>5. QED
      BY <2>3, <2>4
  <1>3. QED
    BY <1>1, <1>2 DEF SnapshotInv

LEMMA ContextCardinality == ASSUME NEW S PROVE Context!Cardinality(S) = Cardinality(S)
  BY DEF Context!Cardinality, Cardinality

LEMMA SnapshotPromise ==
    ASSUME SnapshotInv, CurrentInv
    PROVE  Context!EffectiveIsEndorsed
  <1>1. workspace.current # NoRevision => workspace.current \in endorsed /\ Context!Effective # {}
    BY DEF CurrentInv, Context!Effective
  <1>2. QED
    BY <1>1, ContextCardinality DEF SnapshotInv, Context!EffectiveIsEndorsed

-----------------------------------------------------------------------------
(* Instructions: the scan of the files. *)

Frames == [file : Files, left : Seq(Files)]
FilesOf(k) == {k[i].file : i \in DOMAIN k}
Includes(tree, x) == Context!ToSet(tree[x])
Closed(tree, S) == \A x \in S : Includes(tree, x) \subseteq S

ScanTypes(tree, d, k, seen, src, next) ==
    /\ tree \in [Files -> Seq(Files)] /\ d \in Seq(Files) /\ k \in Seq(Frames)
    /\ seen \in SUBSET Files /\ src \in Seq(Files) /\ next \in SUBSET Files

(* A file is read once, when it is first met. *)
ReadOnce(seen, src) ==
    /\ seen = Context!ToSet(src)
    /\ \A i, j \in DOMAIN src : src[i] = src[j] => i = j

(* The frames are files being loaded; what they include is left to follow,  *)
(* loaded, or being loaded in the frame above.                              *)
FramesInv(tree, k, seen, next) ==
    /\ FilesOf(k) \subseteq seen
    /\ \A i, j \in DOMAIN k : k[i].file = k[j].file => i = j
    /\ \A i \in DOMAIN k : Context!ToSet(k[i].left) \subseteq Includes(tree, k[i].file)
    /\ \A i \in DOMAIN k : \A y \in Includes(tree, k[i].file) :
           \/ y \in Context!ToSet(k[i].left) \/ y \in seen \ FilesOf(k)
           \/ i < Len(k) /\ y = k[i + 1].file
           \/ i = Len(k) /\ y \in next

(* Only files that the directories reach are met, and none is forgotten.    *)
MetInv(tree, d, seen, next) ==
    /\ \A S \in SUBSET Files : Context!ToSet(DirectoryFiles) \subseteq S /\ Closed(tree, S) =>
           seen \subseteq S /\ Context!ToSet(d) \subseteq S /\ next \subseteq S
    /\ Context!ToSet(DirectoryFiles) \subseteq seen \cup Context!ToSet(d) \cup next

(* A file is done after all that it includes, so it cannot reach itself.    *)
Acyclic(tree, x) ==
    \E S \in SUBSET Files : Closed(tree, S) /\ Includes(tree, x) \subseteq S /\ x \notin S

DoneInv(tree, done) == Closed(tree, done) /\ \A x \in done : Acyclic(tree, x)

(* next: the file that is about to be loaded. *)
ScanInv(tree, d, k, seen, src, next) ==
    /\ ScanTypes(tree, d, k, seen, src, next)
    /\ ReadOnce(seen, src)
    /\ FramesInv(tree, k, seen, next)
    /\ MetInv(tree, d, seen, next)
    /\ DoneInv(tree, seen \ FilesOf(k))

LEMMA ToSetEmpty == Context!ToSet(<<>>) = {}
  BY DEF Context!ToSet

LEMMA ToSetOfHead ==
    ASSUME NEW s \in Seq(Files), s # <<>>
    PROVE  /\ Head(s) \in Files /\ Tail(s) \in Seq(Files)
           /\ Context!ToSet(s) = {Head(s)} \cup Context!ToSet(Tail(s))
  <1>1. /\ Head(s) = s[1] /\ 1 \in DOMAIN s /\ Head(s) \in Files /\ Tail(s) \in Seq(Files)
        /\ DOMAIN Tail(s) = 1 .. (Len(s) - 1) /\ Len(s) \in Nat /\ DOMAIN s = 1 .. Len(s)
        /\ \A i \in 1 .. (Len(s) - 1) : Tail(s)[i] = s[i + 1]
    OBVIOUS
  <1>2. ASSUME NEW y \in Context!ToSet(s), y # Head(s)
        PROVE  y \in Context!ToSet(Tail(s))
    <2>1. PICK i \in DOMAIN s : y = s[i]
      BY DEF Context!ToSet
    <2>2. i - 1 \in 1 .. (Len(s) - 1) /\ (i - 1) + 1 = i
      BY <1>1, <1>2, <2>1
    <2>3. Tail(s)[i - 1] = y
      BY <1>1, <2>1, <2>2
    <2>4. QED
      BY <1>1, <2>2, <2>3 DEF Context!ToSet
  <1>3. ASSUME NEW y \in Context!ToSet(Tail(s))
        PROVE  y \in Context!ToSet(s)
    <2>1. PICK i \in 1 .. (Len(s) - 1) : y = Tail(s)[i]
      BY <1>1 DEF Context!ToSet
    <2>2. i + 1 \in DOMAIN s /\ y = s[i + 1]
      BY <1>1, <2>1
    <2>3. QED
      BY <2>2 DEF Context!ToSet
  <1>4. Head(s) \in Context!ToSet(s)
    BY <1>1 DEF Context!ToSet
  <1>5. QED
    BY <1>1, <1>2, <1>3, <1>4

LEMMA ToSetAppended ==
    ASSUME NEW s \in Seq(Files), NEW x \in Files
    PROVE  Context!ToSet(Append(s, x)) = Context!ToSet(s) \cup {x}
  <1>1. /\ DOMAIN Append(s, x) = 1 .. (Len(s) + 1) /\ Append(s, x)[Len(s) + 1] = x
        /\ DOMAIN s = 1 .. Len(s) /\ Len(s) \in Nat
        /\ \A i \in 1 .. Len(s) : Append(s, x)[i] = s[i]
    OBVIOUS
  <1> DEFINE a == Append(s, x)
  <1> HIDE DEF a
  <1>2. \A i \in 1 .. (Len(s) + 1) : i \in 1 .. Len(s) \/ i = Len(s) + 1
    BY <1>1
  <1>3. 1 .. Len(s) \subseteq 1 .. (Len(s) + 1) /\ Len(s) + 1 \in 1 .. (Len(s) + 1)
    BY <1>1
  <1>4. Context!ToSet(a) = Context!ToSet(s) \cup {x}
    BY <1>1, <1>2, <1>3 DEF Context!ToSet, a
  <1>5. QED
    BY <1>4 DEF a

(* The directory that is next. *)
LEMMA TakeDirectory ==
    ASSUME NEW tree, NEW d, NEW seen, NEW src, d # <<>>, ScanInv(tree, d, <<>>, seen, src, {})
    PROVE  ScanInv(tree, Tail(d), <<>>, seen, src, {Head(d)})
  <1>1. d \in Seq(Files)
    BY DEF ScanInv, ScanTypes
  <1>2. /\ Head(d) \in Files /\ Tail(d) \in Seq(Files)
        /\ Context!ToSet(d) = {Head(d)} \cup Context!ToSet(Tail(d))
    BY <1>1, ToSetOfHead
  <1>3. ScanTypes(tree, Tail(d), <<>>, seen, src, {Head(d)})
    BY <1>2 DEF ScanInv, ScanTypes
  <1>4. MetInv(tree, Tail(d), seen, {Head(d)})
    BY <1>2 DEF ScanInv, MetInv
  <1>5. FramesInv(tree, <<>>, seen, {Head(d)})
    BY DEF FramesInv, FilesOf
  <1>6. QED
    BY <1>3, <1>4, <1>5 DEF ScanInv

(* The include that is next: the frame on top follows one less. *)
LEMMA Advanced ==
    ASSUME NEW k \in Seq(Frames), k # <<>>, NEW f \in Frames
    PROVE  /\ Append(Context!Front(k), f) \in Seq(Frames) /\ Len(k) \in Nat \ {0}
           /\ Len(Append(Context!Front(k), f)) = Len(k)
           /\ Append(Context!Front(k), f)[Len(k)] = f
           /\ \A i \in 1 .. (Len(k) - 1) : Append(Context!Front(k), f)[i] = k[i]
           /\ Context!Last(k) = k[Len(k)] /\ Context!Last(k) \in Frames
  <1>1. Len(k) \in Nat \ {0} /\ DOMAIN k = 1 .. Len(k) /\ \A i \in 1 .. Len(k) : k[i] \in Frames
    OBVIOUS
  <1>2. /\ Context!Front(k) \in Seq(Frames) /\ Len(Context!Front(k)) = Len(k) - 1
        /\ \A i \in 1 .. (Len(k) - 1) : Context!Front(k)[i] = k[i]
    BY <1>1 DEF Context!Front
  <1>3. Context!Last(k) = k[Len(k)]
    BY DEF Context!Last
  <1>4. PICK h \in Seq(Frames) : h = Context!Front(k)
    BY <1>2
  <1>5. /\ Append(h, f) \in Seq(Frames) /\ Len(Append(h, f)) = Len(h) + 1
        /\ Append(h, f)[Len(h) + 1] = f /\ \A i \in 1 .. Len(h) : Append(h, f)[i] = h[i]
    OBVIOUS
  <1>6. QED
    BY <1>1, <1>2, <1>3, <1>4, <1>5

LEMMA TakeInclude ==
    ASSUME NEW tree, NEW d, NEW k, NEW seen, NEW src, ScanInv(tree, d, k, seen, src, {}), k # <<>>,
           Context!Last(k).left # <<>>
    PROVE  LET top == Context!Last(k)
               k2 == Append(Context!Front(k), [top EXCEPT !.left = Tail(top.left)])
           IN  FilesOf(k2) = FilesOf(k) /\ ScanInv(tree, d, k2, seen, src, {Head(top.left)})
  <1> DEFINE top == Context!Last(k)
             f == [top EXCEPT !.left = Tail(top.left)]
             k2 == Append(Context!Front(k), f)
             n == Len(k)
             x == Head(top.left)
  <1>1. k \in Seq(Frames)
    BY DEF ScanInv, ScanTypes
  <1>2. top = k[n] /\ top \in Frames /\ n \in Nat \ {0}
    BY <1>1, Advanced
  <1>3. top.left \in Seq(Files) /\ top.file \in Files
    BY <1>2 DEF Frames
  <1>4. /\ x \in Files /\ Tail(top.left) \in Seq(Files)
        /\ Context!ToSet(top.left) = {x} \cup Context!ToSet(Tail(top.left))
    BY <1>3, ToSetOfHead
  <1>5. f \in Frames /\ f.file = top.file /\ f.left = Tail(top.left)
    BY <1>2, <1>4 DEF Frames
  <1>6. /\ k2 \in Seq(Frames) /\ Len(k2) = n /\ k2[n] = f
        /\ \A i \in 1 .. (n - 1) : k2[i] = k[i]
    BY <1>1, <1>5, Advanced
  <1> HIDE DEF top, f, k2, n, x
  <1>7. /\ DOMAIN k = 1 .. n /\ DOMAIN k2 = 1 .. n
        /\ \A i \in 1 .. n : i \in 1 .. (n - 1) \/ i = n
    BY <1>1, <1>2, <1>6 DEF n
  <1>8. \A i \in 1 .. n : k2[i].file = k[i].file
    BY <1>2, <1>5, <1>6, <1>7
  <1>9. FilesOf(k2) = FilesOf(k)
    BY <1>7, <1>8 DEF FilesOf
  <1>10. ScanTypes(tree, d, k2, seen, src, {x})
    BY <1>4, <1>6 DEF ScanInv, ScanTypes
  <1>11. FramesInv(tree, k2, seen, {x})
    <2>1. /\ FilesOf(k) \subseteq seen
          /\ \A i, j \in 1 .. n : k[i].file = k[j].file => i = j
          /\ \A i \in 1 .. n : Context!ToSet(k[i].left) \subseteq Includes(tree, k[i].file)
          /\ \A i \in 1 .. n : \A y \in Includes(tree, k[i].file) :
                 \/ y \in Context!ToSet(k[i].left) \/ y \in seen \ FilesOf(k)
                 \/ i < n /\ y = k[i + 1].file
      BY <1>7 DEF ScanInv, FramesInv, n
    <2>2. \A i \in 1 .. n : Context!ToSet(k2[i].left) \subseteq Context!ToSet(k[i].left)
      BY <1>2, <1>4, <1>5, <1>6, <1>7
    <2>3. \A i \in 1 .. n : \A y \in Context!ToSet(k[i].left) :
              y \in Context!ToSet(k2[i].left) \/ (i = n /\ y = x)
      BY <1>2, <1>4, <1>5, <1>6, <1>7
    <2>4. \A i \in 1 .. n : i < n => i + 1 \in 1 .. n
      BY <1>2
    <2>5. \A i \in 1 .. n : \A y \in Includes(tree, k2[i].file) :
             \/ y \in Context!ToSet(k2[i].left) \/ y \in seen \ FilesOf(k2)
             \/ i < n /\ y = k2[i + 1].file
             \/ i = n /\ y \in {x}
      BY <1>8, <1>9, <2>1, <2>3, <2>4
    <2>6. \A i \in 1 .. n : Context!ToSet(k2[i].left) \subseteq Includes(tree, k2[i].file)
      BY <1>8, <2>1, <2>2
    <2>7. QED
      BY <1>6, <1>7, <1>8, <1>9, <2>1, <2>5, <2>6 DEF FramesInv
  <1>12. MetInv(tree, d, seen, {x})
    <2>1. n \in 1 .. n
      BY <1>2
    <2>2. /\ Context!ToSet(k[n].left) \subseteq Includes(tree, k[n].file)
          /\ FilesOf(k) \subseteq seen
      BY <1>7, <2>1 DEF ScanInv, FramesInv
    <2>3. k[n].file \in FilesOf(k)
      BY <1>7, <2>1 DEF FilesOf
    <2>4. x \in Includes(tree, top.file) /\ top.file \in seen
      BY <1>2, <1>4, <2>2, <2>3
    <2>5. QED
      BY <2>4 DEF ScanInv, MetInv, Closed
  <1>13. ScanInv(tree, d, k2, seen, src, {x})
    BY <1>9, <1>10, <1>11, <1>12 DEF ScanInv
  <1>14. QED
    BY <1>9, <1>13 DEF top, f, k2, x

(* A file that was loaded before. *)
LEMMA KnownFile ==
    ASSUME NEW tree, NEW d, NEW k, NEW seen, NEW src, NEW x,
           ScanInv(tree, d, k, seen, src, {x}), x \in seen, x \notin FilesOf(k)
    PROVE  ScanInv(tree, d, k, seen, src, {})
  <1>1. ScanTypes(tree, d, k, seen, src, {})
    BY DEF ScanInv, ScanTypes
  <1>2. FramesInv(tree, k, seen, {})
    BY DEF ScanInv, FramesInv
  <1>3. MetInv(tree, d, seen, {})
    BY DEF ScanInv, MetInv
  <1>4. QED
    BY <1>1, <1>2, <1>3 DEF ScanInv

(* A file that is met for the first time. *)
LEMMA EnterFile ==
    ASSUME NEW tree, NEW d, NEW k, NEW seen, NEW src, NEW x,
           ScanInv(tree, d, k, seen, src, {x}), x \notin seen
    PROVE  ScanInv(tree, d, Append(k, [file |-> x, left |-> tree[x]]), seen \cup {x},
                   Append(src, x), {})
  <1> DEFINE f == [file |-> x, left |-> tree[x]]
             k2 == Append(k, f)
             n == Len(k)
             s2 == Append(src, x)
             seen2 == seen \cup {x}
  <1>1. /\ tree \in [Files -> Seq(Files)] /\ d \in Seq(Files) /\ k \in Seq(Frames)
        /\ seen \in SUBSET Files /\ src \in Seq(Files) /\ x \in Files
    BY DEF ScanInv, ScanTypes
  <1>2. f \in Frames /\ f.file = x /\ f.left = tree[x]
    BY <1>1 DEF Frames
  <1> HIDE DEF f
  <1>3. /\ k2 \in Seq(Frames) /\ Len(k2) = n + 1 /\ n \in Nat /\ k2[n + 1] = f
        /\ DOMAIN k = 1 .. n /\ DOMAIN k2 = 1 .. (n + 1) /\ \A i \in 1 .. n : k2[i] = k[i]
    BY <1>1, <1>2
  <1>4. /\ s2 \in Seq(Files) /\ DOMAIN src = 1 .. Len(src) /\ DOMAIN s2 = 1 .. (Len(src) + 1)
        /\ Len(src) \in Nat /\ s2[Len(src) + 1] = x /\ \A i \in 1 .. Len(src) : s2[i] = src[i]
    BY <1>1
  <1>5. Context!ToSet(s2) = Context!ToSet(src) \cup {x}
    BY <1>1, ToSetAppended
  <1> HIDE DEF k2, n, s2
  <1>6. \A i \in 1 .. (n + 1) : i \in 1 .. n \/ i = n + 1
    BY <1>3
  <1>7. FilesOf(k2) = FilesOf(k) \cup {x}
    <2>1. 1 .. n \subseteq 1 .. (n + 1) /\ n + 1 \in 1 .. (n + 1)
      BY <1>3
    <2>2. QED
      BY <1>2, <1>3, <1>6, <2>1 DEF FilesOf
  <1>8. ScanTypes(tree, d, k2, seen2, s2, {})
    BY <1>1, <1>3, <1>4 DEF ScanTypes
  <1>9. ReadOnce(seen2, s2)
    <2>1. seen = Context!ToSet(src) /\ \A i, j \in DOMAIN src : src[i] = src[j] => i = j
      BY DEF ScanInv, ReadOnce
    <2>2. \A i \in DOMAIN src : src[i] # x
      BY <2>1 DEF Context!ToSet
    <2>3. \A i \in DOMAIN s2 : i \in DOMAIN src \/ i = Len(src) + 1
      BY <1>4
    <2>4. \A i \in DOMAIN src : s2[i] = src[i] /\ i # Len(src) + 1
      BY <1>4
    <2>5. \A i, j \in DOMAIN s2 : s2[i] = s2[j] => i = j
      BY <1>4, <2>1, <2>2, <2>3, <2>4
    <2>6. QED
      BY <1>5, <2>1, <2>5 DEF ReadOnce
  <1>10. seen2 \ FilesOf(k2) = seen \ FilesOf(k)
    BY <1>7
  <1>11. FramesInv(tree, k2, seen2, {})
    <2>1. /\ FilesOf(k) \subseteq seen
          /\ \A i, j \in 1 .. n : k[i].file = k[j].file => i = j
          /\ \A i \in 1 .. n : Context!ToSet(k[i].left) \subseteq Includes(tree, k[i].file)
          /\ \A i \in 1 .. n : \A y \in Includes(tree, k[i].file) :
                 \/ y \in Context!ToSet(k[i].left) \/ y \in seen \ FilesOf(k)
                 \/ i < n /\ y = k[i + 1].file
                 \/ i = n /\ y = x
      BY <1>3 DEF ScanInv, FramesInv, n
    <2>2. \A i \in 1 .. n : k[i].file # x
      BY <1>3, <2>1 DEF FilesOf
    <2>3. \A i, j \in 1 .. (n + 1) : k2[i].file = k2[j].file => i = j
      BY <1>2, <1>3, <1>6, <2>1, <2>2
    <2>4. \A i \in 1 .. (n + 1) : Context!ToSet(k2[i].left) \subseteq Includes(tree, k2[i].file)
      BY <1>2, <1>3, <1>6, <2>1 DEF Includes
    <2>5. ASSUME NEW i \in 1 .. n, NEW y \in Includes(tree, k2[i].file)
          PROVE  \/ y \in Context!ToSet(k2[i].left) \/ y \in seen2 \ FilesOf(k2)
                 \/ i < n + 1 /\ y = k2[i + 1].file
      <3>1. k2[i] = k[i] /\ i < n + 1 /\ (i < n => i + 1 \in 1 .. n)
        BY <1>3
      <3>2. i < n => k2[i + 1] = k[i + 1]
        BY <1>3, <3>1
      <3>3. i = n => k2[i + 1].file = x
        BY <1>2, <1>3
      <3>4. QED
        BY <1>10, <2>1, <2>5, <3>1, <3>2, <3>3
    <2>6. \A y \in Includes(tree, k2[n + 1].file) : y \in Context!ToSet(k2[n + 1].left)
      BY <1>2, <1>3 DEF Includes
    <2>7. \A i \in DOMAIN k2 : \A y \in Includes(tree, k2[i].file) :
              \/ y \in Context!ToSet(k2[i].left) \/ y \in seen2 \ FilesOf(k2)
              \/ i < Len(k2) /\ y = k2[i + 1].file
      BY <1>3, <1>6, <2>5, <2>6
    <2>8. FilesOf(k2) \subseteq seen2
      BY <1>7, <2>1
    <2>9. QED
      BY <1>3, <2>3, <2>4, <2>7, <2>8 DEF FramesInv
  <1>12. MetInv(tree, d, seen2, {})
    BY DEF ScanInv, MetInv
  <1>13. DoneInv(tree, seen2 \ FilesOf(k2))
    BY <1>10 DEF ScanInv
  <1>14. ScanInv(tree, d, k2, seen2, s2, {})
    BY <1>8, <1>9, <1>11, <1>12, <1>13 DEF ScanInv
  <1>15. QED
    BY <1>14 DEF f, k2, s2

(* A file whose includes are all loaded is done. *)
LEMMA LeaveFrame ==
    ASSUME NEW tree, NEW d, NEW k, NEW seen, NEW src, ScanInv(tree, d, k, seen, src, {}), k # <<>>,
           Context!Last(k).left = <<>>
    PROVE  ScanInv(tree, d, Context!Front(k), seen, src, {})
  <1> DEFINE n == Len(k)
             k2 == Context!Front(k)
             x == k[n].file
             done == seen \ FilesOf(k)
  <1>1. k \in Seq(Frames) /\ seen \in SUBSET Files
    BY DEF ScanInv, ScanTypes
  <1>2. n \in Nat \ {0} /\ DOMAIN k = 1 .. n /\ \A i \in 1 .. n : k[i] \in Frames
    BY <1>1
  <1>3. /\ k2 \in Seq(Frames) /\ Len(k2) = n - 1 /\ DOMAIN k2 = 1 .. (n - 1)
        /\ \A i \in 1 .. (n - 1) : k2[i] = k[i]
    BY <1>1, <1>2 DEF Context!Front
  <1>4. k[n].left = <<>> /\ n \in 1 .. n
    BY <1>2 DEF Context!Last
  <1> HIDE DEF n, k2, x, done
  <1>5. /\ FilesOf(k) \subseteq seen
        /\ \A i, j \in 1 .. n : k[i].file = k[j].file => i = j
        /\ \A i \in 1 .. n : Context!ToSet(k[i].left) \subseteq Includes(tree, k[i].file)
        /\ \A i \in 1 .. n : \A y \in Includes(tree, k[i].file) :
               \/ y \in Context!ToSet(k[i].left) \/ y \in done
               \/ i < n /\ y = k[i + 1].file
    BY <1>2 DEF ScanInv, FramesInv, n, done
  <1>6. x \in seen /\ x \notin done /\ x \in FilesOf(k)
    BY <1>2, <1>4, <1>5 DEF x, done, FilesOf
  <1>7. Includes(tree, x) \subseteq done
    <2>1. Context!ToSet(k[n].left) = {}
      BY <1>4, ToSetEmpty
    <2>2. ~(n < n)
      BY <1>2
    <2>3. QED
      BY <1>4, <1>5, <2>1, <2>2 DEF x
  <1>8. \A i \in 1 .. n : i \in 1 .. (n - 1) \/ i = n
    BY <1>2
  <1>9. \A i \in 1 .. (n - 1) : i \in 1 .. n /\ i # n
    BY <1>2
  <1>10. FilesOf(k2) = FilesOf(k) \ {x}
    BY <1>2, <1>3, <1>4, <1>5, <1>8, <1>9 DEF FilesOf, x
  <1>11. seen \ FilesOf(k2) = done \cup {x}
    BY <1>6, <1>10 DEF done
  <1>12. FramesInv(tree, k2, seen, {})
    <2>1. ASSUME NEW i \in 1 .. (n - 1), NEW y \in Includes(tree, k2[i].file)
          PROVE  \/ y \in Context!ToSet(k2[i].left) \/ y \in seen \ FilesOf(k2)
                 \/ i < n - 1 /\ y = k2[i + 1].file
      <3>1. k2[i] = k[i] /\ i \in 1 .. n /\ (i < n - 1 => k2[i + 1] = k[i + 1])
        BY <1>2, <1>3, <1>9
      <3>2. i < n - 1 \/ k[i + 1].file = x
        <4>1. i < n - 1 \/ i + 1 = n
          BY <1>2
        <4>2. QED
          BY <4>1 DEF x
      <3>3. QED
        BY <1>5, <1>11, <2>1, <3>1, <3>2
    <2>2. \A i \in 1 .. (n - 1) : Context!ToSet(k2[i].left) \subseteq Includes(tree, k2[i].file)
      BY <1>3, <1>5, <1>9
    <2>3. \A i, j \in 1 .. (n - 1) : k2[i].file = k2[j].file => i = j
      BY <1>3, <1>5, <1>9
    <2>4. FilesOf(k2) \subseteq seen
      BY <1>5, <1>10
    <2>5. QED
      BY <1>3, <2>1, <2>2, <2>3, <2>4 DEF FramesInv
  <1>13. DoneInv(tree, done \cup {x})
    <2>1. Closed(tree, done) /\ \A y \in done : Acyclic(tree, y)
      BY DEF ScanInv, DoneInv, done
    <2>2. Closed(tree, done \cup {x})
      BY <1>7, <2>1 DEF Closed
    <2>3. Acyclic(tree, x)
      <3>1. done \in SUBSET Files
        BY <1>1 DEF done
      <3>2. QED
        BY <1>6, <1>7, <2>1, <3>1 DEF Acyclic
    <2>4. QED
      BY <2>1, <2>2, <2>3 DEF DoneInv
  <1>14. ScanTypes(tree, d, k2, seen, src, {})
    BY <1>3 DEF ScanInv, ScanTypes
  <1>15. ScanInv(tree, d, k2, seen, src, {})
    BY <1>11, <1>12, <1>13, <1>14 DEF ScanInv
  <1>16. QED
    BY <1>15 DEF k2

-----------------------------------------------------------------------------
(* Instructions: what a scan that ends has read, and the steps of the scan. *)

LEMMA ReachedIsLeast ==
    ASSUME NEW T \in SUBSET Files, NEW S \in SUBSET Files, T \subseteq S, Closed(workspaceFiles, S)
    PROVE  Context!Reached(T) \subseteq S
  BY DEF Context!Reached, Context!FollowsIncludes, Closed, Includes

LEMMA ScanResult ==
    ASSUME NEW seen, NEW src, ScanInv(workspaceFiles, <<>>, <<>>, seen, src, {})
    PROVE  /\ Context!ToSet(src) = Context!Reached(Context!ToSet(DirectoryFiles))
           /\ Context!IsInjective(src)
           /\ \A x \in Context!ToSet(src) :
                  x \notin Context!Reached(Context!ToSet(workspaceFiles[x]))
  <1> DEFINE start == Context!ToSet(DirectoryFiles)
  <1>1. /\ seen = Context!ToSet(src) /\ seen \in SUBSET Files
        /\ \A i, j \in DOMAIN src : src[i] = src[j] => i = j
    BY DEF ScanInv, ReadOnce, ScanTypes
  <1>2. FilesOf(<<>>) = {}
    BY DEF FilesOf
  <1>3. Closed(workspaceFiles, seen) /\ \A x \in seen : Acyclic(workspaceFiles, x)
    BY <1>2 DEF ScanInv, DoneInv
  <1>4. /\ \A S \in SUBSET Files : start \subseteq S /\ Closed(workspaceFiles, S) => seen \subseteq S
        /\ start \subseteq seen
    BY ToSetEmpty DEF ScanInv, MetInv
  <1> HIDE DEF start
  <1>5. seen \subseteq Context!Reached(start)
    BY <1>1, <1>4 DEF Context!Reached, Context!FollowsIncludes, Closed, Includes
  <1>6. Context!Reached(start) \subseteq seen
    BY <1>1, <1>3, <1>4, ReachedIsLeast
  <1>7. ASSUME NEW x \in seen
        PROVE  x \notin Context!Reached(Context!ToSet(workspaceFiles[x]))
    <2>1. PICK S \in SUBSET Files : /\ Closed(workspaceFiles, S) /\ x \notin S
                                    /\ Includes(workspaceFiles, x) \subseteq S
      BY <1>3 DEF Acyclic
    <2>2. QED
      BY <2>1, ReachedIsLeast DEF Includes
  <1>8. Context!IsInjective(src)
    BY <1>1 DEF Context!IsInjective
  <1>9. QED
    BY <1>1, <1>5, <1>6, <1>7, <1>8 DEF start

(* The scan that is under way, or over. *)
ScanHolds(l) ==
    /\ \E st, e : l = [stage |-> st, dirs |-> l.dirs, stack |-> l.stack, seen |-> l.seen,
                       sources |-> l.sources, error |-> e]
    /\ ScanInv(workspaceFiles, l.dirs, l.stack, l.seen, l.sources, {})

LoaderInv ==
    /\ workspaceFiles \in [Files -> Seq(Files)]
    /\ loader.stage \in {"scanning", "loaded", "failed"}
    /\ loader.stage # "failed" => ScanHolds(loader)
    /\ loader.stage = "loaded" => loader.dirs = <<>> /\ loader.stack = <<>>

LEMMA LoaderStart == ASSUME Context!InstructionInit PROVE LoaderInv
  <1>1. PICK e : loader = [stage |-> "scanning", dirs |-> DirectoryFiles, stack |-> <<>>, seen |-> {},
                           sources |-> <<>>, error |-> e]
    BY Zenon DEF Context!InstructionInit
  <1>2. workspaceFiles \in [Files -> Seq(Files)] /\ DirectoryFiles \in Seq(Files)
    <2>1. workspaceFiles \in FileTrees
      BY Zenon DEF Context!InstructionInit
    <2>2. QED
      BY <2>1, FilesAssumption
  <1>3. FilesOf(<<>>) = {}
    BY DEF FilesOf
  <1>4. ScanTypes(workspaceFiles, DirectoryFiles, <<>>, {}, <<>>, {})
    BY <1>2 DEF ScanTypes
  <1>5. ReadOnce({}, <<>>)
    BY ToSetEmpty DEF ReadOnce
  <1>6. FramesInv(workspaceFiles, <<>>, {}, {})
    BY DEF FramesInv, FilesOf
  <1>7. MetInv(workspaceFiles, DirectoryFiles, {}, {})
    BY DEF MetInv
  <1>8. DoneInv(workspaceFiles, {})
    BY DEF DoneInv, Closed
  <1>9. ScanInv(workspaceFiles, DirectoryFiles, <<>>, {}, <<>>, {})
    BY <1>3, <1>4, <1>5, <1>6, <1>7, <1>8 DEF ScanInv
  <1>10. /\ loader.stage = "scanning" /\ loader.dirs = DirectoryFiles /\ loader.stack = <<>>
         /\ loader.seen = {} /\ loader.sources = <<>>
    BY <1>1
  <1>11. ScanHolds(loader)
    BY <1>1, <1>9, <1>10 DEF ScanHolds
  <1>12. QED
    BY <1>2, <1>10, <1>11 DEF LoaderInv

LEMMA LoaderFails ==
    ASSUME LoaderInv, loader.stage = "scanning", UNCHANGED workspaceFiles, NEW code,
           Context!LoadFails(code)
    PROVE  LoaderInv'
  <1>1. PICK st, d, k, n, s, e : loader = [stage |-> st, dirs |-> d, stack |-> k, seen |-> n,
                                           sources |-> s, error |-> e]
    BY DEF LoaderInv, ScanHolds
  <1>2. loader' = [loader EXCEPT !.stage = "failed", !.error = code, !.stack = <<>>, !.sources = <<>>]
    BY DEF Context!LoadFails
  <1>3. loader'.stage = "failed"
    BY <1>1, <1>2
  <1>4. QED
    BY <1>3 DEF LoaderInv

LEMMA LoadFileStep ==
    ASSUME LoaderInv, loader.stage = "scanning", UNCHANGED workspaceFiles,
           NEW file, NEW stack, NEW dirs, FilesOf(stack) = FilesOf(loader.stack),
           ScanInv(workspaceFiles, dirs, stack, loader.seen, loader.sources, {file}),
           Context!LoadFile(file, stack, dirs)
    PROVE  LoaderInv'
  <1>1. PICK d, k, n, s, e : loader = [stage |-> "scanning", dirs |-> d, stack |-> k, seen |-> n,
                                       sources |-> s, error |-> e]
    BY DEF LoaderInv, ScanHolds
  <1>2. loader.seen = n /\ loader.sources = s /\ loader.stack = k
    BY <1>1
  <1>3. workspaceFiles' \in [Files -> Seq(Files)]
    BY DEF LoaderInv
  <1>4. \/ \E code : Context!LoadFails(code)
        \/ /\ file \notin Context!Active /\ file \in loader.seen
           /\ loader' = [loader EXCEPT !.stack = stack, !.dirs = dirs]
        \/ /\ file \notin loader.seen
           /\ loader' = [loader EXCEPT !.seen = @ \cup {file}, !.sources = Append(@, file), !.dirs = dirs,
                             !.stack = Append(stack, [file |-> file, left |-> workspaceFiles[file]])]
    BY Zenon DEF Context!LoadFile, Context!Cycle
  <1>5. CASE \E code : Context!LoadFails(code)
    BY <1>5, LoaderFails
  <1>6. ASSUME NEW k2, NEW n2, NEW s2,
               ScanInv(workspaceFiles, dirs, k2, n2, s2, {}),
               loader' = [stage |-> "scanning", dirs |-> dirs, stack |-> k2, seen |-> n2,
                          sources |-> s2, error |-> e]
        PROVE  LoaderInv'
    <2>1. /\ loader'.stage = "scanning" /\ loader'.dirs = dirs /\ loader'.stack = k2
          /\ loader'.seen = n2 /\ loader'.sources = s2
      BY <1>6
    <2>2. ScanHolds(loader)'
      BY <1>6, <2>1 DEF ScanHolds
    <2>3. QED
      BY <1>3, <2>1, <2>2 DEF LoaderInv
  <1>7. CASE /\ file \notin Context!Active /\ file \in loader.seen
             /\ loader' = [loader EXCEPT !.stack = stack, !.dirs = dirs]
    <2>1. file \notin FilesOf(stack)
      BY <1>7 DEF Context!Active, FilesOf
    <2>2. ScanInv(workspaceFiles, dirs, stack, n, s, {})
      BY <1>2, <1>7, <2>1, KnownFile
    <2>3. loader' = [stage |-> "scanning", dirs |-> dirs, stack |-> stack, seen |-> n,
                     sources |-> s, error |-> e]
      BY <1>1, <1>7
    <2>4. QED
      BY <1>6, <2>2, <2>3
  <1>8. CASE /\ file \notin loader.seen
             /\ loader' = [loader EXCEPT !.seen = @ \cup {file}, !.sources = Append(@, file), !.dirs = dirs,
                               !.stack = Append(stack, [file |-> file, left |-> workspaceFiles[file]])]
    <2>1. PICK k2 : k2 = Append(stack, [file |-> file, left |-> workspaceFiles[file]])
      OBVIOUS
    <2>2. PICK s2 : s2 = Append(s, file)
      OBVIOUS
    <2>3. ScanInv(workspaceFiles, dirs, k2, n \cup {file}, s2, {})
      BY <1>2, <1>8, <2>1, <2>2, EnterFile
    <2>4. loader' = [loader EXCEPT !.seen = n \cup {file}, !.sources = s2, !.dirs = dirs, !.stack = k2]
      BY <1>2, <1>8, <2>1, <2>2
    <2>5. loader' = [stage |-> "scanning", dirs |-> dirs, stack |-> k2, seen |-> n \cup {file},
                     sources |-> s2, error |-> e]
      BY <1>1, <2>4
    <2>6. QED
      BY <1>6, <2>3, <2>5
  <1>9. QED
    BY <1>4, <1>5, <1>7, <1>8

LEMMA LoaderRests ==
    ASSUME LoaderInv, UNCHANGED <<workspaceFiles, loader>> PROVE LoaderInv'
  <1>1. ScanHolds(loader) => ScanHolds(loader)'
    BY DEF ScanHolds
  <1>2. QED
    BY <1>1 DEF LoaderInv

LEMMA ScanStep ==
    ASSUME LoaderInv,
           \/ Context!NextDirectory \/ Context!FollowInclude \/ Context!LeaveFile
           \/ Context!ReadRefused \/ Context!ScanEnds
    PROVE  LoaderInv' /\ UNCHANGED <<snapshots, workspace, appending, endorsed>>
  <1>1. UNCHANGED <<workspaceFiles, snapshots, workspace, appending, endorsed>>
    BY DEF Context!NextDirectory, Context!FollowInclude, Context!LeaveFile, Context!ReadRefused,
           Context!ScanEnds
  <1>2. loader.stage = "scanning"
    BY DEF Context!NextDirectory, Context!FollowInclude, Context!LeaveFile, Context!ReadRefused,
           Context!ScanEnds
  <1>3. /\ ScanHolds(loader)
        /\ ScanInv(workspaceFiles, loader.dirs, loader.stack, loader.seen, loader.sources, {})
    BY <1>2 DEF LoaderInv, ScanHolds
  <1>4. PICK d, k, n, s, e : loader = [stage |-> "scanning", dirs |-> d, stack |-> k, seen |-> n,
                                       sources |-> s, error |-> e]
    BY <1>2, <1>3 DEF ScanHolds
  <1>5. CASE Context!NextDirectory
    <2>1. /\ loader.stack = <<>> /\ loader.dirs # <<>>
          /\ Context!LoadFile(Head(loader.dirs), <<>>, Tail(loader.dirs))
      BY <1>5 DEF Context!NextDirectory
    <2>2. ScanInv(workspaceFiles, Tail(loader.dirs), <<>>, loader.seen, loader.sources,
                  {Head(loader.dirs)})
      BY <1>3, <2>1, TakeDirectory
    <2>3. QED
      BY <1>1, <1>2, <2>1, <2>2, LoadFileStep
  <1>6. CASE Context!FollowInclude
    <2> DEFINE top == Context!Last(loader.stack)
               k2 == Append(Context!Front(loader.stack), [top EXCEPT !.left = Tail(top.left)])
    <2>1. /\ loader.stack # <<>> /\ top.left # <<>>
          /\ Context!LoadFile(Head(top.left), k2, loader.dirs)
      BY <1>6 DEF Context!FollowInclude
    <2>2. /\ FilesOf(k2) = FilesOf(loader.stack)
          /\ ScanInv(workspaceFiles, loader.dirs, k2, loader.seen, loader.sources, {Head(top.left)})
      BY <1>3, <2>1, TakeInclude
    <2> HIDE DEF top, k2
    <2>3. QED
      BY <1>1, <1>2, <2>1, <2>2, LoadFileStep
  <1>7. ASSUME NEW k2, NEW st \in {"scanning", "loaded"},
               ScanInv(workspaceFiles, d, k2, n, s, {}), st = "loaded" => d = <<>> /\ k2 = <<>>,
               loader' = [stage |-> st, dirs |-> d, stack |-> k2, seen |-> n,
                          sources |-> s, error |-> e]
        PROVE  LoaderInv'
    <2>1. /\ loader'.stage = st /\ loader'.dirs = d /\ loader'.stack = k2
          /\ loader'.seen = n /\ loader'.sources = s
      BY <1>7
    <2>2. ScanHolds(loader)'
      BY <1>1, <1>7, <2>1 DEF ScanHolds
    <2>3. QED
      BY <1>1, <1>7, <2>1, <2>2 DEF LoaderInv
  <1>8. ScanInv(workspaceFiles, d, k, n, s, {}) /\ loader.stack = k /\ loader.dirs = d
    BY <1>3, <1>4
  <1>9. CASE Context!LeaveFile
    <2>1. /\ loader.stack # <<>> /\ Context!Last(loader.stack).left = <<>>
          /\ loader' = [loader EXCEPT !.stack = Context!Front(@)]
      BY <1>9 DEF Context!LeaveFile
    <2>2. PICK k2 : k2 = Context!Front(k)
      OBVIOUS
    <2>3. ScanInv(workspaceFiles, d, k2, n, s, {})
      BY <1>8, <2>1, <2>2, LeaveFrame
    <2>4. loader' = [loader EXCEPT !.stack = k2]
      BY <1>8, <2>1, <2>2
    <2>5. loader' = [stage |-> "scanning", dirs |-> d, stack |-> k2, seen |-> n,
                     sources |-> s, error |-> e]
      BY <1>4, <2>4
    <2>6. QED
      BY <1>1, <1>7, <2>3, <2>5
  <1>10. CASE Context!ReadRefused
    <2>1. Context!LoadFails("unreadable")
      BY <1>10 DEF Context!ReadRefused
    <2>2. QED
      BY <1>1, <1>2, <2>1, LoaderFails
  <1>11. CASE Context!ScanEnds
    <2>1. /\ loader.stack = <<>> /\ loader.dirs = <<>>
          /\ loader' = [loader EXCEPT !.stage = "loaded"]
      BY <1>11 DEF Context!ScanEnds
    <2>2. loader' = [stage |-> "loaded", dirs |-> d, stack |-> k, seen |-> n,
                     sources |-> s, error |-> e]
      BY <1>4, <2>1
    <2>3. QED
      BY <1>1, <1>7, <1>8, <2>1, <2>2
  <1>12. QED
    BY <1>1, <1>5, <1>6, <1>9, <1>10, <1>11

(* Instructions as a whole. *)
InstructionInv == SnapshotInv /\ CurrentInv /\ LoaderInv

LEMMA InstructionStart == ASSUME Context!InstructionInit PROVE InstructionInv
  BY SnapshotStart, LoaderStart DEF InstructionInv

LEMMA InstructionsRest == ASSUME InstructionInv, UNCHANGED instructionsPart PROVE InstructionInv'
  <1>1. UNCHANGED <<workspaceFiles, loader>> /\ UNCHANGED <<snapshots, workspace, appending, endorsed>>
    BY DEF instructionsPart
  <1>2. QED
    BY <1>1, SnapshotsRest, LoaderRests DEF InstructionInv

LEMMA InstructionNextStep ==
    ASSUME InstructionInv, Context!InstructionNext
    PROVE  InstructionInv'
  <1> USE DEF InstructionInv
  <1>1. CASE \/ Context!NextDirectory \/ Context!FollowInclude \/ Context!LeaveFile
             \/ Context!ReadRefused \/ Context!ScanEnds
    <2>1. LoaderInv' /\ UNCHANGED <<snapshots, workspace, endorsed>>
      BY <1>1, ScanStep
    <2>2. QED
      BY <2>1, SnapshotsRest
  <1>2. ASSUME NEW s \in Scanners,
               Context!AppendConflicts(s) \/ \E x : Context!AppendBegins(s, x)
        PROVE  InstructionInv'
    <2>1. UNCHANGED <<workspaceFiles, loader>> /\ UNCHANGED <<snapshots, workspace, endorsed>>
      BY <1>2 DEF Context!AppendBegins, Context!AppendConflicts
    <2>2. QED
      BY <2>1, SnapshotsRest, LoaderRests
  <1>3. ASSUME NEW s \in Scanners, Context!AppendWrites(s) PROVE InstructionInv'
    <2>1. UNCHANGED <<workspaceFiles, loader>>
      BY <1>3 DEF Context!AppendWrites
    <2>2. QED
      BY <1>3, <2>1, AppendWritesStep, LoaderRests
  <1>5. CASE Context!EnsureWorkspace \/ Context!RevokeCurrent
    <2>1. UNCHANGED <<workspaceFiles, loader>>
      BY <1>5 DEF Context!EnsureWorkspace, Context!RevokeCurrent
    <2>2. QED
      BY <1>5, <2>1, EnsureOrRevoke, LoaderRests
  <1>6. ASSUME NEW r \in snapshots, Context!ApproveSnapshot(r) PROVE InstructionInv'
    <2>1. UNCHANGED <<workspaceFiles, loader>>
      BY <1>6 DEF Context!ApproveSnapshot
    <2>2. QED
      BY <1>6, <2>1, ApproveStep, LoaderRests
  <1> HIDE DEF InstructionInv
  <1>7. QED
    BY <1>1, <1>2, <1>3, <1>5, <1>6 DEF Context!InstructionNext

LEMMA InstructionPromise ==
    ASSUME InstructionInv
    PROVE  Context!EffectiveIsEndorsed /\ Context!LoadedIsTheReachableTree
  <1>1. ASSUME loader.stage = "loaded"
        PROVE  ScanInv(workspaceFiles, <<>>, <<>>, loader.seen, loader.sources, {})
    BY <1>1 DEF InstructionInv, LoaderInv, ScanHolds
  <1>2. Context!LoadedIsTheReachableTree
    BY <1>1, ScanResult DEF Context!LoadedIsTheReachableTree
  <1>3. QED
    BY <1>2, SnapshotPromise DEF InstructionInv

-----------------------------------------------------------------------------
(* The parts of the server together: one acts, the others rest. *)

ContextInv == SkillInv /\ InstructionInv

LEMMA RestOf ==
    ASSUME NEW part, Rest(part)
    PROVE  /\ part # "chat" => UNCHANGED chatPart
           /\ part # "mcp" => UNCHANGED mcpPart
           /\ part # "skills" => UNCHANGED skillsPart
           /\ part # "instructions" => UNCHANGED instructionsPart
           /\ part # "proposals" => UNCHANGED proposalsPart
           /\ part # "exports" => UNCHANGED exportsPart
           /\ part # "access" => UNCHANGED accessPart
           /\ part # "ledger" => UNCHANGED ledgerPart
  BY DEF Rest

LEMMA OnePartActs ==
    ASSUME Next
    PROVE  \/ Chat!ChatNext /\ Rest("chat")
           \/ Mcp!McpNext /\ Rest("mcp")
           \/ Skill!SkillNext /\ Rest("skills")
           \/ Context!InstructionNext /\ Rest("instructions")
           \/ Evaluation!CandidateNext /\ Rest("proposals")
           \/ Reader!ExportNext /\ Rest("exports")
           \/ (Access!AccountsNext \/ Access!LocalNext \/ Access!SharedNext) /\ Rest("access")
           \/ Ledger!LedgerNext /\ Rest("ledger")
           \/ \E part \in {"client", "context", "evaluations", "documents", "memory",
                           "queries", "conversations", "sessions"} : Rest(part)
  <1>1. CASE ChatStep \/ McpStep \/ SkillsStep \/ InstructionsStep \/ ProposalsStep
    BY <1>1 DEF ChatStep, McpStep, SkillsStep, InstructionsStep, ProposalsStep
  <1>2. CASE ExportsStep \/ AccountsStep \/ LocalStep \/ SharedStep
    BY <1>2 DEF ExportsStep, AccountsStep, LocalStep, SharedStep
  <1>3. CASE LedgerStep \/ ClientStep \/ ContextStep \/ EvaluationsStep \/ DocumentsStep
    BY <1>3 DEF LedgerStep, ClientStep, ContextStep, EvaluationsStep, DocumentsStep
  <1>4. CASE MemoryStep \/ QueriesStep \/ ConversationsStep \/ SessionsStep
    BY <1>4 DEF MemoryStep, QueriesStep, ConversationsStep, SessionsStep
  <1>5. QED
    BY <1>1, <1>2, <1>3, <1>4 DEF Next

LEMMA ContextNextStep == ASSUME ContextInv, Next PROVE ContextInv'
  <1>1. SkillInv'
    BY OnePartActs, RestOf, SkillRests, SkillNextStep DEF ContextInv
  <1>2. InstructionInv'
    BY OnePartActs, RestOf, InstructionsRest, InstructionNextStep DEF ContextInv
  <1>3. QED
    BY <1>1, <1>2 DEF ContextInv

LEMMA ContextRests == ASSUME ContextInv, UNCHANGED vars PROVE ContextInv'
  <1>1. UNCHANGED skillsPart /\ UNCHANGED instructionsPart
    BY DEF vars
  <1>2. QED
    BY <1>1, SkillRests, InstructionsRest DEF ContextInv

(* Whichever part acts, the revisions of a package and the snapshots of a   *)
(* workspace are numbered densely and stored once per content, however      *)
(* often an install or an append is tried again, a run has loaded only      *)
(* what was vouched for, and a scan has read each file once, follows the    *)
(* includes of the files on its stack, and closes a file only after what it *)
(* includes (skills/persistence.py, skills/context.py,                      *)
(* instructions/loaders.py).                                                *)
THEOREM ContextInvariant == Spec => []ContextInv
  <1>1. Init => ContextInv
    BY SkillStart, InstructionStart DEF Init, ContextInv
  <1>2. ContextInv /\ [Next]_vars => ContextInv'
    BY ContextNextStep, ContextRests
  <1>3. QED
    BY <1>1, <1>2, PTL DEF Spec

(* Every skill text in a run's context had an administrator's word on that  *)
(* content when its row was read, although revisions are approved, revoked  *)
(* and installed again between the selection and the load, and a run never  *)
(* sees two revisions of one skill, although the binding is read in another *)
(* transaction (enrich, context.py:89; get_project_visible_revision,        *)
(* persistence.py:425).                                                     *)
THEOREM LoadedSkills == Spec => []LoadedSkillsAreVouchedFor
  <1>1. ContextInv => LoadedSkillsAreVouchedFor
    BY SkillPromise DEF ContextInv, LoadedSkillsAreVouchedFor
  <1>2. QED
    BY <1>1, ContextInvariant, PTL

-----------------------------------------------------------------------------
(* MCP servers. *)

IsTool(t) ==
    \E i, s, n, c, f, e, o :
        t = [id |-> i, server |-> s, name |-> n, schema |-> c, flags |-> f, enabled |-> e,
             origin |-> o]

Issued(x, ids) == x[1] \in 1 .. ids

(* The id x was given out for server s, and whatever row carries it there   *)
(* was listed from profile p.                                               *)
Claimed(x, s, p, rows, ids) ==
    /\ Issued(x, ids)
    /\ \A t \in rows : t.id = x /\ t.server = s => t.origin = p

(* What is stored of a tool: its server's profile, and a consent if it may  *)
(* be used.                                                                 *)
StoredTool(t, servers, agreed) ==
    /\ IsTool(t) /\ t.server \in McpIds
    /\ servers[t.server].state = "row" /\ t.origin = servers[t.server].profile
    /\ t.enabled => <<t.server, t.origin, t.name, t.schema>> \in agreed

BindingOk(b, rows, ids) == Claimed(b.tool, b.server, b.profile, rows, ids)

TaskHolds(x, rows, ids) ==
    /\ x.kind = "calling" => BindingOk(x.binding, rows, ids)
    /\ x.kind \in {"listing", "listed"} =>
           \E s \in McpIds : \E p : x = [kind |-> x.kind, server |-> s, profile |-> p]

ToolsInv ==
    /\ toolIds \in Nat /\ server = [s \in McpIds |-> server[s]]
    /\ \A t \in toolRows : StoredTool(t, server, consents)
    /\ \A t \in toolRows : Claimed(t.id, t.server, t.origin, toolRows, toolIds)

TasksInv ==
    /\ mcpTask = [j \in Jobs |-> mcpTask[j]]
    /\ \A b \in bindings : Issued(b.tool, toolIds)
    /\ \A j \in Jobs : TaskHolds(mcpTask[j], toolRows, toolIds)

McpInv == ToolsInv /\ TasksInv /\ Mcp!CallsHaveConsent

LEMMA McpStart == ASSUME Mcp!McpInit PROVE McpInv
  BY DEF Mcp!McpInit, McpInv, ToolsInv, TasksInv, TaskHolds, Mcp!NoTask, Mcp!CallsHaveConsent

LEMMA McpRests == ASSUME McpInv, UNCHANGED mcpPart PROVE McpInv'
  BY DEF mcpPart, McpInv, ToolsInv, TasksInv, Mcp!CallsHaveConsent

(* A claim stands: ids are not given out again, and a row keeps its origin. *)
RowsKept ==
    /\ toolIds' \in {toolIds, toolIds + 1}
    /\ \A t \in toolRows' :
           \/ \E u \in toolRows : t.id = u.id /\ t.server = u.server /\ t.origin = u.origin
           \/ t.id[1] = toolIds + 1

LEMMA ClaimsStand ==
    ASSUME toolIds \in Nat, RowsKept
    PROVE  /\ \A x, s, p : Claimed(x, s, p, toolRows, toolIds) => Claimed(x, s, p, toolRows', toolIds')
           /\ \A x : Issued(x, toolIds) => Issued(x, toolIds')
           /\ \A x : TaskHolds(x, toolRows, toolIds) => TaskHolds(x, toolRows', toolIds')
  <1>1. \A x, s, p : Claimed(x, s, p, toolRows, toolIds) => Claimed(x, s, p, toolRows', toolIds')
    <2> SUFFICES ASSUME NEW x, NEW s, NEW p, Claimed(x, s, p, toolRows, toolIds)
                 PROVE  Claimed(x, s, p, toolRows', toolIds')
      OBVIOUS
    <2>1. x[1] \in 1 .. toolIds
      BY DEF Claimed, Issued
    <2>2. x[1] \in 1 .. toolIds' /\ x[1] # toolIds + 1
      BY <2>1 DEF RowsKept
    <2>3. \A t \in toolRows' : t.id = x /\ t.server = s => t.origin = p
      BY <2>2 DEF Claimed, RowsKept
    <2>4. QED
      BY <2>2, <2>3 DEF Claimed, Issued
  <1>2. \A b : BindingOk(b, toolRows, toolIds) => BindingOk(b, toolRows', toolIds')
    BY <1>1 DEF BindingOk
  <1>3. \A x : Issued(x, toolIds) => Issued(x, toolIds')
    BY DEF Issued, RowsKept
  <1>4. QED
    BY <1>1, <1>2, <1>3 DEF TaskHolds

LEMMA TaskChange ==
    ASSUME McpInv, RowsKept, NEW j \in Jobs, NEW y, mcpTask' = [mcpTask EXCEPT ![j] = y],
           TaskHolds(y, toolRows', toolIds'), bindings' = bindings
    PROVE  TasksInv'
  <1>1. mcpTask' = [i \in Jobs |-> IF i = j THEN y ELSE mcpTask[i]]
    BY DEF McpInv, TasksInv
  <1>2. \A i \in Jobs : TaskHolds(mcpTask'[i], toolRows', toolIds')
    BY <1>1, ClaimsStand DEF McpInv, TasksInv, ToolsInv
  <1>3. \A b \in bindings' : Issued(b.tool, toolIds')
    BY ClaimsStand DEF McpInv, TasksInv, ToolsInv
  <1>4. QED
    BY <1>1, <1>2, <1>3 DEF TasksInv

LEMMA TasksRest ==
    ASSUME McpInv, RowsKept, UNCHANGED <<mcpTask, bindings>>
    PROVE  TasksInv'
  BY ClaimsStand DEF McpInv, TasksInv, ToolsInv

LEMMA RowsRest ==
    ASSUME McpInv, UNCHANGED <<toolRows, toolIds>>
    PROVE  RowsKept /\ \A t \in toolRows' : Claimed(t.id, t.server, t.origin, toolRows', toolIds')
  BY DEF McpInv, ToolsInv, RowsKept

(* A changed server keeps its tools only under the profile they came from.  *)
LEMMA ServerStep ==
    ASSUME McpInv, NEW s \in McpIds, NEW y, server' = [server EXCEPT ![s] = y],
           toolRows' \subseteq toolRows, toolIds' = toolIds, consents \subseteq consents',
           \A t \in toolRows' : t.server = s =>
               y.state = "row" /\ y.profile = server[s].profile
    PROVE  ToolsInv' /\ RowsKept
  <1>1. server' = [z \in McpIds |-> IF z = s THEN y ELSE server[z]]
    BY DEF McpInv, ToolsInv
  <1>2. RowsKept
    BY DEF RowsKept
  <1>3. \A t \in toolRows' : StoredTool(t, server', consents')
    BY <1>1 DEF McpInv, ToolsInv, StoredTool
  <1>4. \A t \in toolRows' : Claimed(t.id, t.server, t.origin, toolRows', toolIds')
    BY DEF McpInv, ToolsInv, Claimed
  <1>5. QED
    BY <1>1, <1>2, <1>3, <1>4 DEF McpInv, ToolsInv

LEMMA CreateOrDelete ==
    ASSUME McpInv, NEW o, NEW s \in McpIds,
           \/ \E n, p, on : Mcp!CreateServer(o, s, n, p, on)
           \/ Mcp!DeleteServer(o, s)
    PROVE  McpInv'
  <1>1. PICK y : server' = [server EXCEPT ![s] = y]
    BY DEF Mcp!CreateServer, Mcp!DeleteServer
  <1>2. UNCHANGED <<toolIds, mcpTask, bindings, consents, mcpSent>> /\ toolRows' \subseteq toolRows
    BY DEF Mcp!CreateServer, Mcp!DeleteServer
  <1>3. \A t \in toolRows' : t.server # s
    <2>1. CASE \E n, p, on : Mcp!CreateServer(o, s, n, p, on)
      <3>1. server[s] = Mcp!NoServer /\ toolRows' = toolRows
        BY <2>1 DEF Mcp!CreateServer
      <3>2. server[s].state = "unborn"
        BY <3>1 DEF Mcp!NoServer
      <3>3. QED
        BY <3>1, <3>2 DEF McpInv, ToolsInv, StoredTool
    <2>2. CASE Mcp!DeleteServer(o, s)
      BY <2>2 DEF Mcp!DeleteServer, Mcp!ToolsOf
    <2>3. QED
      BY <2>1, <2>2
  <1>4. ToolsInv' /\ RowsKept
    BY <1>1, <1>2, <1>3, ServerStep
  <1>5. QED
    BY <1>2, <1>4, TasksRest DEF McpInv, Mcp!CallsHaveConsent

LEMMA UpdateStep ==
    ASSUME McpInv, NEW o, NEW s \in McpIds, NEW n, NEW p, NEW on, Mcp!UpdateServer(o, s, n, p, on)
    PROVE  McpInv'
  <1> DEFINE moved == p # server[s].profile \/ TransportOf[p] # server[s].transport
             reset == moved \/ on # server[s].enabled
             h == IF reset THEN Mcp!FirstHealth(on) ELSE server[s].health
             e == IF reset THEN "" ELSE server[s].error
             z == ~moved /\ server[s].seen
  <1>1. /\ server' = [server EXCEPT ![s] = Mcp!Row(server[s].owner, n, p, on, h, e, z)]
        /\ toolRows' = IF moved THEN toolRows \ Mcp!ToolsOf(s) ELSE toolRows
        /\ UNCHANGED <<toolIds, mcpTask, bindings, consents, mcpSent>>
    BY DEF Mcp!UpdateServer, Mcp!Update
  <1> HIDE DEF h, e, z, reset
  <1>2. /\ Mcp!Row(server[s].owner, n, p, on, h, e, z).state = "row"
        /\ Mcp!Row(server[s].owner, n, p, on, h, e, z).profile = p
    BY DEF Mcp!Row
  <1>3. PICK y : server' = [server EXCEPT ![s] = y] /\ y.state = "row" /\ y.profile = p
    BY <1>1, <1>2
  <1>4. toolRows' \subseteq toolRows /\ \A t \in toolRows' : t.server = s => p = server[s].profile
    BY <1>1 DEF Mcp!ToolsOf
  <1>5. toolIds' = toolIds /\ consents \subseteq consents'
    BY <1>1
  <1> HIDE DEF moved
  <1>6. \A t \in toolRows' : t.server = s => y.state = "row" /\ y.profile = server[s].profile
    BY <1>3, <1>4
  <1>7. ToolsInv' /\ RowsKept
    BY <1>3, <1>4, <1>5, <1>6, ServerStep
  <1>8. QED
    BY <1>1, <1>7, TasksRest DEF McpInv, Mcp!CallsHaveConsent

(* SetHealth() leaves the profile alone. *)
LEMMA HealthStep ==
    ASSUME McpInv, NEW s \in McpIds, NEW p, NEW h, NEW c, NEW z, Mcp!SetHealth(s, p, h, c, z),
           UNCHANGED <<toolRows, toolIds, consents>>
    PROVE  ToolsInv' /\ RowsKept
  <1>1. CASE server' = server
    BY <1>1, RowsRest DEF McpInv, ToolsInv
  <1>2. CASE server' # server
    <2>1. \E e, q : server' = [server EXCEPT ![s] =
                        Mcp!Row(server[s].owner, server[s].name, server[s].profile, e, h, c, q)]
          /\ server[s].state = "row"
      BY <1>2 DEF Mcp!SetHealth
    <2>2. PICK y : server' = [server EXCEPT ![s] = y] /\ y.state = "row"
                   /\ y.profile = server[s].profile
      BY <2>1 DEF Mcp!Row
    <2>3. QED
      BY <2>2, ServerStep
  <1>3. QED
    BY <1>1, <1>2

LEMMA ToolUpdated ==
    ASSUME NEW t, IsTool(t), NEW on
    PROVE  LET y == [t EXCEPT !.enabled = on]
           IN  /\ IsTool(y) /\ y.id = t.id /\ y.server = t.server /\ y.name = t.name
               /\ y.schema = t.schema /\ y.origin = t.origin /\ y.enabled = on
  <1>1. PICK i, s, n, c, f, e, o :
            t = [id |-> i, server |-> s, name |-> n, schema |-> c, flags |-> f, enabled |-> e,
                 origin |-> o]
    BY DEF IsTool
  <1> DEFINE y == [t EXCEPT !.enabled = on]
  <1>2. y = [id |-> i, server |-> s, name |-> n, schema |-> c, flags |-> f, enabled |-> on,
             origin |-> o]
    BY <1>1
  <1> HIDE DEF y
  <1>3. IsTool(y)
    BY <1>2 DEF IsTool
  <1>4. /\ y.id = t.id /\ y.server = t.server /\ y.name = t.name
        /\ y.schema = t.schema /\ y.origin = t.origin /\ y.enabled = on
    BY <1>1, <1>2
  <1>5. QED
    BY <1>3, <1>4 DEF y

(* Rows that are only enabled or disabled keep their claims. *)
LEMMA EnabledStep ==
    ASSUME McpInv, UNCHANGED <<server, toolIds>>, consents \subseteq consents',
           \A t \in toolRows' :
               \E u \in toolRows : \/ t = u
                                   \/ t = [u EXCEPT !.enabled = FALSE]
                                   \/ /\ t = [u EXCEPT !.enabled = TRUE]
                                      /\ <<u.server, u.origin, u.name, u.schema>> \in consents'
    PROVE  ToolsInv' /\ RowsKept
  <1>1. \A t \in toolRows' :
            /\ IsTool(t)
            /\ t.enabled => <<t.server, t.origin, t.name, t.schema>> \in consents'
            /\ \E u \in toolRows : t.id = u.id /\ t.server = u.server /\ t.origin = u.origin
    <2> SUFFICES ASSUME NEW t \in toolRows'
                 PROVE  /\ IsTool(t)
                        /\ t.enabled => <<t.server, t.origin, t.name, t.schema>> \in consents'
                        /\ \E u \in toolRows :
                               t.id = u.id /\ t.server = u.server /\ t.origin = u.origin
      OBVIOUS
    <2>1. PICK u \in toolRows : \/ t = u
                                \/ t = [u EXCEPT !.enabled = FALSE]
                                \/ /\ t = [u EXCEPT !.enabled = TRUE]
                                   /\ <<u.server, u.origin, u.name, u.schema>> \in consents'
      OBVIOUS
    <2>2. StoredTool(u, server, consents)
      BY DEF McpInv, ToolsInv
    <2>3. IsTool(u) /\ (u.enabled => <<u.server, u.origin, u.name, u.schema>> \in consents')
      BY <2>2 DEF StoredTool
    <2>4. CASE t = u
      BY <2>3, <2>4
    <2>5. CASE t = [u EXCEPT !.enabled = FALSE]
      BY <2>3, <2>5, ToolUpdated
    <2>6. CASE /\ t = [u EXCEPT !.enabled = TRUE]
               /\ <<u.server, u.origin, u.name, u.schema>> \in consents'
      BY <2>3, <2>6, ToolUpdated
    <2>7. QED
      BY <2>1, <2>4, <2>5, <2>6
  <1>2. RowsKept
    BY <1>1 DEF RowsKept
  <1>3. ASSUME NEW t \in toolRows' PROVE StoredTool(t, server', consents')
    <2>1. PICK u \in toolRows : t.id = u.id /\ t.server = u.server /\ t.origin = u.origin
      BY <1>1
    <2>2. StoredTool(u, server, consents)
      BY DEF McpInv, ToolsInv
    <2>3. QED
      BY <1>1, <2>1, <2>2 DEF StoredTool
  <1>4. \A t \in toolRows' : Claimed(t.id, t.server, t.origin, toolRows', toolIds')
    <2>1. toolIds \in Nat
      BY DEF McpInv, ToolsInv
    <2>2. \A u \in toolRows : Claimed(u.id, u.server, u.origin, toolRows', toolIds')
      BY <1>2, <2>1, ClaimsStand DEF McpInv, ToolsInv
    <2>3. QED
      BY <1>1, <2>2
  <1>5. QED
    BY <1>2, <1>3, <1>4 DEF McpInv, ToolsInv

LEMMA SetToolEnabledStep ==
    ASSUME McpInv, NEW o, NEW s \in McpIds, NEW n, NEW on \in BOOLEAN,
           Mcp!SetToolEnabled(o, s, n, on)
    PROVE  McpInv'
  <1> DEFINE named == {t \in Mcp!ToolsOf(s) : t.name = n}
  <1>1. /\ toolRows' = (toolRows \ named) \cup {[t EXCEPT !.enabled = on] : t \in named}
        /\ consents' = consents \cup
               (IF on THEN {<<s, server[s].profile, t.name, t.schema>> : t \in named} ELSE {})
        /\ UNCHANGED <<server, toolIds, mcpTask, bindings, mcpSent>>
    BY DEF Mcp!SetToolEnabled
  <1>2. \A t \in named : t \in toolRows /\ t.server = s /\ t.origin = server[s].profile
    BY DEF Mcp!ToolsOf, McpInv, ToolsInv, StoredTool
  <1> HIDE DEF named
  <1>3. \A t \in named : on => <<t.server, t.origin, t.name, t.schema>> \in consents'
    BY <1>1, <1>2
  <1>4. \A t \in toolRows' :
               \E u \in toolRows : \/ t = u
                                   \/ t = [u EXCEPT !.enabled = FALSE]
                                   \/ /\ t = [u EXCEPT !.enabled = TRUE]
                                      /\ <<u.server, u.origin, u.name, u.schema>> \in consents'
    <2> SUFFICES ASSUME NEW t \in toolRows', t \notin toolRows
                 PROVE  \E u \in toolRows :
                            \/ t = [u EXCEPT !.enabled = FALSE]
                            \/ /\ t = [u EXCEPT !.enabled = TRUE]
                               /\ <<u.server, u.origin, u.name, u.schema>> \in consents'
      OBVIOUS
    <2>1. PICK u \in named : t = [u EXCEPT !.enabled = on]
      BY <1>1
    <2>2. QED
      BY <1>2, <1>3, <2>1
  <1>5. consents \subseteq consents'
    BY <1>1
  <1>6. ToolsInv' /\ RowsKept
    BY <1>1, <1>4, <1>5, EnabledStep
  <1>7. TasksInv'
    BY <1>1, <1>6, TasksRest
  <1>8. QED
    BY <1>1, <1>5, <1>6, <1>7 DEF McpInv, Mcp!CallsHaveConsent

LEMMA DiscoverServer ==
    ASSUME McpInv, NEW j \in Jobs, NEW o, NEW s \in McpIds, Mcp!Discover(j, o, s)
    PROVE  McpInv'
  <1>1. UNCHANGED <<toolRows, toolIds, bindings, consents, mcpSent>>
    BY DEF Mcp!Discover
  <1>2. CASE ~server[s].enabled
    <2>1. Mcp!SetHealth(s, server[s].profile, "disabled", "", FALSE) /\ mcpTask' = mcpTask
      BY <1>2 DEF Mcp!Discover
    <2>2. QED
      BY <1>1, <2>1, HealthStep, TasksRest DEF McpInv, Mcp!CallsHaveConsent
  <1>3. CASE server[s].enabled
    <2> DEFINE y == [kind |-> "listing", server |-> s, profile |-> server[s].profile]
    <2>1. mcpTask' = [mcpTask EXCEPT ![j] = y] /\ server' = server
      BY <1>3 DEF Mcp!Discover
    <2>2. TaskHolds(y, toolRows', toolIds')
      BY DEF TaskHolds
    <2> HIDE DEF y
    <2>3. RowsKept /\ ToolsInv'
      BY <1>1, <2>1, RowsRest DEF McpInv, ToolsInv
    <2>4. QED
      BY <1>1, <2>1, <2>2, <2>3, TaskChange DEF McpInv, Mcp!CallsHaveConsent
  <1>4. QED
    BY <1>2, <1>3

(* A task that has nothing left to do. *)
LEMMA NoTaskHolds == ASSUME NEW rows, NEW ids PROVE TaskHolds(Mcp!NoTask, rows, ids)
  BY DEF TaskHolds, Mcp!NoTask

LEMMA DiscoveryEnds ==
    ASSUME McpInv, NEW j \in Jobs, Mcp!MarkHealthy(j) \/ Mcp!DiscoveryFails(j)
    PROVE  McpInv'
  <1>1. /\ mcpTask[j].kind \in {"listing", "listed"}
        /\ \E h, c, z : Mcp!SetHealth(mcpTask[j].server, mcpTask[j].profile, h, c, z)
        /\ mcpTask' = [mcpTask EXCEPT ![j] = Mcp!NoTask]
        /\ UNCHANGED <<toolRows, toolIds, bindings, consents, mcpSent>>
    BY DEF Mcp!MarkHealthy, Mcp!DiscoveryFails
  <1>2. mcpTask[j].server \in McpIds
    BY <1>1 DEF McpInv, TasksInv, TaskHolds
  <1>3. ToolsInv' /\ RowsKept
    BY <1>1, <1>2, HealthStep
  <1>4. TasksInv'
    BY <1>1, <1>3, NoTaskHolds, TaskChange
  <1>5. QED
    BY <1>1, <1>3, <1>4 DEF McpInv, Mcp!CallsHaveConsent

(* An inventory that is replaced gets new ids; a tool stays enabled only    *)
(* with the schema the owner agreed to.                                     *)
LEMMA ListedStep ==
    ASSUME McpInv, NEW j \in Jobs, NEW ds, Mcp!Listed(j, ds)
    PROVE  McpInv'
  <1> DEFINE s == mcpTask[j].server
             p == mcpTask[j].profile
  <1>1. /\ mcpTask[j].kind = "listing" /\ Mcp!ReplaceInventory(s, p, ds)
        /\ mcpTask' = [mcpTask EXCEPT ![j].kind = "listed"]
        /\ UNCHANGED <<server, bindings, consents, mcpSent>>
    BY DEF Mcp!Listed
  <1>2. PICK s0 \in McpIds : \E p0 : mcpTask[j] = [kind |-> "listing", server |-> s0, profile |-> p0]
    BY <1>1 DEF McpInv, TasksInv, TaskHolds
  <1>3. PICK p0 : mcpTask[j] = [kind |-> "listing", server |-> s0, profile |-> p0]
    BY <1>2
  <1>4. s = s0 /\ p = p0
    BY <1>3
  <1> DEFINE y == [kind |-> "listed", server |-> s0, profile |-> p0]
  <1>5. mcpTask' = [mcpTask EXCEPT ![j] = y]
    <2>1. [mcpTask[j] EXCEPT !.kind = "listed"] = y
      BY <1>3
    <2>2. mcpTask' = [mcpTask EXCEPT ![j] = [mcpTask[j] EXCEPT !.kind = "listed"]]
      BY <1>1
    <2>3. QED
      BY <2>1, <2>2
  <1>6. TaskHolds(y, toolRows', toolIds')
    BY DEF TaskHolds
  <1> HIDE DEF y, s, p
  <1> DEFINE Tool(d) == [id |-> <<toolIds + 1, d.name>>, server |-> s0, name |-> d.name,
                         schema |-> d.schema, flags |-> d.flags,
                         enabled |-> Mcp!StaysEnabled(s0, d), origin |-> p0]
  <1>7. /\ server[s0].state = "row" /\ server[s0].profile = p0 /\ toolIds' = toolIds + 1
        /\ toolRows' = (toolRows \ Mcp!ToolsOf(s0)) \cup {Tool(d) : d \in ds}
    BY <1>1, <1>4 DEF Mcp!ReplaceInventory
  <1>8. ASSUME NEW d \in ds
        PROVE  /\ IsTool(Tool(d)) /\ Tool(d).server = s0 /\ Tool(d).origin = p0
               /\ Tool(d).id[1] = toolIds + 1
               /\ Tool(d).enabled => <<s0, p0, Tool(d).name, Tool(d).schema>> \in consents
    <2>1. IsTool(Tool(d))
      BY DEF IsTool
    <2>2. /\ Tool(d).server = s0 /\ Tool(d).origin = p0 /\ Tool(d).id = <<toolIds + 1, d.name>>
          /\ Tool(d).name = d.name /\ Tool(d).schema = d.schema
          /\ Tool(d).enabled <=> Mcp!StaysEnabled(s0, d)
      OBVIOUS
    <2> HIDE DEF Tool
    <2>3. Tool(d).id[1] = toolIds + 1
      BY <2>2
    <2>4. Mcp!StaysEnabled(s0, d) => <<s0, p0, d.name, d.schema>> \in consents
      BY <1>7 DEF Mcp!StaysEnabled, Mcp!ToolsOf, McpInv, ToolsInv, StoredTool
    <2>5. QED
      BY <2>1, <2>2, <2>3, <2>4
  <1> HIDE DEF Tool
  <1>9. \A t \in toolRows' :
            \/ t \in toolRows /\ t.server # s0
            \/ \E d \in ds : t = Tool(d)
    BY <1>7 DEF Mcp!ToolsOf
  <1>10. RowsKept
    BY <1>7, <1>8, <1>9 DEF RowsKept
  <1>11. ASSUME NEW t \in toolRows' PROVE StoredTool(t, server', consents')
    <2>1. server' = server /\ consents' = consents
      BY <1>1
    <2>2. CASE t \in toolRows
      BY <2>1, <2>2 DEF McpInv, ToolsInv
    <2>3. ASSUME NEW d \in ds, t = Tool(d) PROVE StoredTool(t, server', consents')
      <3>1. IsTool(t) /\ t.server = s0 /\ t.origin = p0
        BY <1>8, <2>3
      <3>2. t.enabled => <<t.server, t.origin, t.name, t.schema>> \in consents
        BY <1>8, <2>3
      <3>3. QED
        BY <1>7, <2>1, <3>1, <3>2 DEF StoredTool
    <2>4. QED
      BY <1>9, <2>2, <2>3
  <1>12. \A t \in toolRows' : Claimed(t.id, t.server, t.origin, toolRows', toolIds')
    <2>1. toolIds \in Nat
      BY DEF McpInv, ToolsInv
    <2>2. \A t \in toolRows : Claimed(t.id, t.server, t.origin, toolRows', toolIds')
      BY <1>10, <2>1, ClaimsStand DEF McpInv, ToolsInv
    <2>3. \A d \in ds : Claimed(Tool(d).id, Tool(d).server, Tool(d).origin, toolRows', toolIds')
      <3> SUFFICES ASSUME NEW d \in ds
                   PROVE  Claimed(Tool(d).id, Tool(d).server, Tool(d).origin, toolRows', toolIds')
        OBVIOUS
      <3>1. Tool(d).id[1] = toolIds + 1 /\ Tool(d).server = s0 /\ Tool(d).origin = p0
        BY <1>8
      <3>2. Tool(d).id[1] \in 1 .. toolIds'
        BY <1>7, <2>1, <3>1
      <3>3. \A t \in toolRows' : t.id = Tool(d).id => t.origin = p0
        <4> SUFFICES ASSUME NEW t \in toolRows', t.id = Tool(d).id, t \in toolRows
                     PROVE  FALSE
          BY <1>8, <1>9
        <4>1. t.id[1] \in 1 .. toolIds
          BY DEF McpInv, ToolsInv, Claimed, Issued
        <4>2. QED
          BY <2>1, <3>1, <4>1
      <3>4. QED
        BY <3>1, <3>2, <3>3 DEF Claimed, Issued
    <2>4. QED
      BY <1>9, <2>2, <2>3
  <1>13. ToolsInv'
    <2>1. toolIds' \in Nat
      BY <1>7 DEF McpInv, ToolsInv
    <2>2. server' = [z \in McpIds |-> server'[z]]
      BY <1>1 DEF McpInv, ToolsInv
    <2>3. QED
      BY <2>1, <2>2, <1>11, <1>12 DEF ToolsInv
  <1>14. TasksInv'
    <2>1. bindings' = bindings
      BY <1>1
    <2>2. QED
      BY <1>5, <1>6, <1>10, <2>1, TaskChange
  <1>15. QED
    BY <1>1, <1>13, <1>14 DEF McpInv, Mcp!CallsHaveConsent

LEMMA SelectStep ==
    ASSUME McpInv, NEW j \in Jobs,
           (\E o, s : Mcp!SelectServer(j, o, s)) \/ \E d : Mcp!SelectTool(j, d)
    PROVE  McpInv'
  <1>1. UNCHANGED <<server, toolRows, toolIds, bindings, consents, mcpSent>>
    BY DEF Mcp!SelectServer, Mcp!SelectTool
  <1>2. PICK y : /\ mcpTask' = [mcpTask EXCEPT ![j] = y]
                 /\ y.kind \notin {"listing", "listed", "calling"}
    BY DEF Mcp!SelectServer, Mcp!SelectTool, Mcp!NoTask
  <1>3. TaskHolds(y, toolRows', toolIds')
    BY <1>2 DEF TaskHolds
  <1>4. RowsKept /\ ToolsInv'
    BY <1>1, RowsRest DEF McpInv, ToolsInv
  <1>5. TasksInv'
    BY <1>1, <1>2, <1>3, <1>4, TaskChange
  <1>6. QED
    BY <1>1, <1>4, <1>5 DEF McpInv, Mcp!CallsHaveConsent

(* The binding that is handed out names the profile of the first read and   *)
(* the id of the last: they need not belong together, but the id exists.    *)
LEMMA MaterialiseStep ==
    ASSUME McpInv, NEW j \in Jobs, Mcp!Materialise(j)
    PROVE  McpInv'
  <1> DEFINE old == mcpTask[j].tool
             good == {t \in toolRows : /\ t.server = old.server /\ t.id = old.id /\ t.enabled
                                       /\ t.schema = old.schema /\ t.schema \in Enforceable}
             Bound(t) == [server |-> t.server, serverName |-> mcpTask[j].row.name,
                          profile |-> mcpTask[j].row.profile, tool |-> t.id, name |-> t.name,
                          schema |-> old.schema, flags |-> t.flags]
  <1>1. /\ mcpTask[j].kind = "selected"
        /\ bindings' = bindings \cup {Bound(t) : t \in good}
        /\ toolRows' = IF good = {} THEN Mcp!DisableTool(old.server, old.id) ELSE toolRows
        /\ mcpTask' = [mcpTask EXCEPT ![j] = Mcp!NoTask]
        /\ UNCHANGED <<server, toolIds, consents, mcpSent>>
    BY DEF Mcp!Materialise
  <1>3. ASSUME NEW t \in good
        PROVE  Issued(Bound(t).tool, toolIds)
    BY DEF McpInv, ToolsInv, Claimed
  <1> HIDE DEF Bound, good
  <1>4. \A t \in toolRows' :
               \E u \in toolRows : \/ t = u
                                   \/ t = [u EXCEPT !.enabled = FALSE]
                                   \/ /\ t = [u EXCEPT !.enabled = TRUE]
                                      /\ <<u.server, u.origin, u.name, u.schema>> \in consents'
    <2> SUFFICES ASSUME NEW t \in toolRows'
                 PROVE  \E u \in toolRows : t = u \/ t = [u EXCEPT !.enabled = FALSE]
      OBVIOUS
    <2>1. CASE good # {}
      BY <1>1, <2>1
    <2>2. CASE good = {}
      BY <1>1, <2>2 DEF Mcp!DisableTool
    <2>3. QED
      BY <2>1, <2>2
  <1>5. ToolsInv' /\ RowsKept
    BY <1>1, <1>4, EnabledStep
  <1>6. toolIds \in Nat
    BY DEF McpInv, ToolsInv
  <1>7. \A b \in bindings' : Issued(b.tool, toolIds')
    <2>1. \A b \in bindings' : Issued(b.tool, toolIds)
      BY <1>1, <1>3 DEF McpInv, TasksInv
    <2>2. QED
      BY <1>5, <1>6, <2>1, ClaimsStand
  <1>8. /\ mcpTask' = [i \in Jobs |-> mcpTask'[i]]
        /\ \A i \in Jobs : TaskHolds(mcpTask'[i], toolRows', toolIds')
    <2>1. mcpTask' = [i \in Jobs |-> IF i = j THEN Mcp!NoTask ELSE mcpTask[i]]
      BY <1>1 DEF McpInv, TasksInv
    <2>2. \A i \in Jobs : TaskHolds(mcpTask[i], toolRows', toolIds')
      BY <1>5, <1>6, ClaimsStand DEF McpInv, TasksInv
    <2>3. QED
      BY <2>1, <2>2, NoTaskHolds
  <1>9. TasksInv'
    BY <1>7, <1>8 DEF TasksInv
  <1>10. QED
    BY <1>1, <1>5, <1>9 DEF McpInv, Mcp!CallsHaveConsent

(* The server has the profile of the binding, and so have its tools.        *)
LEMMA CallReadsServerStep ==
    ASSUME McpInv, NEW j \in Jobs, NEW b \in bindings, Mcp!CallReadsServer(j, b)
    PROVE  McpInv'
  <1> DEFINE y == [kind |-> "calling", binding |-> b]
  <1>1. /\ mcpTask' = [mcpTask EXCEPT ![j] = y]
        /\ UNCHANGED <<server, toolRows, toolIds, bindings, consents, mcpSent>>
    BY DEF Mcp!CallReadsServer
  <1>2. TaskHolds(y, toolRows', toolIds')
    <2>1. server[b.server].profile = b.profile
      BY DEF Mcp!CallReadsServer
    <2>2. \A t \in toolRows : t.server = b.server => t.origin = b.profile
      BY <2>1 DEF McpInv, ToolsInv, StoredTool
    <2>3. BindingOk(b, toolRows, toolIds)
      BY <2>2 DEF BindingOk, Claimed, McpInv, TasksInv
    <2>4. QED
      BY <1>1, <2>3 DEF TaskHolds
  <1> HIDE DEF y
  <1>3. RowsKept /\ ToolsInv'
    BY <1>1, RowsRest DEF McpInv, ToolsInv
  <1>4. TasksInv'
    BY <1>1, <1>2, <1>3, TaskChange
  <1>5. QED
    BY <1>1, <1>3, <1>4 DEF McpInv, Mcp!CallsHaveConsent

(* The call is sent for a row that is enabled now: its owner agreed to it   *)
(* under the profile that the binding names.                                *)
LEMMA CallReadsToolStep ==
    ASSUME McpInv, NEW j \in Jobs, Mcp!CallReadsTool(j)
    PROVE  McpInv'
  <1> DEFINE b == mcpTask[j].binding
  <1>1. /\ mcpTask[j].kind = "calling" /\ mcpTask' = [mcpTask EXCEPT ![j] = Mcp!NoTask]
        /\ mcpSent' = IF \E t \in toolRows : Mcp!BindingHolds(b, t) /\ t.schema \in Enforceable
                      THEN mcpSent \cup {b} ELSE mcpSent
        /\ UNCHANGED <<server, toolRows, toolIds, bindings, consents>>
    BY DEF Mcp!CallReadsTool
  <1>2. BindingOk(b, toolRows, toolIds)
    BY <1>1 DEF McpInv, TasksInv, TaskHolds
  <1> HIDE DEF b
  <1>3. RowsKept /\ ToolsInv'
    BY <1>1, RowsRest DEF McpInv, ToolsInv
  <1>4. bindings' = bindings
    BY <1>1
  <1>5. TasksInv'
    BY <1>1, <1>3, <1>4, NoTaskHolds, TaskChange
  <1>6. ASSUME NEW t \in toolRows, Mcp!BindingHolds(b, t)
        PROVE  <<b.server, b.profile, b.name, b.schema>> \in consents
    <2>1. t.server = b.server /\ t.name = b.name /\ t.schema = b.schema /\ t.origin = b.profile
      BY <1>2, <1>6 DEF Mcp!BindingHolds, BindingOk, Claimed
    <2>2. <<t.server, t.origin, t.name, t.schema>> \in consents
      BY <1>6 DEF Mcp!BindingHolds, McpInv, ToolsInv, StoredTool
    <2>3. QED
      BY <2>1, <2>2
  <1>7. Mcp!CallsHaveConsent'
    <2>1. CASE \E t \in toolRows : Mcp!BindingHolds(b, t)
      BY <1>1, <1>6, <2>1 DEF McpInv, Mcp!CallsHaveConsent
    <2>2. CASE ~ \E t \in toolRows : Mcp!BindingHolds(b, t)
      BY <1>1, <2>2 DEF McpInv, Mcp!CallsHaveConsent
    <2>3. QED
      BY <2>1, <2>2
  <1>8. QED
    BY <1>3, <1>5, <1>7 DEF McpInv

LEMMA McpNextStep == ASSUME McpInv, Mcp!McpNext PROVE McpInv'
  <1>1. CASE \E o \in McpOwners, s \in McpIds :
                \/ \E n \in ServerNames, p \in Profiles, on \in BOOLEAN :
                       Mcp!CreateServer(o, s, n, p, on) \/ Mcp!UpdateServer(o, s, n, p, on)
                \/ Mcp!DeleteServer(o, s)
    BY <1>1, CreateOrDelete, UpdateStep
  <1>2. CASE \E o \in McpOwners, s \in McpIds, n \in RemoteNames, on \in BOOLEAN :
                Mcp!SetToolEnabled(o, s, n, on)
    BY <1>2, SetToolEnabledStep
  <1>3. CASE \E o \in McpOwners, s \in McpIds, j \in Jobs :
                Mcp!Discover(j, o, s) \/ Mcp!SelectServer(j, o, s)
    BY <1>3, DiscoverServer, SelectStep
  <1>4. CASE \E j \in Jobs : \/ \E ds \in Listings : Mcp!Listed(j, ds)
                             \/ Mcp!MarkHealthy(j) \/ Mcp!DiscoveryFails(j)
    BY <1>4, ListedStep, DiscoveryEnds
  <1>5. CASE \E j \in Jobs : Mcp!Materialise(j) \/ Mcp!CallReadsTool(j)
    BY <1>5, MaterialiseStep, CallReadsToolStep
  <1>6. CASE \E j \in Jobs : \/ \E d \in {{}, {"write"}} : Mcp!SelectTool(j, d)
                             \/ \E b \in bindings : Mcp!CallReadsServer(j, b)
    BY <1>6, SelectStep, CallReadsServerStep
  <1> HIDE DEF McpInv
  <1>7. QED
    BY <1>1, <1>2, <1>3, <1>4, <1>5, <1>6 DEF Mcp!McpNext

LEMMA McpPromise ==
    ASSUME McpInv
    PROVE  Mcp!CallsHaveConsent /\ Mcp!InventoryIsOfTheProfile
  BY DEF McpInv, ToolsInv, StoredTool, Mcp!InventoryIsOfTheProfile

-----------------------------------------------------------------------------
(* Accounts and tokens. *)

(* An account is its name and whether that is an administrator's; the       *)
(* caller is an account whose key or token is there.                        *)
AccessInv ==
    /\ accounts = [a \in AccessAttempts |-> accounts[a]]
    /\ apiKeys \subseteq AccessAttempts
    /\ \A t \in tokens : t.user \in AccessAttempts
    /\ \A a \in AccessAttempts :
           \/ accounts[a] = Access!NoAccount
           \/ accounts[a].name # "none" /\ accounts[a].admin = (accounts[a].name \in AdminNames)
    /\ caller # Access!Nobody => caller.user \in AccessAttempts
    /\ Access!CallersAreWhoTheySay

LEMMA AccessStart == ASSUME Access!AccessInit PROVE AccessInv
  BY DEF Access!AccessInit, AccessInv, Access!CallersAreWhoTheySay

LEMMA AccessRests ==
    ASSUME AccessInv, UNCHANGED <<accounts, apiKeys, tokens, caller>>
    PROVE  AccessInv'
  BY DEF AccessInv, Access!CallersAreWhoTheySay

LEMMA AccessPartRests == ASSUME AccessInv, UNCHANGED accessPart PROVE AccessInv'
  BY AccessRests DEF accessPart

(* Registration writes where there was no account. *)
LEMMA RegisterStep ==
    ASSUME AccessInv, NEW a \in AccessAttempts, NEW name, Access!RegisterUser(a, name)
    PROVE  AccessInv'
  <1> DEFINE row == [name |-> name, admin |-> name \in AdminNames]
  <1>1. /\ accounts[a] = Access!NoAccount /\ \A b \in AccessAttempts : accounts[b].name # name
        /\ accounts' = [accounts EXCEPT ![a] = row]
        /\ tokens' = tokens \cup {Access!CreateJwt(a)} /\ UNCHANGED <<apiKeys, caller>>
    BY DEF Access!RegisterUser, Access!NameIsFree
  <1>2. Access!CreateJwt(a).user = a
    BY DEF Access!CreateJwt
  <1>3. accounts[a].name = "none"
    BY <1>1 DEF Access!NoAccount
  <1>4. name # "none"
    BY <1>1, <1>3
  <1>5. row.name = name /\ row.admin = (name \in AdminNames) /\ row # Access!NoAccount
    BY <1>4 DEF Access!NoAccount
  <1> HIDE DEF row
  <1>6. accounts' = [b \in AccessAttempts |-> IF b = a THEN row ELSE accounts[b]]
    BY <1>1 DEF AccessInv
  <1>7. \A b, c \in AccessAttempts :
            b # c /\ accounts'[b].name = accounts'[c].name => accounts'[b] = Access!NoAccount
    BY <1>1, <1>5, <1>6 DEF AccessInv, Access!CallersAreWhoTheySay
  <1>8. caller # Access!Nobody =>
            /\ caller.user \in AccessAttempts /\ accounts'[caller.user] = accounts[caller.user]
    BY <1>1, <1>6 DEF AccessInv, Access!CallersAreWhoTheySay
  <1>9. Access!CallersAreWhoTheySay'
    BY <1>1, <1>7, <1>8 DEF AccessInv, Access!CallersAreWhoTheySay
  <1>10. \A b \in AccessAttempts :
            \/ accounts'[b] = Access!NoAccount
            \/ accounts'[b].name # "none" /\ accounts'[b].admin = (accounts'[b].name \in AdminNames)
    BY <1>4, <1>5, <1>6 DEF AccessInv
  <1>11. \A t \in tokens' : t.user \in AccessAttempts
    BY <1>1, <1>2 DEF AccessInv
  <1>12. QED
    BY <1>1, <1>6, <1>8, <1>9, <1>10, <1>11 DEF AccessInv

LEMMA TokensGrow ==
    ASSUME AccessInv, NEW t, t.user \in AccessAttempts, tokens' = tokens \cup {t},
           UNCHANGED <<accounts, apiKeys, caller>>
    PROVE  AccessInv'
  BY DEF AccessInv, Access!CallersAreWhoTheySay

(* A request is an account's by its key, or by a token that is good now. *)
LEMMA AuthenticateStep ==
    ASSUME AccessInv, NEW key, NEW t \in tokens, Access!Authenticate(key, t)
    PROVE  AccessInv'
  <1>1. UNCHANGED <<accounts, apiKeys, tokens>>
    BY DEF Access!Authenticate
  <1>2. CASE key \in apiKeys /\ accounts[key] # Access!NoAccount
    <2>1. /\ caller'.user = key /\ caller'.admin = accounts[key].admin /\ caller'.by = "api_key"
      BY <1>2 DEF Access!Authenticate, Access!IdentityOf
    <2>2. QED
      BY <1>1, <1>2, <2>1 DEF AccessInv, Access!CallersAreWhoTheySay
  <1>3. CASE caller' = Access!IdentityOf(t.user, "jwt", accessClock) /\ Access!VerifyJwt(t)
             /\ accounts[t.user] # Access!NoAccount
    <2>1. /\ caller'.user = t.user /\ caller'.admin = accounts[t.user].admin
          /\ caller'.by = "jwt" /\ caller'.exp = accessClock
      BY <1>3 DEF Access!IdentityOf
    <2>2. t.secret = OurSecret /\ t.exp > caller'.exp
      BY <1>3, <2>1 DEF Access!VerifyJwt
    <2>3. QED
      BY <1>1, <1>3, <2>1, <2>2 DEF AccessInv, Access!CallersAreWhoTheySay
  <1>4. CASE caller' = Access!Nobody
    BY <1>1, <1>4 DEF AccessInv, Access!CallersAreWhoTheySay
  <1>5. QED
    BY <1>2, <1>3, <1>4 DEF Access!Authenticate

LEMMA AccountsNextStep == ASSUME AccessInv, Access!AccountsNext PROVE AccessInv'
  <1>1. ASSUME Access!AccessTick PROVE AccessInv'
    BY <1>1, AccessRests DEF Access!AccessTick
  <1>2. ASSUME NEW a \in AccessAttempts, Access!Login(a) \/ Access!ForeignToken(a)
        PROVE  AccessInv'
    <2>1. PICK t : t.user = a /\ tokens' = tokens \cup {t}
      BY <1>2 DEF Access!Login, Access!ForeignToken, Access!CreateJwt
    <2>2. UNCHANGED <<accounts, apiKeys, caller>>
      BY <1>2 DEF Access!Login, Access!ForeignToken
    <2>3. QED
      BY <2>1, <2>2, TokensGrow
  <1>3. ASSUME NEW a \in AccessAttempts, Access!RegisterApiKey(a)
        PROVE  AccessInv'
    BY <1>3 DEF Access!RegisterApiKey, AccessInv, Access!CallersAreWhoTheySay
  <1>4. QED
    BY <1>1, <1>2, <1>3, RegisterStep, AuthenticateStep DEF Access!AccountsNext

(* The limiters touch no account. *)
LEMMA LimiterNextStep ==
    ASSUME AccessInv, Access!LocalNext \/ Access!SharedNext
    PROVE  AccessInv'
  <1>1. UNCHANGED <<accounts, apiKeys, tokens, caller>>
    <2>1. ASSUME NEW p \in Processes,
                 \/ Access!BeginCheck(p) \/ Access!CheckRedis(p)
                 \/ Access!WatchBucket(p) \/ Access!ExecuteCheck(p)
          PROVE  UNCHANGED <<accounts, apiKeys, tokens, caller>>
      BY <2>1 DEF Access!BeginCheck, Access!CheckRedis, Access!WatchBucket, Access!ExecuteCheck,
                  Access!SetCheck
    <2>2. ASSUME Access!AccessTick \/ Access!EnforceUser \/ Access!EnforceAddress
          PROVE  UNCHANGED <<accounts, apiKeys, tokens, caller>>
      BY <2>2 DEF Access!AccessTick, Access!EnforceUser, Access!EnforceAddress, Access!CheckLocal
    <2>3. QED
      BY <2>1, <2>2 DEF Access!LocalNext, Access!SharedNext
  <1>2. QED
    BY <1>1, AccessRests

-----------------------------------------------------------------------------
(* Exports. *)

(* A locked redemption is that of the grant's recipient, and the grant      *)
(* stays as it was locked.                                                  *)
ExportInv ==
    /\ xNow \in Nat /\ xNow >= 1
    /\ grants = [g \in Grants |-> grants[g]]
    /\ \/ redeem = Reader!IdleRedeem
       \/ redeem \in [pc : {"lock", "locked"}, grant : Grants, who : Recipients, purpose : Purposes,
                      at : Nat \ {0}]
    /\ redeem.pc = "locked" =>
           /\ grants[redeem.grant] # Reader!NoGrant
           /\ grants[redeem.grant].to = redeem.who /\ grants[redeem.grant].purpose = redeem.purpose
    /\ Reader!ReadWhileGranted

LEMMA ExportStart == ASSUME Reader!ExportInit PROVE ExportInv
  BY DEF Reader!ExportInit, ExportInv, Reader!ReadWhileGranted, Reader!IdleRedeem

LEMMA ExportKept ==
    ASSUME ExportInv, UNCHANGED <<grants, redeem, bundlesRead, xNow>>
    PROVE  ExportInv'
  BY DEF ExportInv, Reader!ReadWhileGranted

LEMMA ExportRests == ASSUME ExportInv, UNCHANGED exportsPart PROVE ExportInv'
  BY ExportKept DEF exportsPart

LEMMA ExportNextStep == ASSUME ExportInv, Reader!ExportNext PROVE ExportInv'
  <1>1. ASSUME NEW stops, Reader!AppendEvent(stops)
        PROVE  ExportInv'
    BY <1>1, ExportKept DEF Reader!AppendEvent
  <1>2. ASSUME NEW e \in Exporters,
               \/ Reader!ReadRun(e) \/ Reader!ReadPage(e) \/ Reader!ProbeTruncated(e)
               \/ Reader!StoreExport(e) \/ Reader!DamageExport(e)
        PROVE  ExportInv'
    <2>1. UNCHANGED <<grants, redeem, bundlesRead, xNow>>
      BY <1>2 DEF Reader!ReadRun, Reader!ReadPage, Reader!ProbeTruncated, Reader!StoreExport,
                  Reader!DamageExport, Reader!SetExporter
    <2>2. QED
      BY <2>1, ExportKept
  <1>3. ASSUME Reader!DeleteRun
        PROVE  ExportInv'
    BY <1>3 DEF Reader!DeleteRun, ExportInv, Reader!ReadWhileGranted
  <1>4. ASSUME NEW e \in Exporters, NEW g \in Grants, NEW r \in Recipients, NEW p \in Purposes,
               Reader!CreateGrant(e, g, r, p)
        PROVE  ExportInv'
    <2>1. PICK y : grants' = [grants EXCEPT ![g] = y]
      BY <1>4 DEF Reader!CreateGrant
    <2>2. grants[g] = Reader!NoGrant /\ UNCHANGED <<redeem, bundlesRead, xNow>>
      BY <1>4 DEF Reader!CreateGrant
    <2>3. grants' = [z \in Grants |-> IF z = g THEN y ELSE grants[z]]
      BY <2>1 DEF ExportInv
    <2>4. redeem.pc = "locked" => grants'[redeem.grant] = grants[redeem.grant]
      BY <2>2, <2>3 DEF ExportInv, Reader!IdleRedeem
    <2>5. QED
      BY <2>2, <2>3, <2>4 DEF ExportInv, Reader!ReadWhileGranted
  <1>5. ASSUME NEW g \in Grants, Reader!Revoke(g)
        PROVE  ExportInv'
    <2>1. PICK y : grants' = [grants EXCEPT ![g] = y]
      BY <1>5 DEF Reader!Revoke
    <2>2. UNCHANGED <<redeem, bundlesRead, xNow>> /\ ~(redeem.pc = "locked" /\ redeem.grant = g)
      BY <1>5 DEF Reader!Revoke, Reader!Unlocked
    <2>3. grants' = [z \in Grants |-> IF z = g THEN y ELSE grants[z]]
      BY <2>1 DEF ExportInv
    <2>4. redeem.pc = "locked" => grants'[redeem.grant] = grants[redeem.grant]
      BY <2>2, <2>3 DEF ExportInv, Reader!IdleRedeem
    <2>5. QED
      BY <2>2, <2>3, <2>4 DEF ExportInv, Reader!ReadWhileGranted
  <1>6. ASSUME NEW g \in Grants, NEW r \in Recipients, NEW p \in Purposes, Reader!Redeem(g, r, p)
        PROVE  ExportInv'
    <2>1. /\ redeem' = [pc |-> "lock", grant |-> g, who |-> r, purpose |-> p, at |-> xNow]
          /\ UNCHANGED <<grants, bundlesRead, xNow>>
      BY <1>6 DEF Reader!Redeem
    <2>2. redeem'.pc = "lock"
      BY <2>1
    <2>3. redeem' \in [pc : {"lock", "locked"}, grant : Grants, who : Recipients,
                       purpose : Purposes, at : Nat \ {0}]
      BY <2>1 DEF ExportInv
    <2>4. QED
      BY <2>1, <2>2, <2>3 DEF ExportInv, Reader!ReadWhileGranted
  <1>7. ASSUME Reader!LockGrant
        PROVE  ExportInv'
    <2>1. redeem.pc = "lock" /\ UNCHANGED <<grants, bundlesRead, xNow>>
      BY <1>7 DEF Reader!LockGrant
    <2>2. redeem \in [pc : {"lock", "locked"}, grant : Grants, who : Recipients,
                      purpose : Purposes, at : Nat \ {0}]
      BY <2>1 DEF ExportInv, Reader!IdleRedeem
    <2>3. CASE ~Reader!Redeemable(grants[redeem.grant])
      <3>1. redeem' = Reader!IdleRedeem
        BY <1>7, <2>3 DEF Reader!LockGrant
      <3>2. redeem'.pc = "idle"
        BY <3>1 DEF Reader!IdleRedeem
      <3>3. QED
        BY <2>1, <3>1, <3>2 DEF ExportInv, Reader!ReadWhileGranted
    <2>4. CASE Reader!Redeemable(grants[redeem.grant])
      <3>1. redeem' = [redeem EXCEPT !.pc = "locked"]
        BY <1>7, <2>4 DEF Reader!LockGrant
      <3>2. /\ redeem' \in [pc : {"lock", "locked"}, grant : Grants, who : Recipients,
                            purpose : Purposes, at : Nat \ {0}]
            /\ redeem'.grant = redeem.grant /\ redeem'.who = redeem.who
            /\ redeem'.purpose = redeem.purpose
        BY <2>2, <3>1
      <3>3. grants[redeem.grant] # Reader!NoGrant
        <4> SUFFICES ASSUME grants[redeem.grant] = Reader!NoGrant
                     PROVE  FALSE
          OBVIOUS
        <4>1. grants[redeem.grant].expires = 0
          BY DEF Reader!NoGrant
        <4>2. QED
          BY <2>2, <2>4, <4>1 DEF Reader!Redeemable
      <3>4. /\ grants[redeem.grant].to = redeem.who /\ grants[redeem.grant].purpose = redeem.purpose
        BY <2>4 DEF Reader!Redeemable
      <3>5. QED
        BY <2>1, <3>2, <3>3, <3>4 DEF ExportInv, Reader!ReadWhileGranted
    <2>5. QED
      BY <2>3, <2>4
  <1>8. ASSUME Reader!ReturnBundle
        PROVE  ExportInv'
    <2> DEFINE row == grants[redeem.grant]
               b == [grant |-> redeem.grant, row |-> row, who |-> redeem.who,
                     purpose |-> redeem.purpose, time |-> xNow,
                     sound |-> exportRows[row.export].sound]
    <2>1. /\ redeem.pc = "locked" /\ redeem' = Reader!IdleRedeem /\ UNCHANGED <<grants, xNow>>
          /\ bundlesRead' = IF Reader!VerifyBundle(exportRows[row.export]) /\ Reader!StillGood(row)
                            THEN bundlesRead \cup {b} ELSE bundlesRead
      BY <1>8 DEF Reader!ReturnBundle
    <2>2. /\ b.row = row /\ b.who = redeem.who /\ b.purpose = redeem.purpose /\ b.time = xNow
          /\ b.sound = exportRows[row.export].sound
      OBVIOUS
    <2>3. row.to = redeem.who /\ row.purpose = redeem.purpose
      BY <2>1 DEF ExportInv
    <2> HIDE DEF b, row
    <2>4. Reader!ReadWhileGranted'
      BY <2>1, <2>2, <2>3 DEF ExportInv, Reader!ReadWhileGranted, Reader!VerifyBundle, Reader!StillGood
    <2>5. redeem'.pc = "idle"
      BY <2>1 DEF Reader!IdleRedeem
    <2>6. QED
      BY <2>1, <2>4, <2>5 DEF ExportInv
  <1>9. ASSUME Reader!ExportTick
        PROVE  ExportInv'
    BY <1>9 DEF Reader!ExportTick, ExportInv, Reader!ReadWhileGranted
  <1>10. QED
    BY <1>1, <1>2, <1>3, <1>4, <1>5, <1>6, <1>7, <1>8, <1>9 DEF Reader!ExportNext

-----------------------------------------------------------------------------
(* Chat requests. *)

ChatStates ==
    [pc : {"idle", "scope", "refused", "ensure", "route", "failed", "run", "artifacts", "closing",
           "left", "done"},
     transport : {"sync", "stream"}, equipped : BOOLEAN, disabled : SUBSET {"memory"},
     denied : SUBSET {"write"}, mode : {"solo", "team"}]

ChatEvents ==
    {"routed", "iteration", "response", "delta", "denied", "approval", "completed", "decided", "stopped"}

Registry == Chat!CreateToolRegistry(chat.equipped, chat.disabled, chat.denied)

(* Nothing is emitted before the request is routed, and from then on the    *)
(* run has the tools of its scope or, as a team's parent, none.             *)
ChatInv ==
    /\ chat \in ChatStates /\ emitted \in Seq(ChatEvents)
    /\ chat.pc \in {"idle", "scope", "refused", "ensure", "route"} => emitted = <<>> /\ runTask = "none"
    /\ chat.pc \in {"artifacts", "failed"} => runTask \notin {"running", "cancelling"}
    /\ chat.pc \notin {"idle", "scope", "refused"} => offeredTools = Registry
    /\ chat.pc \in {"run", "artifacts", "closing", "left", "done"} =>
           parentTools \subseteq offeredTools /\ (chat.mode = "team" => parentTools = {})
    /\ Chat!RunsStayInTheirTools

LEMMA ChatStart == ASSUME Chat!ChatInit PROVE ChatInv
  <1>1. chat = Chat!NoChat /\ emitted = <<>> /\ runTask = "none"
    BY DEF Chat!ChatInit
  <1>2. chat \in ChatStates /\ chat.pc = "idle"
    BY <1>1 DEF Chat!NoChat, ChatStates
  <1>3. "completed" \notin Chat!Range(emitted) /\ "approval" \notin Chat!Range(emitted)
    BY <1>1 DEF Chat!Range
  <1>4. QED
    BY <1>1, <1>2, <1>3 DEF ChatInv, Chat!RunsStayInTheirTools

LEMMA ChatKept ==
    ASSUME ChatInv, UNCHANGED <<chat, offeredTools, parentTools, runTask, emitted>>
    PROVE  ChatInv'
  BY DEF ChatInv, Registry, Chat!RunsStayInTheirTools

LEMMA ChatRests == ASSUME ChatInv, UNCHANGED chatPart PROVE ChatInv'
  BY ChatKept DEF chatPart

LEMMA ContainsAppended ==
    ASSUME NEW s \in Seq(ChatEvents), NEW k \in ChatEvents, NEW e
    PROVE  e \in Chat!Range(Append(s, k)) <=> e \in Chat!Range(s) \/ k = e
  <1>1. PICK n \in Nat : n = Len(s)
    OBVIOUS
  <1>2. PICK w : w = Append(s, k)
    OBVIOUS
  <1>3. DOMAIN s = 1 .. n /\ DOMAIN w = 1 .. (n + 1)
    BY <1>1, <1>2
  <1>4. w[n + 1] = k /\ \A i \in 1 .. n : w[i] = s[i]
    BY <1>1, <1>2
  <1>5. \A i \in 1 .. (n + 1) : i \in 1 .. n \/ i = n + 1
    BY <1>1
  <1>6. n + 1 \in 1 .. (n + 1) /\ \A i \in 1 .. n : i \in 1 .. (n + 1)
    BY <1>1
  <1>7. e \in Chat!Range(w) <=> e \in Chat!Range(s) \/ k = e
    BY <1>3, <1>4, <1>5, <1>6 DEF Chat!Range
  <1>8. QED
    BY <1>2, <1>7

(* Between admission and routing nothing has been emitted. *)
LEMMA EarlyStep ==
    ASSUME ChatInv, chat' \in ChatStates, UNCHANGED <<runTask, emitted>>,
           chat.pc \in {"idle", "scope", "ensure", "route"},
           chat'.pc \in {"scope", "refused", "ensure", "route", "failed"},
           chat'.pc \notin {"scope", "refused"} => offeredTools' = Registry'
    PROVE  ChatInv'
  <1>1. emitted' = <<>> /\ runTask' = "none" /\ emitted' \in Seq(ChatEvents)
    BY DEF ChatInv
  <1>2. "completed" \notin Chat!Range(emitted') /\ "approval" \notin Chat!Range(emitted')
    BY <1>1 DEF Chat!Range
  <1>3. QED
    BY <1>1, <1>2 DEF ChatInv, Chat!RunsStayInTheirTools

(* The request moves on and the run's tools stay. *)
LEMMA LateStep ==
    ASSUME ChatInv, NEW pc \in {"artifacts", "closing", "left", "done", "failed"},
           chat.pc \in {"run", "artifacts", "closing", "left", "done"},
           chat' = [chat EXCEPT !.pc = pc], UNCHANGED <<offeredTools, parentTools, emitted>>,
           pc \in {"artifacts", "failed"} => runTask' \notin {"running", "cancelling"}
    PROVE  ChatInv'
  <1>1. /\ chat' \in ChatStates /\ chat'.pc = pc /\ chat'.mode = chat.mode
        /\ chat'.transport = chat.transport /\ chat'.equipped = chat.equipped
        /\ chat'.denied = chat.denied /\ chat'.disabled = chat.disabled
    BY DEF ChatInv, ChatStates
  <1>2. Registry' = Registry
    BY <1>1 DEF Registry, Chat!CreateToolRegistry, Chat!NativeTools, Chat!WorkspaceTools,
                Chat!MemoryTools, Chat!SandboxTools
  <1>3. QED
    BY <1>1, <1>2 DEF ChatInv, Chat!RunsStayInTheirTools, Chat!SandboxTools

(* The run emits an event that its tools allow. *)
LEMMA EmitStep ==
    ASSUME ChatInv, runTask # "none", runTask' \in {runTask, "ended", "raised"}, NEW kind \in ChatEvents,
           emitted' = Append(emitted, kind), UNCHANGED <<chat, offeredTools, parentTools>>,
           kind \in {"completed", "approval"} => chat.mode = "solo",
           kind = "approval" => /\ chat.transport = "stream" /\ chat.equipped
                                /\ "write" \in chat.denied => Chat!SandboxTools \subseteq offeredTools
    PROVE  ChatInv'
  <1>1. /\ "completed" \in Chat!Range(emitted') <=> "completed" \in Chat!Range(emitted) \/ kind = "completed"
        /\ "approval" \in Chat!Range(emitted') <=> "approval" \in Chat!Range(emitted) \/ kind = "approval"
    BY ContainsAppended DEF ChatInv
  <1>2. emitted' \in Seq(ChatEvents)
    BY DEF ChatInv
  <1>3. chat.pc \in {"run", "artifacts", "closing", "left", "done", "failed"}
    BY DEF ChatInv, ChatStates
  <1>4. Chat!RunsStayInTheirTools'
    BY <1>1 DEF ChatInv, Chat!RunsStayInTheirTools, Chat!SandboxTools
  <1>5. Registry' = Registry
    BY DEF Registry, Chat!CreateToolRegistry, Chat!NativeTools, Chat!WorkspaceTools,
           Chat!MemoryTools, Chat!SandboxTools
  <1>6. QED
    BY <1>2, <1>3, <1>4, <1>5 DEF ChatInv

(* A tool that must be asked for comes with the equipment; where writing is *)
(* denied, only the sandbox is left.                                        *)
LEMMA AskedTools ==
    ASSUME chat.equipped \in BOOLEAN, NEW tool \in Registry, tool.ask
    PROVE  /\ chat.equipped
           /\ "write" \in chat.denied => Chat!SandboxTools \subseteq Registry
  <1>1. \A t \in Chat!NativeTools : ~t.ask
    BY DEF Chat!NativeTools, Chat!Tool
  <1>2. \A t \in Chat!WorkspaceTools \cup Chat!MemoryTools : t.ask => "write" \in t.risks
    BY DEF Chat!WorkspaceTools, Chat!MemoryTools, Chat!Tool
  <1>3. \A t, u \in Chat!SandboxTools : t = u
    BY DEF Chat!SandboxTools
  <1> DEFINE native == Chat!NativeTools
             writing == Chat!WorkspaceTools \cup Chat!MemoryTools
             box == Chat!SandboxTools
  <1>4. Registry = {t \in native \cup (IF chat.equipped THEN writing \cup box ELSE {}) :
                        t.name \notin chat.disabled /\ t.risks \cap chat.denied = {}}
    BY DEF Registry, Chat!CreateToolRegistry
  <1> HIDE DEF native, writing, box
  <1>5. chat.equipped
    BY <1>1, <1>4 DEF native
  <1>6. ASSUME "write" \in chat.denied
        PROVE  box \subseteq Registry
    <2>1. "write" \notin tool.risks
      BY <1>4, <1>6
    <2>2. tool \in box
      BY <1>1, <1>2, <1>4, <2>1 DEF native, writing
    <2>3. QED
      BY <1>3, <2>2 DEF box
  <1>7. QED
    BY <1>5, <1>6 DEF box

LEMMA RunCallsStep ==
    ASSUME ChatInv, NEW tool \in parentTools, Chat!RunCalls(tool)
    PROVE  ChatInv'
  <1>1. PICK kind : emitted' = Append(emitted, kind)
            /\ kind = IF tool.ask /\ chat.transport = "sync" THEN "denied"
                      ELSE IF tool.ask THEN "approval" ELSE "completed"
    BY DEF Chat!RunCalls, Chat!EmitEvent
  <1>2. runTask = "running" /\ UNCHANGED <<chat, offeredTools, parentTools, runTask>>
    BY DEF Chat!RunCalls
  <1>3. chat.pc \in {"run", "artifacts", "closing", "left", "done"}
    BY <1>2 DEF ChatInv, ChatStates
  <1>4. /\ chat.mode = "solo" /\ tool \in Registry /\ offeredTools = Registry
        /\ chat.equipped \in BOOLEAN /\ chat.transport \in {"sync", "stream"}
    BY <1>3 DEF ChatInv, ChatStates
  <1>5. kind = "approval" => /\ chat.transport = "stream" /\ chat.equipped
                             /\ "write" \in chat.denied => Chat!SandboxTools \subseteq offeredTools
    BY <1>1, <1>4, AskedTools
  <1>6. kind \in ChatEvents
    BY <1>1 DEF ChatEvents
  <1>7. QED
    BY <1>1, <1>2, <1>4, <1>5, <1>6, EmitStep

LEMMA ChatNextStep == ASSUME ChatInv, Chat!ChatNext PROVE ChatInv'
  <1>1. ASSUME NEW transport \in {"sync", "stream"}, NEW image, NEW refused,
               Chat!Admit(transport, image, refused)
        PROVE  ChatInv'
    <2>1. PICK pc \in {"refused", "scope"} : chat' = [chat EXCEPT !.transport = transport, !.pc = pc]
      BY <1>1 DEF Chat!Admit
    <2>2. chat.pc = "idle" /\ UNCHANGED <<runTask, emitted>>
      BY <1>1 DEF Chat!Admit
    <2>3. chat' \in ChatStates /\ chat'.pc = pc
      BY <2>1 DEF ChatInv, ChatStates
    <2>4. QED
      BY <2>2, <2>3, EarlyStep
  <1>2. ASSUME NEW equipped \in BOOLEAN, NEW disabled \in {{}, {"memory"}}, NEW denied \in {{}, {"write"}},
               Chat!PrepareTools(equipped, disabled, denied)
        PROVE  ChatInv'
    <2>1. /\ chat.pc = "scope" /\ UNCHANGED <<runTask, emitted>>
          /\ chat' = [chat EXCEPT !.pc = "ensure", !.equipped = equipped, !.disabled = disabled,
                                  !.denied = denied]
          /\ offeredTools' = Chat!CreateToolRegistry(equipped, disabled, denied)
      BY <1>2 DEF Chat!PrepareTools
    <2>2. /\ chat' \in ChatStates /\ chat'.pc = "ensure" /\ chat'.equipped = equipped
          /\ chat'.disabled = disabled /\ chat'.denied = denied
      BY <2>1 DEF ChatInv, ChatStates
    <2>3. offeredTools' = Registry'
      BY <2>1, <2>2 DEF Registry, Chat!CreateToolRegistry, Chat!NativeTools, Chat!WorkspaceTools,
                        Chat!MemoryTools, Chat!SandboxTools
    <2>4. QED
      BY <2>1, <2>2, <2>3, EarlyStep
  <1>3. ASSUME Chat!EnsureRunRow \/ Chat!FailBeforeRun
        PROVE  ChatInv'
    <2>1. PICK pc \in {"route", "failed"} : chat' = [chat EXCEPT !.pc = pc]
      BY <1>3 DEF Chat!EnsureRunRow, Chat!FailBeforeRun, Chat!ChatMoves
    <2>2. chat.pc \in {"ensure", "route"} /\ UNCHANGED <<runTask, emitted, offeredTools>>
      BY <1>3 DEF Chat!EnsureRunRow, Chat!FailBeforeRun, Chat!ChatMoves
    <2>3. /\ chat' \in ChatStates /\ chat'.pc = pc /\ chat'.equipped = chat.equipped
          /\ chat'.disabled = chat.disabled /\ chat'.denied = chat.denied
      BY <2>1 DEF ChatInv, ChatStates
    <2>4. offeredTools' = Registry'
      BY <2>2, <2>3 DEF ChatInv, Registry, Chat!CreateToolRegistry, Chat!NativeTools,
                        Chat!WorkspaceTools, Chat!MemoryTools, Chat!SandboxTools
    <2>5. QED
      BY <2>2, <2>3, <2>4, EarlyStep
  <1>4. ASSUME NEW mode \in {"solo", "team"}, Chat!RouteRequest(mode)
        PROVE  ChatInv'
    <2>1. /\ chat.pc = "route" /\ chat' = [chat EXCEPT !.pc = "run", !.mode = mode]
          /\ parentTools' = Chat!ParentTools(mode) /\ emitted' = <<"routed">>
          /\ UNCHANGED offeredTools
      BY <1>4 DEF Chat!RouteRequest
    <2>2. /\ chat' \in ChatStates /\ chat'.pc = "run" /\ chat'.equipped = chat.equipped
          /\ chat'.disabled = chat.disabled /\ chat'.denied = chat.denied /\ chat'.mode = mode
      BY <2>1 DEF ChatInv, ChatStates
    <2>3. offeredTools' = Registry'
      BY <2>1, <2>2 DEF ChatInv, Registry, Chat!CreateToolRegistry, Chat!NativeTools,
                        Chat!WorkspaceTools, Chat!MemoryTools, Chat!SandboxTools
    <2>4. /\ parentTools' \subseteq offeredTools' /\ (mode = "team" => parentTools' = {})
      BY <2>1 DEF Chat!ParentTools
    <2>5. emitted' \in Seq(ChatEvents)
      BY <2>1 DEF ChatEvents
    <2>6. "completed" \notin Chat!Range(emitted') /\ "approval" \notin Chat!Range(emitted')
      BY <2>1 DEF Chat!Range
    <2>7. QED
      BY <2>2, <2>3, <2>4, <2>5, <2>6 DEF ChatInv, Chat!RunsStayInTheirTools
  <1>5. ASSUME \/ \E kind \in {"iteration", "response", "delta"} : Chat!RunEmits(kind)
               \/ Chat!OwnerDecides \/ Chat!TerminalLate \/ Chat!CancelledRunEnds(TRUE)
               \/ \E answer \in ChatAnswers : Chat!RunEnds(answer, TRUE)
        PROVE  ChatInv'
    <2>1. /\ runTask # "none" /\ runTask' \in {runTask, "ended", "raised"}
          /\ UNCHANGED <<chat, offeredTools, parentTools>>
          /\ \E kind \in {"iteration", "response", "delta", "decided", "stopped"} :
                 emitted' = Append(emitted, kind)
      BY <1>5 DEF Chat!RunEmits, Chat!OwnerDecides, Chat!TerminalLate, Chat!CancelledRunEnds,
                  Chat!RunEnds, Chat!PersistTerminal, Chat!EmitEvent
    <2>2. PICK kind \in {"iteration", "response", "delta", "decided", "stopped"} :
              emitted' = Append(emitted, kind)
      BY <2>1
    <2>3. kind \in ChatEvents /\ kind # "approval" /\ kind # "completed"
      BY DEF ChatEvents
    <2>4. QED
      BY <2>1, <2>2, <2>3, EmitStep
  <1>6. ASSUME \/ \E cleared \in BOOLEAN : Chat!LoopEnds(cleared) \/ Chat!CleanUp(cleared)
               \/ \E budget \in BOOLEAN : Chat!FinishStream(budget) \/ Chat!FinalizeSync(budget)
               \/ Chat!ClientLeaves \/ Chat!AnswerSync
        PROVE  ChatInv'
    <2>1. /\ chat.pc \in {"run", "artifacts", "closing"}
          /\ \E pc \in {"artifacts", "closing", "left", "done", "failed"} :
                 /\ chat' = [chat EXCEPT !.pc = pc]
                 /\ pc \in {"artifacts", "failed"} => runTask' \notin {"running", "cancelling"}
          /\ UNCHANGED <<offeredTools, parentTools, emitted>>
      BY <1>6 DEF Chat!LoopEnds, Chat!ClientLeaves, Chat!CleanUp, Chat!FinishStream, Chat!FinalizeSync,
                  Chat!AnswerSync, Chat!Streaming, Chat!ChatMoves, Chat!Drained, Chat!TaskDone
    <2>2. QED
      BY <2>1, LateStep
  <1>7. ASSUME Chat!ForwardEvent \/ Chat!SaveArtifact
        PROVE  ChatInv'
    BY <1>7, ChatKept DEF Chat!ForwardEvent, Chat!SaveArtifact
  <1>8. ASSUME \/ Chat!RunRaises \/ Chat!CancelledRunEnds(FALSE)
               \/ \E answer \in ChatAnswers : Chat!RunEnds(answer, FALSE)
        PROVE  ChatInv'
    <2>1. /\ runTask \in {"running", "cancelling"} /\ runTask' \in {"ended", "raised"}
          /\ UNCHANGED <<chat, offeredTools, parentTools, emitted>>
      BY <1>8 DEF Chat!RunRaises, Chat!CancelledRunEnds, Chat!RunEnds, Chat!PersistTerminal
    <2>2. QED
      BY <2>1 DEF ChatInv, Registry, Chat!RunsStayInTheirTools
  <1>9. ASSUME Chat!CancelledRunRaises \/ Chat!SyncFails
        PROVE  ChatInv'
    <2>1. /\ \E pc \in {"left", "failed"} : chat' = [chat EXCEPT !.pc = pc]
          /\ runTask # "none" /\ (runTask \in {"running", "cancelling"} \/ chat.pc = "run")
          /\ runTask' \in {"ended", "raised"} /\ UNCHANGED <<offeredTools, parentTools, emitted>>
      BY <1>9 DEF Chat!CancelledRunRaises, Chat!SyncFails, Chat!TaskDone, Chat!ChatMoves
    <2>2. chat.pc \in {"run", "artifacts", "closing", "left", "done"}
      BY <2>1 DEF ChatInv, ChatStates
    <2>3. QED
      BY <2>1, <2>2, LateStep
  <1>10. ASSUME NEW pc \in {"left", "failed"}, Chat!LeaveLate(pc)
         PROVE  ChatInv'
    <2>1. /\ chat.pc = "artifacts" /\ chat' = [chat EXCEPT !.pc = pc]
          /\ UNCHANGED <<runTask, offeredTools, parentTools, emitted>>
      BY <1>10 DEF Chat!LeaveLate, Chat!ChatMoves
    <2>2. runTask' \notin {"running", "cancelling"}
      BY <2>1 DEF ChatInv
    <2>3. QED
      BY <2>1, <2>2, LateStep
  <1>11. QED
    BY <1>1, <1>2, <1>3, <1>4, <1>5, <1>6, <1>7, <1>8, <1>9, <1>10, RunCallsStep DEF Chat!ChatNext

-----------------------------------------------------------------------------
(* Optimization candidates. *)

CandidateStates == {"none", "proposed", "approved", "promoted", "rejected", "rolled_back"}
Approvals == Receipts \cup {NoReceipt}
Operations == {"request", "approve", "promote", "reject", "rollback"}

CandidateRows == [state : CandidateStates, version : Nat, approval : Approvals]
ReceiptRows ==
    [status : {"pending", "approved", "denied", "cancelled"}, args : Proposals \X Nat, expires : Nat]
EventRows ==
    [from : CandidateStates, to : CandidateStates, version : Nat, approval : Approvals, at : Nat]
SessionRows ==
    [op : Operations, of : Proposals, version : Nat, now : Nat, previous : CandidateStates,
     approval : Approvals]

Fenced(t) == t.op \notin {"none", "begun"}

(* What an operation has read under the fence is still so. *)
SessionHolds(t, rows, given) ==
    /\ t.previous \in Evaluation!Sources(t.op)
    /\ rows[t.of].state = t.previous /\ rows[t.of].version = t.version
    /\ t.op = "approve" =>
           /\ t.approval \in Receipts /\ given[t.approval].status = "approved"
           /\ given[t.approval].args = <<t.of, t.version>> /\ given[t.approval].expires > t.now

CandidateTypes ==
    /\ candidate \in [Proposals -> CandidateRows]
    /\ receipt \in [Receipts -> ReceiptRows \cup {Evaluation!NoRequest}]
    /\ candEvents \in [Proposals -> Seq(EventRows)]
    /\ session \in [Sessions -> SessionRows \cup [op : {"begun"}, now : Nat]
                                    \cup {Evaluation!NoSession}]
    /\ candClock \in Nat

FenceInv ==
    /\ \A s \in Sessions : Fenced(session[s]) => SessionHolds(session[s], candidate, receipt)
    /\ \A s, o \in Sessions :
           s # o /\ Fenced(session[s]) /\ Fenced(session[o]) => session[s].of # session[o].of

(* A pending receipt is for the proposal as it stands. *)
PendingInv ==
    \A r \in Receipts : receipt[r].status = "pending" =>
        /\ candidate[receipt[r].args[1]].state = "proposed"
        /\ candidate[receipt[r].args[1]].version = receipt[r].args[2]

CandidateInv == CandidateTypes /\ FenceInv /\ PendingInv /\ Evaluation!ApprovedByExactReceipt

LEMMA OperationSources ==
    /\ Evaluation!Sources("request") = {"proposed"} /\ Evaluation!Sources("approve") = {"proposed"}
    /\ Evaluation!Sources("promote") = {"approved"} /\ Evaluation!Sources("rollback") = {"promoted"}
    /\ Evaluation!Sources("reject") = {"proposed", "approved"}
  BY DEF Evaluation!Sources

LEMMA ProposalsStart == ASSUME Evaluation!CandidateInit PROVE CandidateInv
  <1>1. CandidateTypes
    BY DEF Evaluation!CandidateInit, CandidateTypes, CandidateRows, Evaluation!NoCandidate,
           Approvals, CandidateStates
  <1>2. FenceInv
    BY DEF Evaluation!CandidateInit, FenceInv, Fenced, Evaluation!NoSession
  <1>3. PendingInv
    BY DEF Evaluation!CandidateInit, PendingInv, Evaluation!NoRequest
  <1>4. Evaluation!ApprovedByExactReceipt
    BY DEF Evaluation!CandidateInit, Evaluation!ApprovedByExactReceipt, Evaluation!NoCandidate
  <1>5. QED
    BY <1>1, <1>2, <1>3, <1>4 DEF CandidateInv

LEMMA ProposalsRest == ASSUME CandidateInv, UNCHANGED proposalsPart PROVE CandidateInv'
  BY DEF proposalsPart, CandidateInv, CandidateTypes, FenceInv, PendingInv,
         Evaluation!ApprovedByExactReceipt

LEMMA FencedRow ==
    ASSUME CandidateTypes, NEW s \in Sessions, Fenced(session[s])
    PROVE  session[s] \in SessionRows
  BY DEF CandidateTypes, Fenced, Evaluation!NoSession

(* An approval is final. *)
ApprovalsKept ==
    \A r \in Receipts : receipt[r].status = "approved" => receipt'[r] = receipt[r]

EventsGrow ==
    \A c \in Proposals : \A i \in DOMAIN candEvents[c] :
        i \in DOMAIN candEvents'[c] /\ candEvents'[c][i] = candEvents[c][i]

ExactReceipt(c, rows, given, log) ==
    LET r == rows[c].approval
    IN  r # NoReceipt =>
            /\ given[r].status = "approved" /\ given[r].args[1] = c
            /\ \E i \in DOMAIN log[c] :
                   /\ log[c][i].to = "approved" /\ log[c][i].approval = r
                   /\ log[c][i].version = given[r].args[2] + 1 /\ log[c][i].at < given[r].expires

LEMMA ReceiptsStand ==
    ASSUME CandidateInv, ApprovalsKept, EventsGrow, NEW c \in Proposals,
           candidate'[c].approval = candidate[c].approval
    PROVE  ExactReceipt(c, candidate', receipt', candEvents')
  <1>1. ExactReceipt(c, candidate, receipt, candEvents)
    BY DEF CandidateInv, Evaluation!ApprovedByExactReceipt, ExactReceipt
  <1>2. CASE candidate[c].approval = NoReceipt
    BY <1>2 DEF ExactReceipt
  <1>3. CASE candidate[c].approval # NoReceipt
    <2> DEFINE r == candidate[c].approval
    <2>1. r \in Receipts
      BY <1>3 DEF CandidateInv, CandidateTypes, CandidateRows, Approvals
    <2>2. /\ receipt[r].status = "approved" /\ receipt[r].args[1] = c
          /\ \E i \in DOMAIN candEvents[c] :
                 /\ candEvents[c][i].to = "approved" /\ candEvents[c][i].approval = r
                 /\ candEvents[c][i].version = receipt[r].args[2] + 1
                 /\ candEvents[c][i].at < receipt[r].expires
      BY <1>1, <1>3 DEF ExactReceipt
    <2>3. receipt'[r] = receipt[r] /\ candidate'[c].approval = r
      BY <2>1, <2>2 DEF ApprovalsKept
    <2> HIDE DEF r
    <2>4. PICK i \in DOMAIN candEvents[c] :
                 /\ candEvents[c][i].to = "approved" /\ candEvents[c][i].approval = r
                 /\ candEvents[c][i].version = receipt[r].args[2] + 1
                 /\ candEvents[c][i].at < receipt[r].expires
      BY <2>2
    <2>5. i \in DOMAIN candEvents'[c] /\ candEvents'[c][i] = candEvents[c][i]
      BY DEF EventsGrow
    <2>6. QED
      BY <2>2, <2>3, <2>4, <2>5 DEF ExactReceipt
  <1>4. QED
    BY <1>2, <1>3

LEMMA ReceiptsAllStand ==
    ASSUME \A c \in Proposals : ExactReceipt(c, candidate', receipt', candEvents')
    PROVE  Evaluation!ApprovedByExactReceipt'
  BY DEF Evaluation!ApprovedByExactReceipt, ExactReceipt

(* The sessions on rows that stay as they are hold on. *)
LEMMA SessionsHold ==
    ASSUME CandidateInv, ApprovalsKept, NEW s \in Sessions, Fenced(session[s]),
           candidate'[session[s].of].state = candidate[session[s].of].state,
           candidate'[session[s].of].version = candidate[session[s].of].version
    PROVE  SessionHolds(session[s], candidate', receipt')
  <1>1. SessionHolds(session[s], candidate, receipt)
    BY DEF CandidateInv, FenceInv
  <1>2. session[s].op = "approve" => receipt'[session[s].approval] = receipt[session[s].approval]
    BY <1>1 DEF SessionHolds, ApprovalsKept
  <1>3. QED
    BY <1>1, <1>2 DEF SessionHolds

LEMMA CreateStep ==
    ASSUME CandidateInv, NEW c \in Proposals, NEW base, NEW new, NEW drift,
           Evaluation!CreateCandidate(c, base, new, drift)
    PROVE  CandidateInv'
  <1> DEFINE row == [state |-> "proposed", version |-> 1, approval |-> NoReceipt]
             e == [from |-> "none", to |-> "proposed", version |-> 1, approval |-> NoReceipt,
                   at |-> candClock]
  <1>1. /\ candidate[c] = Evaluation!NoCandidate
        /\ candidate' = [candidate EXCEPT ![c] = row]
        /\ candEvents' = [candEvents EXCEPT ![c] = Append(candEvents[c], e)]
        /\ UNCHANGED <<receipt, session, candClock>>
    BY DEF Evaluation!CreateCandidate, Evaluation!Event
  <1>2. candidate[c].state = "none" /\ candidate[c].approval = NoReceipt
    BY <1>1 DEF Evaluation!NoCandidate
  <1>3. row \in CandidateRows /\ e \in EventRows /\ row.approval = NoReceipt
    BY DEF CandidateRows, EventRows, Approvals, CandidateStates, CandidateInv, CandidateTypes
  <1> HIDE DEF row, e
  <1>4. CandidateTypes'
    BY <1>1, <1>3 DEF CandidateInv, CandidateTypes
  <1>5. ApprovalsKept /\ EventsGrow
    BY <1>1, <1>3 DEF CandidateInv, CandidateTypes, ApprovalsKept, EventsGrow
  <1>6. \A p \in Proposals : candidate'[p].approval = candidate[p].approval
    BY <1>1, <1>2, <1>3 DEF CandidateInv, CandidateTypes
  <1>7. \A p \in Proposals : p # c => candidate'[p] = candidate[p]
    BY <1>1 DEF CandidateInv, CandidateTypes
  <1>8. FenceInv'
    <2>1. ASSUME NEW s \in Sessions, Fenced(session[s])
          PROVE  SessionHolds(session[s], candidate', receipt')
      <3>1. session[s].of # c /\ session[s].of \in Proposals
        <4>1. session[s] \in SessionRows /\ SessionHolds(session[s], candidate, receipt)
          BY <2>1, FencedRow DEF CandidateInv, FenceInv
        <4>2. session[s].op \in Operations /\ session[s].of \in Proposals
          BY <4>1 DEF SessionRows
        <4>3. session[s].previous # "none"
          BY <4>1, <4>2, OperationSources DEF SessionHolds, Operations
        <4>4. QED
          BY <1>2, <4>1, <4>2, <4>3 DEF SessionHolds
      <3>2. QED
        BY <1>5, <1>7, <2>1, <3>1, SessionsHold
    <2>2. QED
      BY <1>1, <2>1 DEF CandidateInv, FenceInv
  <1>9. PendingInv'
    <2> SUFFICES ASSUME NEW r \in Receipts, receipt[r].status = "pending"
                 PROVE  /\ candidate'[receipt[r].args[1]].state = "proposed"
                        /\ candidate'[receipt[r].args[1]].version = receipt[r].args[2]
      BY <1>1 DEF PendingInv
    <2>1. receipt[r] \in ReceiptRows
      BY DEF CandidateInv, CandidateTypes, Evaluation!NoRequest
    <2>2. receipt[r].args[1] \in Proposals /\ receipt[r].args[1] # c
      BY <1>2, <2>1 DEF ReceiptRows, CandidateInv, PendingInv
    <2>3. QED
      BY <1>7, <2>2 DEF CandidateInv, PendingInv
  <1>10. Evaluation!ApprovedByExactReceipt'
    BY <1>5, <1>6, ReceiptsStand, ReceiptsAllStand
  <1>11. QED
    BY <1>4, <1>8, <1>9, <1>10 DEF CandidateInv

(* An operation that begins, reads or is refused changes nothing else. *)
LEMMA SessionStep ==
    ASSUME CandidateInv, NEW s \in Sessions, NEW t, session' = [session EXCEPT ![s] = t],
           t \in SessionRows \cup [op : {"begun"}, now : Nat] \cup {Evaluation!NoSession},
           Fenced(t) => /\ SessionHolds(t, candidate, receipt)
                        /\ \A o \in Sessions : o # s /\ Fenced(session[o]) => session[o].of # t.of,
           UNCHANGED <<candidate, receipt, candEvents, candClock>>
    PROVE  CandidateInv'
  <1>1. CandidateTypes'
    BY DEF CandidateInv, CandidateTypes
  <1>2. session' = [o \in Sessions |-> IF o = s THEN t ELSE session[o]]
    BY DEF CandidateInv, CandidateTypes
  <1>3. FenceInv'
    BY <1>2 DEF CandidateInv, FenceInv
  <1>4. PendingInv' /\ Evaluation!ApprovedByExactReceipt'
    BY DEF CandidateInv, PendingInv, Evaluation!ApprovedByExactReceipt
  <1>5. QED
    BY <1>1, <1>3, <1>4 DEF CandidateInv

LEMMA SessionBeginsOrEnds ==
    ASSUME CandidateInv, NEW s \in Sessions,
           Evaluation!BeginOperation(s) \/ Evaluation!OperationRefused(s)
    PROVE  CandidateInv'
  <1>1. PICK t \in [op : {"begun"}, now : Nat] \cup {Evaluation!NoSession} :
            session' = [session EXCEPT ![s] = t]
    BY DEF Evaluation!BeginOperation, Evaluation!OperationRefused, CandidateInv, CandidateTypes
  <1>2. ~Fenced(t)
    BY DEF Fenced, Evaluation!NoSession
  <1>3. UNCHANGED <<candidate, receipt, candEvents, candClock>>
    BY DEF Evaluation!BeginOperation, Evaluation!OperationRefused
  <1>4. QED
    BY <1>1, <1>2, <1>3, SessionStep

LEMMA ReadRowStep ==
    ASSUME CandidateInv, NEW s \in Sessions, NEW op \in Operations, NEW c \in Proposals,
           NEW v \in Nat, NEW r \in Approvals, op = "approve" => r \in Receipts,
           Evaluation!ReadRow(s, op, c, v, r)
    PROVE  CandidateInv'
  <1> DEFINE t == [op |-> op, of |-> c, version |-> v, now |-> session[s].now,
                   previous |-> candidate[c].state, approval |-> r]
  <1>1. /\ session[s].op = "begun"
        /\ \A o \in Sessions : Fenced(session[o]) => session[o].of # c
        /\ candidate[c].state \in Evaluation!Sources(op) /\ candidate[c].version = v
        /\ op = "approve" => Evaluation!UsableReceipt(r, c, v, session[s].now)
        /\ session' = [session EXCEPT ![s] = t]
        /\ UNCHANGED <<candidate, receipt, candEvents, candClock>>
    BY DEF Evaluation!ReadRow, Evaluation!Unfenced, Fenced
  <1>2. session[s].now \in Nat
    <2>1. session[s] \notin SessionRows
      BY <1>1 DEF SessionRows, Operations
    <2>2. session[s] # Evaluation!NoSession
      BY <1>1 DEF Evaluation!NoSession
    <2>3. session[s] \in [op : {"begun"}, now : Nat]
      BY <2>1, <2>2 DEF CandidateInv, CandidateTypes
    <2>4. QED
      BY <2>3
  <1>3. t \in SessionRows
    BY <1>2 DEF SessionRows, CandidateInv, CandidateTypes, CandidateRows
  <1>4. /\ t.op = op /\ t.of = c /\ t.version = v /\ t.now = session[s].now
        /\ t.previous = candidate[c].state /\ t.approval = r
    OBVIOUS
  <1> HIDE DEF t
  <1>5. op = "approve" =>
            /\ receipt[r].status = "approved" /\ receipt[r].args = <<c, v>>
            /\ receipt[r].expires > session[s].now
    BY <1>1 DEF Evaluation!UsableReceipt, Evaluation!Exact, Evaluation!ArgumentsHash
  <1>6. SessionHolds(t, candidate, receipt)
    BY <1>1, <1>4, <1>5 DEF SessionHolds
  <1>7. QED
    BY <1>1, <1>3, <1>4, <1>6, SessionStep

(* A receipt that is new or decided leaves the approved ones alone. *)
LEMMA ReceiptStep ==
    ASSUME CandidateInv, NEW r \in Receipts, NEW y \in ReceiptRows,
           receipt' = [receipt EXCEPT ![r] = y], receipt[r].status # "approved",
           y.status = "pending" => /\ candidate[y.args[1]].state = "proposed"
                                   /\ candidate[y.args[1]].version = y.args[2],
           UNCHANGED <<candidate, candEvents, candClock>>,
           \/ session' = session
           \/ \E s \in Sessions : session' = [session EXCEPT ![s] = Evaluation!NoSession]
    PROVE  CandidateInv'
  <1>1. receipt' = [z \in Receipts |-> IF z = r THEN y ELSE receipt[z]]
    BY DEF CandidateInv, CandidateTypes
  <1>2. CandidateTypes'
    BY DEF CandidateInv, CandidateTypes
  <1>3. ApprovalsKept
    BY <1>1 DEF ApprovalsKept
  <1>4. EventsGrow
    BY DEF EventsGrow
  <1>5. PendingInv'
    BY <1>1 DEF CandidateInv, PendingInv
  <1>6. \A s \in Sessions : Fenced(session'[s]) => session'[s] = session[s]
    BY DEF CandidateInv, CandidateTypes, Fenced, Evaluation!NoSession
  <1>7. \A s \in Sessions : Fenced(session[s]) => SessionHolds(session[s], candidate', receipt')
    BY <1>3, SessionsHold
  <1>8. FenceInv'
    BY <1>6, <1>7 DEF CandidateInv, FenceInv
  <1>9. \A p \in Proposals : candidate'[p].approval = candidate[p].approval
    OBVIOUS
  <1>10. Evaluation!ApprovedByExactReceipt'
    BY <1>3, <1>4, <1>9, ReceiptsStand, ReceiptsAllStand
  <1>11. QED
    BY <1>2, <1>5, <1>8, <1>10 DEF CandidateInv

LEMMA ReserveStep ==
    ASSUME CandidateInv, NEW s \in Sessions, NEW r \in Receipts, Evaluation!ReserveReceipt(s, r)
    PROVE  CandidateInv'
  <1> DEFINE t == session[s]
             y == [status |-> "pending", args |-> <<t.of, t.version>>, expires |-> candClock + ReceiptTtl]
  <1>1. /\ t.op = "request" /\ receipt[r] = Evaluation!NoRequest
        /\ receipt' = [receipt EXCEPT ![r] = y]
        /\ session' = [session EXCEPT ![s] = Evaluation!NoSession]
        /\ UNCHANGED <<candidate, candEvents, candClock>>
    BY DEF Evaluation!ReserveReceipt, Evaluation!ArgumentsHash
  <1>2. Fenced(t)
    BY <1>1 DEF Fenced
  <1>3. t \in SessionRows /\ SessionHolds(t, candidate, receipt)
    BY <1>2, FencedRow DEF CandidateInv, FenceInv
  <1>4. t.of \in Proposals /\ t.version \in Nat
    BY <1>3 DEF SessionRows
  <1>5. candidate[t.of].state = "proposed" /\ candidate[t.of].version = t.version
    BY <1>1, <1>3, OperationSources DEF SessionHolds
  <1> HIDE DEF t
  <1>6. y \in ReceiptRows /\ y.status = "pending" /\ y.args[1] = t.of /\ y.args[2] = t.version
    BY <1>4, ReceiptAssumption DEF ReceiptRows, CandidateInv, CandidateTypes
  <1> HIDE DEF y
  <1>7. receipt[r].status # "approved"
    BY <1>1 DEF Evaluation!NoRequest
  <1>8. QED
    BY <1>1, <1>5, <1>6, <1>7, ReceiptStep

LEMMA DecideStep ==
    ASSUME CandidateInv, NEW r \in Receipts, NEW verdict \in {"approved", "denied"},
           Evaluation!DecideReceipt(r, verdict)
    PROVE  CandidateInv'
  <1>1. /\ receipt[r].status = "pending" /\ receipt' = [receipt EXCEPT ![r].status = verdict]
        /\ UNCHANGED <<candidate, candEvents, session, candClock>>
    BY DEF Evaluation!DecideReceipt
  <1>2. receipt[r] \in ReceiptRows
    BY <1>1 DEF CandidateInv, CandidateTypes, Evaluation!NoRequest
  <1>3. PICK y : y = [receipt[r] EXCEPT !.status = verdict]
    OBVIOUS
  <1>4. y \in ReceiptRows /\ y.status = verdict
    BY <1>2, <1>3 DEF ReceiptRows
  <1>5. receipt' = [receipt EXCEPT ![r] = y]
    BY <1>1, <1>3
  <1>6. y.status # "pending" /\ receipt[r].status # "approved"
    BY <1>1, <1>4
  <1>7. QED
    BY <1>1, <1>4, <1>5, <1>6, ReceiptStep

(* What every write of a row leaves behind, whatever becomes of the         *)
(* receipts.                                                                *)
LEMMA WriteStep ==
    ASSUME CandidateInv, NEW s \in Sessions, NEW to \in CandidateStates, NEW w \in Approvals,
           Fenced(session[s]), Evaluation!WriteRow(s, to, w),
           receipt' \in [Receipts -> ReceiptRows \cup {Evaluation!NoRequest}], ApprovalsKept,
           \A r \in Receipts : receipt'[r].status = "pending" =>
               receipt'[r] = receipt[r] /\ receipt[r].args[1] # session[s].of,
           \/ w = candidate[session[s].of].approval
           \/ session[s].op = "approve" /\ to = "approved" /\ w = session[s].approval
    PROVE  CandidateInv'
  <1> DEFINE t == session[s]
             row == [state |-> to, version |-> t.version + 1, approval |-> w]
             e == [from |-> t.previous, to |-> to, version |-> t.version + 1, approval |-> w,
                   at |-> t.now]
  <1>1. /\ candidate' = [candidate EXCEPT ![t.of] = row]
        /\ candEvents' = [candEvents EXCEPT ![t.of] = Append(candEvents[t.of], e)]
        /\ session' = [session EXCEPT ![s] = Evaluation!NoSession] /\ candClock' = candClock
    BY DEF Evaluation!WriteRow, Evaluation!Event
  <1>2. t \in SessionRows /\ SessionHolds(t, candidate, receipt)
    BY FencedRow DEF CandidateInv, FenceInv
  <1>3. /\ t.of \in Proposals /\ t.version \in Nat /\ t.now \in Nat /\ t.previous \in CandidateStates
    BY <1>2 DEF SessionRows
  <1> DEFINE c == t.of
  <1>4. row \in CandidateRows /\ e \in EventRows /\ row.approval = w
    BY <1>3 DEF CandidateRows, EventRows
  <1>5. e.to = to /\ e.approval = w /\ e.version = t.version + 1 /\ e.at = t.now
    OBVIOUS
  <1> HIDE DEF t, row, e, c
  <1>6. CandidateTypes'
    BY <1>1, <1>3, <1>4 DEF CandidateInv, CandidateTypes
  <1>7. /\ candidate' = [p \in Proposals |-> IF p = c THEN row ELSE candidate[p]]
        /\ c \in Proposals
    BY <1>1, <1>3 DEF CandidateInv, CandidateTypes, c
  <1>8. /\ candEvents' = [p \in Proposals |-> IF p = c THEN Append(candEvents[c], e) ELSE candEvents[p]]
        /\ candEvents[c] \in Seq(EventRows)
    BY <1>1, <1>3 DEF CandidateInv, CandidateTypes, c
  <1>9. EventsGrow
    BY <1>4, <1>8 DEF CandidateInv, CandidateTypes, EventsGrow
  <1>10. FenceInv'
    <2>1. \A o \in Sessions : Fenced(session'[o]) => o # s /\ session'[o] = session[o]
      BY <1>1 DEF CandidateInv, CandidateTypes, Fenced, Evaluation!NoSession
    <2>2. ASSUME NEW o \in Sessions, o # s, Fenced(session[o])
          PROVE  SessionHolds(session[o], candidate', receipt')
      <3>1. session[o].of # c
        BY <2>2 DEF CandidateInv, FenceInv, c, t
      <3>2. session[o].of \in Proposals
        BY <2>2, FencedRow DEF CandidateInv, SessionRows
      <3>3. candidate'[session[o].of] = candidate[session[o].of]
        BY <1>7, <3>1, <3>2
      <3>4. QED
        BY <2>2, <3>3, SessionsHold
    <2>3. QED
      BY <2>1, <2>2 DEF CandidateInv, FenceInv
  <1>11. PendingInv'
    <2> SUFFICES ASSUME NEW r \in Receipts, receipt'[r].status = "pending"
                 PROVE  /\ candidate'[receipt'[r].args[1]].state = "proposed"
                        /\ candidate'[receipt'[r].args[1]].version = receipt'[r].args[2]
      BY DEF PendingInv
    <2>1. receipt'[r] = receipt[r] /\ receipt[r].args[1] # c
      BY DEF c, t
    <2>2. receipt[r] \in ReceiptRows
      BY <2>1 DEF CandidateInv, CandidateTypes, Evaluation!NoRequest
    <2>3. receipt[r].args[1] \in Proposals
      BY <2>2 DEF ReceiptRows
    <2>4. candidate'[receipt[r].args[1]] = candidate[receipt[r].args[1]]
      BY <1>7, <2>1, <2>3
    <2>5. QED
      BY <2>1, <2>4 DEF CandidateInv, PendingInv
  <1>12. \A p \in Proposals : p # c => ExactReceipt(p, candidate', receipt', candEvents')
    <2> SUFFICES ASSUME NEW p \in Proposals, p # c
                 PROVE  candidate'[p].approval = candidate[p].approval
      BY <1>9, ReceiptsStand
    <2>1. QED
      BY <1>7
  <1>13. ExactReceipt(c, candidate', receipt', candEvents')
    <2>1. CASE w = candidate[c].approval
      <3>1. candidate'[c].approval = candidate[c].approval
        BY <1>4, <1>7, <2>1
      <3>2. QED
        BY <1>7, <1>9, <3>1, ReceiptsStand
    <2>2. CASE t.op = "approve" /\ to = "approved" /\ w = t.approval
      <3>1. /\ w \in Receipts /\ receipt[w].status = "approved" /\ receipt[w].args = <<c, t.version>>
            /\ receipt[w].expires > t.now
        BY <1>2, <2>2 DEF SessionHolds, c
      <3>2. receipt'[w] = receipt[w] /\ candidate'[c].approval = w
        BY <1>4, <1>7, <3>1 DEF ApprovalsKept
      <3>3. receipt[w].args[1] = c /\ receipt[w].args[2] = t.version
        BY <3>1
      <3>4. PICK i \in DOMAIN candEvents'[c] : candEvents'[c][i] = e
        BY <1>4, <1>7, <1>8
      <3>5. t.now < receipt[w].expires
        BY <3>1, <1>3 DEF CandidateInv, CandidateTypes, ReceiptRows, Evaluation!NoRequest
      <3>6. /\ candEvents'[c][i].to = "approved" /\ candEvents'[c][i].approval = w
            /\ candEvents'[c][i].version = receipt'[w].args[2] + 1
            /\ candEvents'[c][i].at < receipt'[w].expires
        BY <1>5, <2>2, <3>2, <3>3, <3>4, <3>5
      <3>7. QED
        BY <3>1, <3>2, <3>3, <3>4, <3>6 DEF ExactReceipt
    <2>3. QED
      BY <2>1, <2>2 DEF t, c
  <1>14. Evaluation!ApprovedByExactReceipt'
    BY <1>12, <1>13, ReceiptsAllStand
  <1>15. QED
    BY <1>6, <1>10, <1>11, <1>14 DEF CandidateInv

(* With the proposal decided, no request for it is left. *)
LEMMA CancelStep ==
    ASSUME CandidateInv, NEW s \in Sessions, Fenced(session[s]), NEW but,
           but \in Receipts => receipt[but].status = "approved",
           receipt' = Evaluation!CancelPending(session[s].of, session[s].version, but)
    PROVE  /\ receipt' \in [Receipts -> ReceiptRows \cup {Evaluation!NoRequest}] /\ ApprovalsKept
           /\ \A r \in Receipts : receipt'[r].status = "pending" =>
                  receipt'[r] = receipt[r] /\ receipt[r].args[1] # session[s].of
  <1> DEFINE Hit(r) == /\ Evaluation!Exact(r, session[s].of, session[s].version)
                       /\ receipt[r].status = "pending" /\ r # but
  <1>1. receipt' = [r \in Receipts |-> IF Hit(r) THEN [receipt[r] EXCEPT !.status = "cancelled"]
                                       ELSE receipt[r]]
    BY DEF Evaluation!CancelPending
  <1>2. ASSUME NEW r \in Receipts, Hit(r)
        PROVE  receipt'[r] \in ReceiptRows /\ receipt'[r].status = "cancelled"
    <2>1. receipt[r] \in ReceiptRows
      BY <1>2 DEF CandidateInv, CandidateTypes, Evaluation!NoRequest
    <2>2. receipt'[r] = [receipt[r] EXCEPT !.status = "cancelled"]
      BY <1>1, <1>2
    <2>3. QED
      BY <2>1, <2>2 DEF ReceiptRows
  <1>3. ASSUME NEW r \in Receipts, ~Hit(r)
        PROVE  receipt'[r] = receipt[r]
    BY <1>1, <1>3
  <1>4. ASSUME NEW r \in Receipts, receipt[r].status = "approved"
        PROVE  receipt'[r] = receipt[r]
    BY <1>3, <1>4
  <1>5. ASSUME NEW r \in Receipts, receipt'[r].status = "pending"
        PROVE  receipt'[r] = receipt[r] /\ receipt[r].args[1] # session[s].of
    <2>1. ~Hit(r) /\ receipt'[r] = receipt[r]
      BY <1>2, <1>3, <1>5
    <2>2. receipt[r] \in ReceiptRows
      BY <1>5, <2>1 DEF CandidateInv, CandidateTypes, Evaluation!NoRequest
    <2>3. SUFFICES ASSUME receipt[r].args[1] = session[s].of
                   PROVE  FALSE
      BY <2>1
    <2>4. SessionHolds(session[s], candidate, receipt)
      BY DEF CandidateInv, FenceInv
    <2>5. receipt[r].args[2] = session[s].version
      BY <1>5, <2>1, <2>3, <2>4 DEF CandidateInv, PendingInv, SessionHolds
    <2>6. receipt[r].args = <<session[s].of, session[s].version>>
      BY <2>2, <2>3, <2>5 DEF ReceiptRows
    <2>7. r # but
      BY <1>5, <2>1
    <2>8. QED
      BY <1>5, <2>1, <2>6, <2>7 DEF Evaluation!Exact, Evaluation!ArgumentsHash
  <1> HIDE DEF Hit
  <1>6. receipt' \in [Receipts -> ReceiptRows \cup {Evaluation!NoRequest}]
    <2>1. \A r \in Receipts : receipt'[r] \in ReceiptRows \cup {Evaluation!NoRequest}
      BY <1>2, <1>3 DEF CandidateInv, CandidateTypes
    <2>2. QED
      BY <1>1, <2>1
  <1>7. QED
    BY <1>4, <1>5, <1>6 DEF ApprovalsKept

LEMMA WritesStep ==
    ASSUME CandidateInv, NEW s \in Sessions,
           \/ Evaluation!ApproveCandidate(s) \/ Evaluation!PromoteCandidate(s)
           \/ Evaluation!RejectCandidate(s) \/ Evaluation!RollbackCandidate(s)
    PROVE  CandidateInv'
  <1> DEFINE t == session[s]
  <1>1. t.op \in {"approve", "promote", "reject", "rollback"}
    BY DEF Evaluation!ApproveCandidate, Evaluation!PromoteCandidate, Evaluation!RejectCandidate,
           Evaluation!RollbackCandidate
  <1>2. Fenced(t)
    BY <1>1 DEF Fenced
  <1>3. t \in SessionRows /\ SessionHolds(t, candidate, receipt)
    BY <1>2, FencedRow DEF CandidateInv, FenceInv
  <1>4. candidate[t.of].approval \in Approvals
    BY <1>3 DEF SessionRows, CandidateInv, CandidateTypes, CandidateRows
  <1>5. CASE Evaluation!ApproveCandidate(s)
    <2>1. /\ t.op = "approve" /\ Evaluation!WriteRow(s, "approved", t.approval)
          /\ receipt' = Evaluation!CancelPending(t.of, t.version, t.approval)
      BY <1>5 DEF Evaluation!ApproveCandidate
    <2>2. t.approval \in Receipts /\ receipt[t.approval].status = "approved"
      BY <1>3, <2>1 DEF SessionHolds
    <2>3. t.approval \in Approvals /\ "approved" \in CandidateStates
      BY <2>2 DEF Approvals, CandidateStates
    <2>4. QED
      BY <1>2, <2>1, <2>2, <2>3, CancelStep, WriteStep
  <1>6. CASE Evaluation!RejectCandidate(s)
    <2>1. /\ Evaluation!WriteRow(s, "rejected", candidate[t.of].approval)
          /\ receipt' = Evaluation!CancelPending(t.of, t.version, NoReceipt)
      BY <1>6 DEF Evaluation!RejectCandidate
    <2>2. NoReceipt \notin Receipts /\ "rejected" \in CandidateStates
      BY ReceiptAssumption DEF CandidateStates
    <2>3. QED
      BY <1>2, <1>4, <2>1, <2>2, CancelStep, WriteStep
  <1>7. CASE Evaluation!PromoteCandidate(s) \/ Evaluation!RollbackCandidate(s)
    <2>1. PICK to \in {"promoted", "rolled_back"} :
              Evaluation!WriteRow(s, to, candidate[t.of].approval)
      BY <1>7 DEF Evaluation!PromoteCandidate, Evaluation!RollbackCandidate
    <2>2. receipt' = receipt /\ t.op \in {"promote", "rollback"}
      BY <1>7 DEF Evaluation!PromoteCandidate, Evaluation!RollbackCandidate
    <2>3. candidate[t.of].state # "proposed"
      BY <1>3, <2>2, OperationSources DEF SessionHolds
    <2>4. \A r \in Receipts : receipt[r].status = "pending" => receipt[r].args[1] # t.of
      BY <2>3 DEF CandidateInv, PendingInv
    <2>5. ApprovalsKept /\ receipt' \in [Receipts -> ReceiptRows \cup {Evaluation!NoRequest}]
      BY <2>2 DEF ApprovalsKept, CandidateInv, CandidateTypes
    <2>6. to \in CandidateStates
      BY DEF CandidateStates
    <2>7. QED
      BY <1>2, <1>4, <2>1, <2>2, <2>4, <2>5, <2>6, WriteStep
  <1>8. QED
    BY <1>5, <1>6, <1>7

LEMMA CandidateNextStep == ASSUME CandidateInv, Evaluation!CandidateNext PROVE CandidateInv'
  <1>1. ASSUME NEW s \in Sessions, NEW c \in Proposals, NEW v \in 1 .. 3,
               \/ \E op \in {"request", "promote", "reject", "rollback"} :
                      Evaluation!ReadRow(s, op, c, v, NoReceipt)
               \/ \E r \in Receipts : Evaluation!ReadRow(s, "approve", c, v, r)
        PROVE  CandidateInv'
    <2>1. CASE \E op \in {"request", "promote", "reject", "rollback"} :
                   Evaluation!ReadRow(s, op, c, v, NoReceipt)
      <3>1. PICK op \in {"request", "promote", "reject", "rollback"} :
                   Evaluation!ReadRow(s, op, c, v, NoReceipt)
        BY <2>1
      <3>2. op \in Operations /\ op # "approve" /\ NoReceipt \in Approvals /\ v \in Nat
        BY DEF Operations, Approvals
      <3>3. QED
        BY <3>1, <3>2, ReadRowStep
    <2>2. CASE \E r \in Receipts : Evaluation!ReadRow(s, "approve", c, v, r)
      <3>1. PICK r \in Receipts : Evaluation!ReadRow(s, "approve", c, v, r)
        BY <2>2
      <3>2. "approve" \in Operations /\ r \in Approvals /\ v \in Nat
        BY DEF Operations, Approvals
      <3>3. QED
        BY <3>1, <3>2, ReadRowStep
    <2>3. QED
      BY <1>1, <2>1, <2>2
  <1>2. ASSUME Evaluation!CandidateTick
        PROVE  CandidateInv'
    <2>1. candClock' = candClock + 1 /\ UNCHANGED <<candidate, receipt, candEvents, session>>
      BY <1>2 DEF Evaluation!CandidateTick
    <2>2. CandidateTypes'
      BY <2>1 DEF CandidateInv, CandidateTypes
    <2>3. QED
      BY <2>1, <2>2 DEF CandidateInv, FenceInv, PendingInv, Evaluation!ApprovedByExactReceipt
  <1>3. ASSUME NEW c \in Proposals, NEW pair \in Evaluated \X Evaluated, NEW drift \in BOOLEAN,
               Evaluation!CreateCandidate(c, pair[1], pair[2], drift)
        PROVE  CandidateInv'
    BY <1>3, CreateStep
  <1>4. ASSUME NEW s \in Sessions,
               \/ Evaluation!BeginOperation(s) \/ Evaluation!OperationRefused(s)
               \/ \E r \in Receipts : Evaluation!ReserveReceipt(s, r)
        PROVE  CandidateInv'
    BY <1>4, SessionBeginsOrEnds, ReserveStep
  <1>5. QED
    BY <1>1, <1>2, <1>3, <1>4, WritesStep, DecideStep DEF Evaluation!CandidateNext

LEMMA CandidatePromise ==
    ASSUME CandidateInv
    PROVE  Evaluation!ApprovedByExactReceipt /\ Evaluation!NoReceiptOutlivesTheProposal
  BY DEF CandidateInv, PendingInv, Evaluation!NoReceiptOutlivesTheProposal

-----------------------------------------------------------------------------
(* The server's parts together. *)

ConsentInv == McpInv /\ AccessInv /\ ExportInv /\ ChatInv /\ CandidateInv

LEMMA ConsentRests == ASSUME ConsentInv, UNCHANGED vars PROVE ConsentInv'
  <1>1. /\ UNCHANGED chatPart /\ UNCHANGED mcpPart /\ UNCHANGED proposalsPart
        /\ UNCHANGED exportsPart /\ UNCHANGED accessPart
    BY DEF vars
  <1>2. QED
    BY <1>1, McpRests, AccessPartRests, ExportRests, ChatRests, ProposalsRest DEF ConsentInv

LEMMA ConsentNextStep == ASSUME ConsentInv, Next PROVE ConsentInv'
  <1>1. McpInv'
    BY OnePartActs, RestOf, McpRests, McpNextStep DEF ConsentInv
  <1>2. AccessInv'
    BY OnePartActs, RestOf, AccessPartRests, AccountsNextStep, LimiterNextStep DEF ConsentInv
  <1>3. ExportInv'
    BY OnePartActs, RestOf, ExportRests, ExportNextStep DEF ConsentInv
  <1>4. ChatInv'
    BY OnePartActs, RestOf, ChatRests, ChatNextStep DEF ConsentInv
  <1>5. CandidateInv'
    BY OnePartActs, RestOf, ProposalsRest, CandidateNextStep DEF ConsentInv
  <1>6. QED
    BY <1>1, <1>2, <1>3, <1>4, <1>5 DEF ConsentInv

(* Whichever part acts, an id names one stored tool and a tool keeps the    *)
(* profile and schema it was listed with, an optimizer's session writes     *)
(* only behind the version it read, a grant that was locked is the one that *)
(* was asked for, and a run's tools are decided before its first event      *)
(* (mcp/persistence.py, eval/candidates.py, run_exports.py,                 *)
(* routes/stream.py).                                                       *)
THEOREM ConsentInvariant == Spec => []ConsentInv
  <1>1. Init => ConsentInv
    BY McpStart, AccessStart, ExportStart, ChatStart, ProposalsStart DEF Init, ConsentInv
  <1>2. ConsentInv /\ [Next]_vars => ConsentInv'
    BY ConsentNextStep, ConsentRests
  <1>3. QED
    BY <1>1, <1>2, PTL DEF Spec

(* What is used was agreed to as it is now: an MCP call has the owner's     *)
(* consent to that very schema, a review is the last word on a revision,    *)
(* the effective instructions are endorsed and a scan has read exactly the  *)
(* files its directories reach, a candidate is approved by an exact         *)
(* receipt, an export is read while its grant is good, a run stays within   *)
(* its tools and a caller is who the token says (mcp/,                      *)
(* skills/persistence.py, instructions/loaders.py, eval/candidates.py,      *)
(* run_exports.py, routes/stream.py, db_store.py).                          *)
THEOREM Consent == Spec => []NothingWithoutConsent
  <1>1. ContextInv /\ ConsentInv => NothingWithoutConsent
    <2>1. AccessInv => Access!CallersAreWhoTheySay
      BY DEF AccessInv
    <2>2. ExportInv => Reader!ReadWhileGranted
      BY DEF ExportInv
    <2>3. ChatInv => Chat!RunsStayInTheirTools
      BY DEF ChatInv
    <2>4. QED
      BY <2>1, <2>2, <2>3, SkillPromise, McpPromise, CandidatePromise, InstructionPromise
         DEF ContextInv, ConsentInv, NothingWithoutConsent
  <1>2. QED
    BY <1>1, ContextInvariant, ConsentInvariant, PTL

-----------------------------------------------------------------------------
(* The run ledger. *)

RunRecord(s, u, c, n, d, p, f) ==
    [status |-> s, user |-> u, conv |-> c, next |-> n, completed |-> d, parent |-> p, forkSeq |-> f]

IsRunRecord(x) ==
    \E s \in {"absent", "running", "ended"}, n \in Nat \ {0} : \E u, c, d, p, f :
        x = RunRecord(s, u, c, n, d, p, f)

LEMMA RunFields ==
    ASSUME NEW s, NEW u, NEW c, NEW n, NEW d, NEW p, NEW f, NEW x, x = RunRecord(s, u, c, n, d, p, f)
    PROVE  /\ x.status = s /\ x.user = u /\ x.conv = c /\ x.next = n /\ x.completed = d
           /\ x.parent = p /\ x.forkSeq = f
           /\ s \in {"absent", "running", "ended"} /\ n \in Nat \ {0} => IsRunRecord(x)
  BY DEF RunRecord, IsRunRecord

OfRun(E, r) == {e \in E : e.run = r}

(* The events E have the numbers 1, 2, ... up to n - 1, each once. *)
Numbered(E, n) ==
    /\ IsFiniteSet(E) /\ Cardinality(E) = n - 1
    /\ \A e \in E : e.seq \in 1 .. n - 1
    /\ \A e, f \in E : e.seq = f.seq => e = f
    /\ \A i \in 1 .. n - 1 : \E e \in E : e.seq = i

(* The run has ended with its last event, at that time, or not at all. *)
Ending(E, row) ==
    \A e \in E : /\ e.kind = "run_stopped" <=> row.status = "ended" /\ e.seq = row.next - 1
                 /\ e.kind = "run_stopped" => row.completed = e.at

LedgerRowsInv ==
    /\ runs = [r \in Runs |-> runs[r]]
    /\ \A r \in Runs : /\ IsRunRecord(runs[r])
                       /\ runs[r].status = "absent" => runs[r] = Ledger!Absent

EventsInv ==
    /\ \A e \in events : e.run \in Runs
    /\ \A r \in Runs : Numbered(OfRun(events, r), runs[r].next) /\ Ending(OfRun(events, r), runs[r])

(* A parent is there and has the same owner; a draft leads to a run of its  *)
(* user, who owns the new conversation.                                     *)
HasParent(rs, r) ==
    rs[r].parent # None =>
        /\ rs[r].parent \in Runs /\ rs[rs[r].parent].status # "absent"
        /\ rs[rs[r].parent].user = rs[r].user
DraftHolds(rs, cs, d) ==
    /\ d.run \in Runs /\ rs[d.run].status # "absent" /\ rs[d.run].user = d.user
    /\ OwnerOf[d.target] = d.user /\ d.target \in cs

LineageInv ==
    /\ \A r \in Runs : HasParent(runs, r)
    /\ \A d \in drafts : DraftHolds(runs, convs, d)

(* The run that came of a draft has used up the drafts of its conversation. *)
Spent(row, cs, ds) == row.forkSeq # None => row.conv \in cs /\ \A d \in ds : d.target # row.conv

ForkInv ==
    /\ \A r \in Runs : Spent(runs[r], convs, drafts)
    /\ \A q, r \in Runs :
           q # r /\ runs[q].forkSeq # None /\ runs[r].forkSeq # None => runs[q].conv # runs[r].conv

CheckpointInv ==
    /\ \A k \in checkpoints : k.run \in Runs /\ k.seq \in 1 .. runs[k.run].next - 1
    /\ Ledger!ForksShowThePast

WritersInv ==
    /\ pending = [w \in Writers |-> pending[w]]
    /\ \A w \in Writers : pending[w] = None \/ pending[w].run \in Runs

LedgerInv == LedgerRowsInv /\ EventsInv /\ LineageInv /\ ForkInv /\ CheckpointInv /\ WritersInv

LEMMA NumberedEmpty == Numbered({}, 1)
  BY FS_EmptySet DEF Numbered

LEMMA NumberedGrows ==
    ASSUME NEW E, NEW n \in Nat \ {0}, Numbered(E, n), NEW x, x.seq = n
    PROVE  Numbered(E \cup {x}, n + 1)
  <1>1. x \notin E
    BY DEF Numbered
  <1>2. /\ IsFiniteSet(E \cup {x}) /\ Cardinality(E \cup {x}) = Cardinality(E) + 1
    BY <1>1, FS_AddElement DEF Numbered
  <1>3. Cardinality(E \cup {x}) = (n + 1) - 1
    BY <1>2 DEF Numbered
  <1>4. \A e \in E \cup {x} : e.seq \in 1 .. (n + 1) - 1
    BY DEF Numbered
  <1>5. \A e, f \in E \cup {x} : e.seq = f.seq => e = f
    BY DEF Numbered
  <1>6. \A i \in 1 .. (n + 1) - 1 : \E e \in E \cup {x} : e.seq = i
    <2> TAKE i \in 1 .. (n + 1) - 1
    <2>1. CASE i = n
      BY <2>1
    <2>2. CASE i \in 1 .. n - 1
      BY <2>2 DEF Numbered
    <2>3. QED
      BY <2>1, <2>2
  <1>7. QED
    BY <1>2, <1>3, <1>4, <1>5, <1>6 DEF Numbered

LEMMA AbsentFields ==
    /\ Ledger!Absent = RunRecord("absent", None, None, 1, None, None, None)
    /\ Ledger!Absent.status = "absent" /\ Ledger!Absent.next = 1 /\ Ledger!Absent.parent = None
    /\ Ledger!Absent.forkSeq = None /\ IsRunRecord(Ledger!Absent)
  <1>1. Ledger!Absent = RunRecord("absent", None, None, 1, None, None, None)
    BY DEF Ledger!Absent, RunRecord
  <1>2. QED
    BY <1>1, RunFields

LEMMA LedgerStart == ASSUME Ledger!LedgerInit PROVE LedgerInv
  <1>1. /\ runs = [r \in Runs |-> Ledger!Absent] /\ events = {} /\ checkpoints = {} /\ drafts = {}
        /\ pending = [w \in Writers |-> None]
    BY DEF Ledger!LedgerInit
  <1>2. \A r \in Runs : runs[r] = Ledger!Absent
    BY <1>1
  <1>3. LedgerRowsInv
    BY <1>1, <1>2, AbsentFields DEF LedgerRowsInv
  <1>4. EventsInv
    <2>1. \A r : OfRun(events, r) = {}
      BY <1>1 DEF OfRun
    <2>2. QED
      BY <1>1, <1>2, <2>1, NumberedEmpty, AbsentFields DEF EventsInv, Ending
  <1>5. LineageInv /\ ForkInv
    BY <1>1, <1>2, AbsentFields DEF LineageInv, ForkInv, HasParent, Spent
  <1>6. CheckpointInv
    BY <1>1 DEF CheckpointInv, Ledger!ForksShowThePast
  <1>7. WritersInv
    BY <1>1 DEF WritersInv
  <1>8. QED
    BY <1>3, <1>4, <1>5, <1>6, <1>7 DEF LedgerInv

LEMMA LedgerRests == ASSUME LedgerInv, UNCHANGED ledgerPart PROVE LedgerInv'
  BY DEF ledgerPart, LedgerInv, LedgerRowsInv, EventsInv, LineageInv, ForkInv, CheckpointInv, WritersInv,
         Ledger!ForksShowThePast

TablesInv == LedgerRowsInv /\ EventsInv /\ LineageInv /\ ForkInv /\ CheckpointInv

LEMMA TablesRest ==
    ASSUME TablesInv, UNCHANGED <<runs, events, convs, checkpoints, drafts>> PROVE TablesInv'
  BY DEF TablesInv, LedgerRowsInv, EventsInv, LineageInv, ForkInv, CheckpointInv, Ledger!ForksShowThePast

(* A run is created, alone, as a child or from a draft. *)
LEMMA RunCreated ==
    ASSUME TablesInv, NEW r \in Runs, runs[r].status = "absent",
           NEW u, NEW c, NEW p, NEW f, runs' = [runs EXCEPT ![r] = RunRecord("running", u, c, 1, None, p, f)],
           UNCHANGED <<events, convs, checkpoints>>, drafts' \subseteq drafts,
           p # None => p \in Runs /\ runs[p].status # "absent" /\ runs[p].user = u,
           f # None => c \in convs /\ \E d \in drafts : d.target = c,
           f # None => \A d \in drafts' : d.target # c
    PROVE  TablesInv'
  <1>1. PICK row : row = RunRecord("running", u, c, 1, None, p, f)
    OBVIOUS
  <1>2. /\ row.status = "running" /\ row.user = u /\ row.conv = c /\ row.next = 1
        /\ row.parent = p /\ row.forkSeq = f /\ IsRunRecord(row)
    BY <1>1, RunFields
  <1>3. runs' = [runs EXCEPT ![r] = row] /\ DOMAIN runs = Runs /\ runs = [x \in Runs |-> runs[x]]
    BY <1>1 DEF TablesInv, LedgerRowsInv
  <1>4. runs'[r] = row /\ \A q \in Runs \ {r} : runs'[q] = runs[q]
    BY <1>3
  <1>5. runs[r] = Ledger!Absent /\ runs[r].next = 1
    BY AbsentFields DEF TablesInv, LedgerRowsInv
  <1>6. LedgerRowsInv'
    <2>1. runs' = [x \in Runs |-> runs'[x]]
      BY <1>3
    <2>2. \A q \in Runs : IsRunRecord(runs'[q]) /\ (runs'[q].status = "absent" => runs'[q] = Ledger!Absent)
      BY <1>2, <1>4 DEF TablesInv, LedgerRowsInv
    <2>3. QED
      BY <2>1, <2>2 DEF LedgerRowsInv, Ledger!Absent
  <1>7. EventsInv'
    <2>1. OfRun(events, r) = {}
      <3>1. Numbered(OfRun(events, r), 1)
        BY <1>5 DEF TablesInv, EventsInv
      <3>2. QED
        BY <3>1 DEF Numbered
    <2>2. Numbered(OfRun(events, r), 1) /\ Ending(OfRun(events, r), row)
      BY <2>1, NumberedEmpty DEF Ending
    <2>3. ASSUME NEW q \in Runs
          PROVE  Numbered(OfRun(events, q), runs'[q].next) /\ Ending(OfRun(events, q), runs'[q])
      BY <1>2, <1>4, <2>2 DEF TablesInv, EventsInv
    <2>4. events' = events /\ \A e \in events : e.run \in Runs
      BY DEF TablesInv, EventsInv
    <2>5. QED
      BY <2>3, <2>4 DEF EventsInv
  <1>8. LineageInv'
    <2>1. ASSUME NEW q \in Runs PROVE HasParent(runs', q)
      <3>1. CASE q = r
        BY <1>2, <1>4, <3>1 DEF HasParent
      <3>2. CASE q # r
        BY <1>2, <1>4, <3>2 DEF HasParent, TablesInv, LineageInv
      <3>3. QED
        BY <3>1, <3>2
    <2>2. ASSUME NEW d \in drafts' PROVE DraftHolds(runs', convs, d)
      BY <1>2, <1>4 DEF DraftHolds, TablesInv, LineageInv
    <2>3. QED
      BY <2>1, <2>2 DEF LineageInv
  <1>9. ForkInv'
    <2>1. ASSUME NEW q \in Runs PROVE Spent(runs'[q], convs, drafts')
      BY <1>2, <1>4 DEF Spent, TablesInv, ForkInv
    <2>2. ASSUME NEW q \in Runs, NEW o \in Runs, q # o, runs'[q].forkSeq # None, runs'[o].forkSeq # None
          PROVE  runs'[q].conv # runs'[o].conv
      BY <1>2, <1>4, <2>2 DEF Spent, TablesInv, ForkInv
    <2>3. QED
      BY <2>1, <2>2 DEF ForkInv
  <1>10. CheckpointInv'
    <2>1. \A k \in checkpoints : k.run \in Runs /\ k.seq \in 1 .. runs'[k.run].next - 1
      BY <1>2, <1>4, <1>5 DEF TablesInv, CheckpointInv
    <2>2. QED
      BY <2>1 DEF TablesInv, CheckpointInv, Ledger!ForksShowThePast
  <1>11. QED
    BY <1>6, <1>7, <1>8, <1>9, <1>10 DEF TablesInv

(* An event is appended to a running run, and may end it. *)
LEMMA EventInserted ==
    ASSUME TablesInv, NEW r \in Runs, NEW u, NEW kind, Ledger!Allocates(r, u), Ledger!InsertEvent(r, kind)
    PROVE  TablesInv'
  <1>1. PICK s \in {"absent", "running", "ended"}, n \in Nat \ {0} : \E v, c, d, p, f :
            runs[r] = RunRecord(s, v, c, n, d, p, f)
    BY DEF TablesInv, LedgerRowsInv, IsRunRecord
  <1>2. PICK v, c, d, p, f : runs[r] = RunRecord(s, v, c, n, d, p, f)
    BY <1>1
  <1>3. /\ runs[r].status = s /\ runs[r].user = v /\ runs[r].conv = c /\ runs[r].next = n
        /\ runs[r].completed = d /\ runs[r].parent = p /\ runs[r].forkSeq = f /\ s = "running"
    BY <1>2, RunFields DEF Ledger!Allocates
  <1>4. PICK m \in Nat \ {0} : m = n + 1
    OBVIOUS
  <1>5. [runs[r] EXCEPT !.next = @ + 1] = RunRecord(s, v, c, m, d, p, f)
    BY <1>2, <1>3, <1>4 DEF RunRecord
  <1>6. PICK x : x = [run |-> r, seq |-> n, user |-> v, kind |-> kind, at |-> ledgerClock]
    OBVIOUS
  <1>7. x.run = r /\ x.seq = n /\ x.kind = kind /\ x.at = ledgerClock
    BY <1>6
  <1>8. events' = events \cup {x}
    <2>1. PICK y : y = [runs[r] EXCEPT !.next = @ + 1]
      OBVIOUS
    <2> PICK w : w = RunRecord(s, v, c, m, d, p, f)
      OBVIOUS
    <2> w.next = m /\ w.user = v
      BY RunFields
    <2>2. y.next = m /\ y.user = v
      BY <1>5, <2>1
    <2>3. y.next - 1 = n
      BY <1>4, <2>2
    <2>4. events' = events \cup {[run |-> r, seq |-> y.next - 1, user |-> y.user, kind |-> kind,
                                  at |-> ledgerClock]}
      BY <2>1 DEF Ledger!InsertEvent
    <2>5. QED
      BY <1>6, <2>2, <2>3, <2>4
  <1>9. PICK row : row = IF kind = "run_stopped" THEN RunRecord("ended", v, c, m, ledgerClock, p, f)
                         ELSE RunRecord("running", v, c, m, d, p, f)
    OBVIOUS
  <1>10. runs' = [runs EXCEPT ![r] = row]
    <2>1. PICK y : y = [runs[r] EXCEPT !.next = @ + 1]
      OBVIOUS
    <2>2. y = RunRecord("running", v, c, m, d, p, f)
      BY <1>3, <1>5, <2>1
    <2>3. Ledger!Closed(y) = RunRecord("ended", v, c, m, ledgerClock, p, f)
      <3>1. PICK z : z = [y EXCEPT !.status = "ended"]
        OBVIOUS
      <3>2. z = RunRecord("ended", v, c, m, d, p, f)
        BY <2>2, <3>1 DEF RunRecord
      <3>3. [z EXCEPT !.completed = ledgerClock] = RunRecord("ended", v, c, m, ledgerClock, p, f)
        BY <3>2 DEF RunRecord
      <3>4. QED
        BY <3>1, <3>3 DEF Ledger!Closed
    <2>4. runs' = [runs EXCEPT ![r] = IF kind = "run_stopped" THEN Ledger!Closed(y) ELSE y]
      BY <2>1 DEF Ledger!InsertEvent
    <2>5. QED
      BY <1>9, <2>2, <2>3, <2>4
  <1>11. /\ row.user = v /\ row.conv = c /\ row.next = m /\ row.parent = p /\ row.forkSeq = f
         /\ IsRunRecord(row) /\ row.status # "absent"
    <2>1. CASE kind = "run_stopped"
      BY <1>9, <2>1, RunFields
    <2>2. CASE kind # "run_stopped"
      BY <1>9, <2>2, RunFields
    <2>3. QED
      BY <2>1, <2>2
  <1>12. /\ kind = "run_stopped" <=> row.status = "ended"
         /\ kind = "run_stopped" => row.completed = ledgerClock
    <2>1. CASE kind = "run_stopped"
      BY <1>9, <2>1, RunFields
    <2>2. CASE kind # "run_stopped"
      BY <1>9, <2>2, RunFields
    <2>3. QED
      BY <2>1, <2>2
  <1>13. UNCHANGED <<convs, checkpoints, drafts>>
    BY DEF Ledger!InsertEvent
  <1>14. DOMAIN runs = Runs /\ runs'[r] = row /\ \A q \in Runs \ {r} : runs'[q] = runs[q]
    BY <1>10 DEF TablesInv, LedgerRowsInv
  <1>15. LedgerRowsInv'
    <2>1. runs' = [q \in Runs |-> runs'[q]]
      BY <1>10, <1>14
    <2>2. \A q \in Runs : IsRunRecord(runs'[q]) /\ (runs'[q].status = "absent" => runs'[q] = Ledger!Absent)
      BY <1>11, <1>14 DEF TablesInv, LedgerRowsInv
    <2>3. QED
      BY <2>1, <2>2 DEF LedgerRowsInv, Ledger!Absent
  <1>16. OfRun(events', r) = OfRun(events, r) \cup {x} /\ \A q \in Runs \ {r} : OfRun(events', q) = OfRun(events, q)
    BY <1>7, <1>8 DEF OfRun
  <1>17. PICK E : E = OfRun(events, r)
    OBVIOUS
  <1>18. Numbered(E, n) /\ Ending(E, runs[r])
    BY <1>3, <1>17 DEF TablesInv, EventsInv
  <1>19. Numbered(E \cup {x}, m)
    BY <1>4, <1>7, <1>18, NumberedGrows
  <1>20. Ending(E \cup {x}, row)
    <2>1. ASSUME NEW e \in E PROVE e.kind # "run_stopped" /\ e.seq # row.next - 1
      <3>1. e.kind # "run_stopped"
        BY <1>3, <1>18 DEF Ending
      <3>2. e.seq \in 1 .. n - 1
        BY <1>18 DEF Numbered
      <3>3. QED
        BY <1>4, <1>11, <3>1, <3>2
    <2>2. x.seq = row.next - 1
      BY <1>4, <1>7, <1>11
    <2>3. QED
      BY <1>7, <1>12, <2>1, <2>2 DEF Ending
  <1>21. EventsInv'
    <2>1. ASSUME NEW q \in Runs
          PROVE  Numbered(OfRun(events', q), runs'[q].next) /\ Ending(OfRun(events', q), runs'[q])
      BY <1>11, <1>14, <1>16, <1>17, <1>19, <1>20 DEF TablesInv, EventsInv
    <2>2. \A e \in events' : e.run \in Runs
      BY <1>7, <1>8 DEF TablesInv, EventsInv
    <2>3. QED
      BY <2>1, <2>2 DEF EventsInv
  <1>22. LineageInv'
    <2>1. ASSUME NEW q \in Runs
          PROVE  /\ runs'[q].parent = runs[q].parent /\ runs'[q].user = runs[q].user
                 /\ runs'[q].conv = runs[q].conv /\ runs'[q].forkSeq = runs[q].forkSeq
                 /\ runs[q].status # "absent" => runs'[q].status # "absent"
      BY <1>3, <1>11, <1>14
    <2>2. ASSUME NEW q \in Runs PROVE HasParent(runs', q)
      BY <2>1 DEF HasParent, TablesInv, LineageInv
    <2>3. ASSUME NEW b \in drafts PROVE DraftHolds(runs', convs, b)
      BY <2>1 DEF DraftHolds, TablesInv, LineageInv
    <2>4. QED
      BY <1>13, <2>2, <2>3 DEF LineageInv
  <1>23. ForkInv'
    <2>1. ASSUME NEW q \in Runs
          PROVE  runs'[q].conv = runs[q].conv /\ runs'[q].forkSeq = runs[q].forkSeq
      BY <1>3, <1>11, <1>14
    <2>2. QED
      BY <1>13, <2>1 DEF ForkInv, Spent, TablesInv
  <1>24. CheckpointInv'
    <2>1. ASSUME NEW k \in checkpoints
          PROVE  k.run \in Runs /\ k.seq \in 1 .. runs'[k.run].next - 1 /\ ~(x.run = k.run /\ x.seq = k.seq)
      <3>1. k.run \in Runs /\ k.seq \in 1 .. runs[k.run].next - 1
        BY DEF TablesInv, CheckpointInv
      <3>2. CASE k.run = r
        <4>1. k.seq \in 1 .. n - 1
          BY <1>3, <3>1, <3>2
        <4>2. runs'[k.run].next = m
          BY <1>11, <1>14, <3>2
        <4>3. QED
          BY <1>4, <1>7, <3>1, <4>1, <4>2
      <3>3. CASE k.run # r
        BY <1>7, <1>14, <3>1, <3>3
      <3>4. QED
        BY <3>2, <3>3
    <2>2. Ledger!ForksShowThePast'
      BY <1>8, <1>13, <2>1 DEF TablesInv, CheckpointInv, Ledger!ForksShowThePast
    <2>3. QED
      BY <1>13, <2>1, <2>2 DEF CheckpointInv
  <1>25. QED
    BY <1>15, <1>21, <1>22, <1>23, <1>24 DEF TablesInv

(* A fork adds a checkpoint of its event, the first time, and a draft. *)
LEMMA ForkStep ==
    ASSUME TablesInv, NEW u, NEW e, NEW target, Ledger!Fork(u, e, target)
    PROVE  TablesInv'
  <1>1. /\ e \in events /\ e.run \in Runs /\ runs[e.run].status # "absent" /\ runs[e.run].user = u
        /\ target \notin convs /\ OwnerOf[target] = u /\ convs' = convs \cup {target}
        /\ UNCHANGED <<runs, events>>
    BY DEF Ledger!Fork, Ledger!Present, TablesInv, EventsInv
  <1>2. PICK n : n = runs[e.run].next
    OBVIOUS
  <1>3. PICK E : E = OfRun(events, e.run)
    OBVIOUS
  <1>4. e \in E /\ Numbered(E, n) /\ Ending(E, runs[e.run])
    BY <1>1, <1>2, <1>3 DEF OfRun, TablesInv, EventsInv
  <1>5. e.seq \in 1 .. n - 1 /\ \A f \in events : f.run = e.run /\ f.seq = e.seq => f = e
    BY <1>3, <1>4 DEF Numbered, OfRun
  <1>6. \A t \in Ledger!Snapshot(e) : t <= e.at
    <2>1. Ledger!Cutoff(e) = e.at
      BY <1>4 DEF Ledger!Cutoff, Ending
    <2>2. QED
      BY <2>1 DEF Ledger!Snapshot
  <1>7. PICK d : d = Ledger!ForkDraft(u, e, target)
    OBVIOUS
  <1>8. drafts' = drafts \cup {d} /\ d.user = u /\ d.run = e.run /\ d.target = target
    BY <1>7 DEF Ledger!Fork, Ledger!ForkDraft
  <1>9. LedgerRowsInv' /\ EventsInv'
    BY <1>1 DEF TablesInv, LedgerRowsInv, EventsInv
  <1>10. LineageInv'
    <2>1. ASSUME NEW b \in drafts' PROVE DraftHolds(runs, convs', b)
      <3>1. CASE b = d
        BY <1>1, <1>8, <3>1 DEF DraftHolds
      <3>2. CASE b \in drafts
        BY <1>1, <3>2 DEF DraftHolds, TablesInv, LineageInv
      <3>3. QED
        BY <1>8, <3>1, <3>2
    <2>2. QED
      BY <1>1, <2>1 DEF TablesInv, LineageInv
  <1>11. ForkInv'
    <2>1. ASSUME NEW q \in Runs PROVE Spent(runs[q], convs', drafts')
      BY <1>1, <1>8 DEF Spent, TablesInv, ForkInv
    <2>2. QED
      BY <1>1, <2>1 DEF TablesInv, ForkInv
  <1>12. CheckpointInv'
    <2>1. CASE Ledger!Stored(e) # {}
      <3>1. checkpoints' = checkpoints
        BY <2>1 DEF Ledger!Fork, Ledger!Stored
      <3>2. QED
        BY <1>1, <3>1 DEF TablesInv, CheckpointInv, Ledger!ForksShowThePast
    <2>2. CASE Ledger!Stored(e) = {}
      <3>1. PICK x : x = [run |-> e.run, seq |-> e.seq, snapshot |-> Ledger!Snapshot(e)]
        OBVIOUS
      <3>2. checkpoints' = checkpoints \cup {x} /\ x.run = e.run /\ x.seq = e.seq /\ x.snapshot = Ledger!Snapshot(e)
        BY <2>2, <3>1 DEF Ledger!Fork
      <3>3. \A k \in checkpoints : ~(k.run = x.run /\ k.seq = x.seq)
        BY <2>2, <3>2 DEF Ledger!Stored
      <3>4. \A k, l \in checkpoints' : k.run = l.run /\ k.seq = l.seq => k = l
        BY <3>2, <3>3 DEF TablesInv, CheckpointInv, Ledger!ForksShowThePast
      <3>5. ASSUME NEW k \in checkpoints', NEW f \in events, f.run = k.run /\ f.seq = k.seq
            PROVE  \A t \in k.snapshot : t <= f.at
        <4>1. CASE k = x
          BY <1>5, <1>6, <3>2, <3>5, <4>1
        <4>2. CASE k \in checkpoints
          BY <3>5, <4>2 DEF TablesInv, CheckpointInv, Ledger!ForksShowThePast
        <4>3. QED
          BY <3>2, <4>1, <4>2
      <3>6. \A k \in checkpoints' : k.run \in Runs /\ k.seq \in 1 .. runs[k.run].next - 1
        BY <1>1, <1>2, <1>5, <3>2 DEF TablesInv, CheckpointInv
      <3>7. QED
        BY <1>1, <3>4, <3>5, <3>6 DEF CheckpointInv, Ledger!ForksShowThePast
    <2>3. QED
      BY <2>1, <2>2
  <1>13. QED
    BY <1>9, <1>10, <1>11, <1>12 DEF TablesInv

(* Runs are deleted with their events, checkpoints and drafts. *)
LEMMA DeleteStep == ASSUME TablesInv, NEW gone, Ledger!DeleteRuns(gone) PROVE TablesInv'
  <1>1. /\ \A r \in Runs \ gone : runs[r].parent \notin gone
        /\ runs' = [r \in Runs |-> IF r \in gone THEN Ledger!Absent ELSE runs[r]]
        /\ events' = {e \in events : e.run \notin gone}
        /\ checkpoints' = {k \in checkpoints : k.run \notin gone}
        /\ drafts' = {d \in drafts : d.run \notin gone} /\ UNCHANGED convs
    BY DEF Ledger!DeleteRuns
  <1>2. /\ \A r \in Runs : r \in gone => runs'[r] = Ledger!Absent
        /\ \A r \in Runs : r \notin gone => runs'[r] = runs[r]
    BY <1>1
  <1>3. LedgerRowsInv'
    <2>1. runs' = [q \in Runs |-> runs'[q]]
      BY <1>1
    <2>2. \A q \in Runs : IsRunRecord(runs'[q]) /\ (runs'[q].status = "absent" => runs'[q] = Ledger!Absent)
      BY <1>2, AbsentFields DEF TablesInv, LedgerRowsInv
    <2>3. QED
      BY <2>1, <2>2 DEF LedgerRowsInv, Ledger!Absent
  <1>4. EventsInv'
    <2>1. ASSUME NEW q \in Runs
          PROVE  Numbered(OfRun(events', q), runs'[q].next) /\ Ending(OfRun(events', q), runs'[q])
      <3>1. CASE q \in gone
        <4>1. OfRun(events', q) = {}
          BY <1>1, <3>1 DEF OfRun
        <4>2. QED
          BY <1>2, <3>1, <4>1, NumberedEmpty, AbsentFields DEF Ending
      <3>2. CASE q \notin gone
        <4>1. OfRun(events', q) = OfRun(events, q)
          BY <1>1, <3>2 DEF OfRun
        <4>2. QED
          BY <1>2, <3>2, <4>1 DEF TablesInv, EventsInv
      <3>3. QED
        BY <3>1, <3>2
    <2>2. \A e \in events' : e.run \in Runs
      BY <1>1 DEF TablesInv, EventsInv
    <2>3. QED
      BY <2>1, <2>2 DEF EventsInv
  <1>5. LineageInv'
    <2>1. ASSUME NEW q \in Runs PROVE HasParent(runs', q)
      <3>1. CASE q \in gone
        BY <1>2, <3>1, AbsentFields DEF HasParent
      <3>2. CASE q \notin gone
        BY <1>1, <1>2, <3>2 DEF HasParent, TablesInv, LineageInv
      <3>3. QED
        BY <3>1, <3>2
    <2>2. ASSUME NEW b \in drafts' PROVE DraftHolds(runs', convs, b)
      BY <1>1, <1>2 DEF DraftHolds, TablesInv, LineageInv
    <2>3. QED
      BY <1>1, <2>1, <2>2 DEF LineageInv
  <1>6. ForkInv'
    <2>1. ASSUME NEW q \in Runs, runs'[q].forkSeq # None PROVE runs'[q] = runs[q]
      BY <1>2, <2>1, AbsentFields
    <2>2. ASSUME NEW q \in Runs PROVE Spent(runs'[q], convs, drafts')
      BY <1>1, <2>1 DEF Spent, TablesInv, ForkInv
    <2>3. ASSUME NEW q \in Runs, NEW o \in Runs, q # o, runs'[q].forkSeq # None, runs'[o].forkSeq # None
          PROVE  runs'[q].conv # runs'[o].conv
      <3>1. runs'[q] = runs[q] /\ runs'[o] = runs[o]
        BY <2>1, <2>3
      <3>2. QED
        BY <2>3, <3>1 DEF TablesInv, ForkInv
    <2>4. QED
      BY <1>1, <2>2, <2>3 DEF ForkInv
  <1>7. CheckpointInv'
    <2>1. \A k \in checkpoints' : k.run \in Runs /\ k.seq \in 1 .. runs'[k.run].next - 1
      BY <1>1, <1>2 DEF TablesInv, CheckpointInv
    <2>2. Ledger!ForksShowThePast'
      BY <1>1 DEF TablesInv, CheckpointInv, Ledger!ForksShowThePast
    <2>3. QED
      BY <2>1, <2>2 DEF CheckpointInv
  <1>8. QED
    BY <1>3, <1>4, <1>5, <1>6, <1>7 DEF TablesInv

LEMMA BeginAppendStep ==
    ASSUME TablesInv, NEW w, NEW r \in Runs, NEW u, NEW c, Ledger!BeginAppend(w, r, u, c)
    PROVE  TablesInv'
  <1>1. c \in convs /\ OwnerOf[c] = u /\ Ledger!EnsureRun(r, u, c)
    BY DEF Ledger!BeginAppend
  <1>2. CASE Ledger!Present(r)
    <2>1. UNCHANGED <<runs, events, convs, checkpoints, drafts>>
      BY <1>1, <1>2 DEF Ledger!EnsureRun, Ledger!ledgerRows
    <2>2. QED
      BY <2>1, TablesRest
  <1>3. CASE ~Ledger!Present(r)
    <2>1. PICK found : found = Ledger!DraftFor(u, c)
      OBVIOUS
    <2>2. /\ runs' = [runs EXCEPT ![r] = Ledger!Lineage(Ledger!NewRun(u, c), found)]
          /\ drafts' = drafts \ found /\ UNCHANGED <<events, convs, checkpoints>>
      BY <1>1, <1>3, <2>1 DEF Ledger!EnsureRun
    <2>3. \A d \in drafts' : d.target # c
      BY <1>1, <2>1, <2>2 DEF Ledger!DraftFor, TablesInv, LineageInv, DraftHolds
    <2>4. PICK new : new = Ledger!NewRun(u, c)
      OBVIOUS
    <2>5. new = RunRecord("running", u, c, 1, None, None, None)
      <3>1. PICK x : x = [Ledger!Absent EXCEPT !.status = "running"]
        OBVIOUS
      <3>2. x = RunRecord("running", None, None, 1, None, None, None)
        BY <3>1, AbsentFields DEF RunRecord
      <3>3. PICK y : y = [x EXCEPT !.user = u]
        OBVIOUS
      <3>4. y = RunRecord("running", u, None, 1, None, None, None)
        BY <3>2, <3>3 DEF RunRecord
      <3>5. [y EXCEPT !.conv = c] = RunRecord("running", u, c, 1, None, None, None)
        BY <3>4 DEF RunRecord
      <3>6. QED
        BY <2>4, <3>1, <3>3, <3>5 DEF Ledger!NewRun
    <2>6. CASE found = {}
      <3>1. Ledger!Lineage(new, found) = RunRecord("running", u, c, 1, None, None, None)
        BY <2>5, <2>6 DEF Ledger!Lineage
      <3>2. runs' = [runs EXCEPT ![r] = RunRecord("running", u, c, 1, None, None, None)]
        BY <2>2, <2>4, <3>1
      <3>3. /\ UNCHANGED <<events, convs, checkpoints>> /\ drafts' \subseteq drafts
            /\ runs[r].status = "absent"
        BY <1>3, <2>2 DEF Ledger!Present
      <3>4. QED
        BY <3>2, <3>3, RunCreated
    <2>7. CASE found # {}
      <3>1. PICK d \in found : d = CHOOSE b \in found : TRUE
        BY <2>7
      <3>2. /\ d \in drafts /\ d.user = u /\ d.target = c
            /\ d.run \in Runs /\ runs[d.run].status # "absent" /\ runs[d.run].user = u
        BY <2>1, <3>1 DEF Ledger!DraftFor, TablesInv, LineageInv, DraftHolds
      <3>3. PICK x : x = [new EXCEPT !.parent = d.run]
        OBVIOUS
      <3>4. x = RunRecord("running", u, c, 1, None, d.run, None)
        BY <2>5, <3>3 DEF RunRecord
      <3>5. [x EXCEPT !.forkSeq = d.seq] = RunRecord("running", u, c, 1, None, d.run, d.seq)
        BY <3>4 DEF RunRecord
      <3>6. Ledger!Lineage(new, found) = RunRecord("running", u, c, 1, None, d.run, d.seq)
        BY <2>7, <3>1, <3>3, <3>5 DEF Ledger!Lineage
      <3>7. runs' = [runs EXCEPT ![r] = RunRecord("running", u, c, 1, None, d.run, d.seq)]
        BY <2>2, <2>4, <3>6
      <3>8. drafts' \subseteq drafts /\ UNCHANGED <<events, convs, checkpoints>>
        BY <2>2
      <3>9. runs[r].status = "absent"
        BY <1>3 DEF Ledger!Present
      <3>10. PICK p : p = d.run
        OBVIOUS
      <3>11. PICK f : f = d.seq
        OBVIOUS
      <3>12. /\ p \in Runs /\ runs[p].status # "absent" /\ runs[p].user = u
             /\ \E b \in drafts : b.target = c
             /\ runs' = [runs EXCEPT ![r] = RunRecord("running", u, c, 1, None, p, f)]
        BY <3>2, <3>7, <3>10, <3>11
      <3>13. QED
        BY <1>1, <2>3, <3>8, <3>9, <3>12, RunCreated
    <2>8. QED
      BY <2>6, <2>7
  <1>4. QED
    BY <1>2, <1>3

LEMMA ChildStep ==
    ASSUME TablesInv, NEW r \in Runs, NEW parent \in Runs, NEW u, Ledger!EnsureChildRun(r, parent, u)
    PROVE  TablesInv'
  <1>1. PICK c : c = runs[parent].conv
    OBVIOUS
  <1>2. PICK x : x = [Ledger!Absent EXCEPT !.status = "running"]
    OBVIOUS
  <1>3. x = RunRecord("running", None, None, 1, None, None, None)
    BY <1>2, AbsentFields DEF RunRecord
  <1>4. PICK y : y = [x EXCEPT !.user = u]
    OBVIOUS
  <1>5. y = RunRecord("running", u, None, 1, None, None, None)
    BY <1>3, <1>4 DEF RunRecord
  <1>6. PICK z : z = [y EXCEPT !.conv = c]
    OBVIOUS
  <1>7. z = RunRecord("running", u, c, 1, None, None, None)
    BY <1>5, <1>6 DEF RunRecord
  <1>8. [z EXCEPT !.parent = parent] = RunRecord("running", u, c, 1, None, parent, None)
    BY <1>7 DEF RunRecord
  <1>9. runs' = [runs EXCEPT ![r] = RunRecord("running", u, c, 1, None, parent, None)]
    BY <1>1, <1>2, <1>4, <1>6, <1>8 DEF Ledger!EnsureChildRun, Ledger!NewRun
  <1>10. /\ runs[parent].status # "absent" /\ runs[parent].user = u /\ runs[r].status = "absent"
         /\ UNCHANGED <<events, convs, checkpoints>> /\ drafts' \subseteq drafts
    BY DEF Ledger!EnsureChildRun, Ledger!Present
  <1>11. QED
    BY <1>9, <1>10, RunCreated

LEMMA LedgerNextStep == ASSUME LedgerInv, Ledger!LedgerNext PROVE LedgerInv'
  <1>1. TablesInv /\ WritersInv /\ DOMAIN pending = Writers
    BY DEF LedgerInv, TablesInv, WritersInv
  <1>2. ASSUME TablesInv', WritersInv' PROVE LedgerInv'
    BY <1>2 DEF LedgerInv, TablesInv
  <1>3. ASSUME UNCHANGED pending PROVE WritersInv'
    BY <1>1, <1>3 DEF WritersInv
  <1>4. ASSUME NEW w \in Writers, pending' = [pending EXCEPT ![w] = None] PROVE WritersInv'
    BY <1>1, <1>4 DEF WritersInv
  <1>5. ASSUME NEW w \in Writers, NEW r \in Runs, NEW u \in Users, NEW c \in Convs, Ledger!BeginAppend(w, r, u, c)
        PROVE  LedgerInv'
    <2>1. PICK p : p = [run |-> r, user |-> u]
      OBVIOUS
    <2>2. pending' = [pending EXCEPT ![w] = p] /\ p.run \in Runs
      BY <1>5, <2>1 DEF Ledger!BeginAppend
    <2>3. WritersInv'
      BY <1>1, <2>2 DEF WritersInv
    <2>4. QED
      BY <1>1, <1>2, <1>5, <2>3, BeginAppendStep
  <1>6. ASSUME NEW w \in Writers, NEW kind \in Ledger!Kinds, Ledger!FinishAppend(w, kind) PROVE LedgerInv'
    <2>1. PICK p : p = pending[w]
      OBVIOUS
    <2>2. p # None /\ p.run \in Runs
      BY <1>1, <1>6, <2>1 DEF Ledger!FinishAppend, WritersInv
    <2>3. Ledger!Allocates(p.run, p.user) /\ Ledger!InsertEvent(p.run, kind)
      BY <1>6, <2>1 DEF Ledger!FinishAppend
    <2>4. TablesInv'
      BY <1>1, <2>2, <2>3, EventInserted
    <2>5. WritersInv'
      BY <1>4, <1>6 DEF Ledger!FinishAppend
    <2>6. QED
      BY <1>2, <2>4, <2>5
  <1>7. ASSUME NEW w \in Writers, Ledger!RefuseAppend(w) PROVE LedgerInv'
    <2>1. UNCHANGED <<runs, events, convs, checkpoints, drafts>> /\ pending' = [pending EXCEPT ![w] = None]
      BY <1>7 DEF Ledger!RefuseAppend, Ledger!ledgerRows
    <2>2. QED
      BY <1>1, <1>2, <1>4, <2>1, TablesRest
  <1>8. ASSUME NEW r \in Runs, NEW parent \in Runs, NEW u \in Users, Ledger!EnsureChildRun(r, parent, u)
        PROVE  LedgerInv'
    BY <1>1, <1>2, <1>3, <1>8, ChildStep DEF Ledger!EnsureChildRun
  <1>9. ASSUME NEW u \in Users, NEW e \in events, NEW target \in Convs, Ledger!Fork(u, e, target) PROVE LedgerInv'
    <2>1. UNCHANGED pending
      BY <1>9 DEF Ledger!Fork
    <2>2. QED
      BY <1>1, <1>2, <1>3, <1>9, <2>1, ForkStep
  <1>10. ASSUME NEW gone, Ledger!DeleteRuns(gone) PROVE LedgerInv'
    <2>1. UNCHANGED pending
      BY <1>10 DEF Ledger!DeleteRuns
    <2>2. QED
      BY <1>1, <1>2, <1>3, <1>10, <2>1, DeleteStep
  <1>11. ASSUME (\E u \in Users : Ledger!PruneCompleted(u)) \/ Ledger!PruneToBudget
         PROVE  \E gone : Ledger!DeleteRuns(gone)
    BY <1>11 DEF Ledger!PruneCompleted, Ledger!PruneToBudget
  <1>12. ASSUME (\E c \in Convs : Ledger!AddMessage(c)) \/ Ledger!LedgerTick PROVE LedgerInv'
    <2>1. UNCHANGED <<runs, events, convs, checkpoints, drafts>> /\ UNCHANGED pending
      BY <1>12 DEF Ledger!AddMessage, Ledger!LedgerTick, Ledger!ledgerRows
    <2>2. QED
      BY <1>1, <1>2, <1>3, <2>1, TablesRest
  <1>13. QED
    BY <1>5, <1>6, <1>7, <1>8, <1>9, <1>10, <1>11, <1>12 DEF Ledger!LedgerNext

LEMMA LedgerCardinality == ASSUME NEW S PROVE Ledger!Cardinality(S) = Cardinality(S)
  BY DEF Ledger!Cardinality, Cardinality

LEMMA LedgerPromise ==
    ASSUME LedgerInv
    PROVE  /\ Ledger!DenseSequences /\ Ledger!TerminalEventIsLast /\ Ledger!LineageResolves
           /\ Ledger!ForksShowThePast
  <1>1. \A r : Ledger!EventsOf(r) = OfRun(events, r)
    BY DEF Ledger!EventsOf, OfRun
  <1>2. Ledger!DenseSequences
    <2>1. ASSUME NEW r \in Runs
          PROVE  /\ {e.seq : e \in Ledger!EventsOf(r)} = 1 .. runs[r].next - 1
                 /\ Ledger!Cardinality(Ledger!EventsOf(r)) = runs[r].next - 1
      <3>1. PICK E : E = OfRun(events, r)
        OBVIOUS
      <3>2. Numbered(E, runs[r].next)
        BY <3>1 DEF LedgerInv, EventsInv
      <3>3. {e.seq : e \in E} = 1 .. runs[r].next - 1
        BY <3>2 DEF Numbered
      <3>4. QED
        BY <1>1, <3>1, <3>2, <3>3, LedgerCardinality DEF Numbered
    <2>2. QED
      BY <2>1 DEF Ledger!DenseSequences
  <1>3. Ledger!TerminalEventIsLast
    BY <1>1 DEF LedgerInv, EventsInv, Ending, Ledger!TerminalEventIsLast, Ledger!Terminal
  <1>4. Ledger!LineageResolves
    BY DEF LedgerInv, LineageInv, ForkInv, HasParent, DraftHolds, Ledger!LineageResolves, Ledger!Present
  <1>5. QED
    BY <1>2, <1>3, <1>4 DEF LedgerInv, CheckpointInv

-----------------------------------------------------------------------------
(* The end of a chat request. *)

(* A run has a task from its routing on, which lives while the request does *)
(* or is awaited, and an approval waits only on such a stream.              *)
CloseInv ==
    /\ runTask \in {"none", "running", "cancelling", "ended", "raised"}
    /\ chat.pc \in {"idle", "scope", "refused", "ensure", "route"} => runTask = "none"
    /\ runTask = "none" => chat.pc \in {"idle", "scope", "refused", "ensure", "route", "failed"}
    /\ runTask \in {"running", "cancelling"} => chat.pc \in {"run", "closing"}
    /\ runTask \in {"ended", "raised"} => runRow = "ended" \/ "terminal" \in lostWrites
    /\ pendingAsk => /\ runTask # "none" /\ chat.transport = "stream"
                     /\ \/ chat.pc \in {"run", "closing"}
                        \/ chat.pc \in {"left", "failed"} /\ "approvals" \in lostWrites

LEMMA CloseStart == ASSUME Chat!ChatInit PROVE CloseInv
  BY DEF Chat!ChatInit, Chat!NoChat, CloseInv

LEMMA CloseRests == ASSUME CloseInv, UNCHANGED chatPart PROVE CloseInv'
  BY DEF CloseInv, chatPart

LEMMA CloseNextStep == ASSUME ChatInv, CloseInv, Chat!ChatNext PROVE CloseInv'
  <1>1. ASSUME NEW transport \in {"sync", "stream"}, NEW image, NEW refused,
               Chat!Admit(transport, image, refused)
        PROVE  CloseInv'
    <2>1. PICK pc \in {"refused", "scope"} : chat' = [chat EXCEPT !.transport = transport, !.pc = pc]
      BY <1>1 DEF Chat!Admit
    <2>2. chat.pc = "idle" /\ UNCHANGED <<runTask, runRow, pendingAsk, lostWrites>>
      BY <1>1 DEF Chat!Admit
    <2>3. chat'.pc = pc
      BY <2>1 DEF ChatInv, ChatStates
    <2>4. QED
      BY <2>2, <2>3 DEF CloseInv
  <1>2. ASSUME NEW equipped, NEW disabled, NEW denied, Chat!PrepareTools(equipped, disabled, denied)
        PROVE  CloseInv'
    <2>1. /\ chat.pc = "scope" /\ UNCHANGED <<runTask, runRow, pendingAsk, lostWrites>>
          /\ chat' = [chat EXCEPT !.pc = "ensure", !.equipped = equipped, !.disabled = disabled,
                                  !.denied = denied]
      BY <1>2 DEF Chat!PrepareTools
    <2>2. chat'.pc = "ensure"
      BY <2>1 DEF ChatInv, ChatStates
    <2>3. QED
      BY <2>1, <2>2 DEF CloseInv
  <1>3. CASE Chat!EnsureRunRow \/ Chat!FailBeforeRun
    <2>1. PICK pc \in {"route", "failed"} : chat' = [chat EXCEPT !.pc = pc]
      BY <1>3 DEF Chat!EnsureRunRow, Chat!FailBeforeRun, Chat!ChatMoves
    <2>2. chat.pc \in {"ensure", "route"} /\ UNCHANGED <<runTask, pendingAsk, lostWrites>>
      BY <1>3 DEF Chat!EnsureRunRow, Chat!FailBeforeRun, Chat!ChatMoves
    <2>3. chat'.pc = pc
      BY <2>1 DEF ChatInv, ChatStates
    <2>4. QED
      BY <2>2, <2>3 DEF CloseInv
  <1>4. ASSUME NEW mode, Chat!RouteRequest(mode)
        PROVE  CloseInv'
    <2>1. /\ chat.pc = "route" /\ chat' = [chat EXCEPT !.pc = "run", !.mode = mode]
          /\ runTask' = "running" /\ UNCHANGED pendingAsk
      BY <1>4 DEF Chat!RouteRequest
    <2>2. chat'.pc = "run"
      BY <2>1 DEF ChatInv, ChatStates
    <2>3. QED
      BY <2>1, <2>2 DEF CloseInv
  <1>5. ASSUME NEW tool, Chat!RunCalls(tool)
        PROVE  CloseInv'
    <2>1. /\ runTask = "running" /\ UNCHANGED <<chat, runTask, runRow, lostWrites>>
          /\ pendingAsk' => chat.transport = "stream"
      BY <1>5 DEF Chat!RunCalls
    <2>2. QED
      BY <2>1 DEF CloseInv
  <1>6. CASE \/ \E kind \in {"iteration", "response", "delta"} : Chat!RunEmits(kind)
             \/ Chat!OwnerDecides \/ Chat!ForwardEvent \/ Chat!SaveArtifact \/ Chat!TerminalLate
    <2>1. /\ UNCHANGED <<chat, runTask, lostWrites>> /\ runRow' \in {runRow, "ended"}
          /\ (pendingAsk' => pendingAsk)
      BY <1>6 DEF Chat!RunEmits, Chat!OwnerDecides, Chat!ForwardEvent, Chat!SaveArtifact, Chat!TerminalLate
    <2>2. QED
      BY <2>1 DEF CloseInv
  <1>7. CASE \/ \E written \in BOOLEAN : Chat!CancelledRunEnds(written)
             \/ \E answer \in ChatAnswers, written \in BOOLEAN : Chat!RunEnds(answer, written)
             \/ Chat!RunRaises
    <2>1. /\ runTask \in {"running", "cancelling"} /\ runTask' \in {"ended", "raised"}
          /\ UNCHANGED <<chat, pendingAsk>>
          /\ runRow' = "ended" \/ "terminal" \in lostWrites'
      BY <1>7 DEF Chat!CancelledRunEnds, Chat!RunEnds, Chat!RunRaises, Chat!PersistTerminal
    <2>2. QED
      BY <2>1 DEF CloseInv
  <1>8. CASE Chat!ClientLeaves
    <2>1. /\ chat.pc = "run" /\ chat.transport = "stream" /\ chat' = [chat EXCEPT !.pc = "closing"]
          /\ runTask' = (IF runTask = "running" THEN "cancelling" ELSE runTask)
          /\ UNCHANGED <<runRow, pendingAsk, lostWrites>>
      BY <1>8 DEF Chat!ClientLeaves, Chat!Streaming
    <2>2. chat'.pc = "closing" /\ chat'.transport = "stream"
      BY <2>1 DEF ChatInv, ChatStates
    <2>3. QED
      BY <2>1, <2>2 DEF CloseInv
  <1>9. ASSUME NEW cleared \in BOOLEAN, Chat!LoopEnds(cleared) \/ Chat!CleanUp(cleared)
        PROVE  CloseInv'
    <2>1. /\ runTask \in {"ended", "raised"} /\ UNCHANGED <<runTask, runRow>>
          /\ pendingAsk' = (pendingAsk /\ ~cleared)
          /\ lostWrites' = IF cleared THEN lostWrites ELSE lostWrites \cup {"approvals"}
      BY <1>9 DEF Chat!LoopEnds, Chat!CleanUp, Chat!Drained, Chat!TaskAwaited, Chat!TaskDone,
                  Chat!CancelApprovals
    <2>2. PICK pc \in {"artifacts", "left", "failed"} :
              /\ chat' = [chat EXCEPT !.pc = pc]
              /\ pc = "artifacts" => cleared
      BY <1>9 DEF Chat!LoopEnds, Chat!CleanUp
    <2>3. chat'.pc = pc /\ chat'.transport = chat.transport
      BY <2>2 DEF ChatInv, ChatStates
    <2>4. pendingAsk' => pendingAsk /\ "approvals" \in lostWrites' /\ pc # "artifacts"
      BY <2>1, <2>2
    <2>5. "terminal" \in lostWrites => "terminal" \in lostWrites'
      BY <2>1
    <2>6. QED
      BY <2>1, <2>3, <2>4, <2>5 DEF CloseInv
  <1>10. CASE \/ \E budget \in BOOLEAN : Chat!FinishStream(budget) \/ Chat!FinalizeSync(budget)
              \/ Chat!AnswerSync \/ Chat!SyncFails \/ \E pc \in {"left", "failed"} : Chat!LeaveLate(pc)
    <2>1. /\ \/ chat.pc = "artifacts"
             \/ chat.pc = "run" /\ chat.transport = "sync" /\ runTask \in {"ended", "raised"}
          /\ UNCHANGED <<runTask, runRow, pendingAsk, lostWrites>>
      BY <1>10 DEF Chat!FinishStream, Chat!FinalizeSync, Chat!AnswerSync, Chat!SyncFails, Chat!LeaveLate,
                   Chat!ChatMoves, Chat!TaskDone
    <2>2. PICK pc \in {"artifacts", "left", "done", "failed"} : chat' = [chat EXCEPT !.pc = pc]
      BY <1>10 DEF Chat!FinishStream, Chat!FinalizeSync, Chat!AnswerSync, Chat!SyncFails, Chat!LeaveLate,
                   Chat!ChatMoves
    <2>3. chat'.pc = pc
      BY <2>2 DEF ChatInv, ChatStates
    <2>4. runTask \in {"ended", "raised"} /\ ~pendingAsk
      BY <2>1 DEF CloseInv
    <2>5. QED
      BY <2>1, <2>3, <2>4 DEF CloseInv
  <1>11. CASE Chat!CancelledRunRaises
    <2>1. /\ runTask = "cancelling" /\ runTask' = "raised" /\ chat' = [chat EXCEPT !.pc = "left"]
          /\ "terminal" \in lostWrites' /\ "approvals" \in lostWrites' /\ UNCHANGED <<runRow, pendingAsk>>
      BY <1>11 DEF Chat!CancelledRunRaises
    <2>2. chat'.pc = "left" /\ chat'.transport = chat.transport
      BY <2>1 DEF ChatInv, ChatStates
    <2>3. QED
      BY <2>1, <2>2 DEF CloseInv
  <1>12. QED
    BY <1>1, <1>2, <1>3, <1>4, <1>5, <1>6, <1>7, <1>8, <1>9, <1>10, <1>11 DEF Chat!ChatNext

LEMMA ClosePromise == ASSUME CloseInv PROVE Chat!ClosedRequestsLeaveNothing
  BY DEF CloseInv, Chat!ClosedRequestsLeaveNothing

-----------------------------------------------------------------------------
(* The records of a run: its ledger and the end of its request. *)

RecordInv == LedgerInv /\ CloseInv

LEMMA RecordRests == ASSUME RecordInv, UNCHANGED vars PROVE RecordInv'
  <1>1. UNCHANGED ledgerPart /\ UNCHANGED chatPart
    BY DEF vars
  <1>2. QED
    BY <1>1, LedgerRests, CloseRests DEF RecordInv

LEMMA RecordNextStep == ASSUME RecordInv, ConsentInv, Next PROVE RecordInv'
  <1>1. LedgerInv'
    BY OnePartActs, RestOf, LedgerRests, LedgerNextStep DEF RecordInv
  <1>2. CloseInv'
    BY OnePartActs, RestOf, CloseRests, CloseNextStep DEF RecordInv, ConsentInv
  <1>3. QED
    BY <1>1, <1>2 DEF RecordInv

(* Whichever part acts, the events of a run fill the numbers below its next *)
(* one, a terminal event is the last of a run that has ended and carries    *)
(* its time, a checkpoint is of an event that is stored, a child and a fork *)
(* being written name a stored run, and no two forks share a conversation;  *)
(* a run's task lives only while its request does or awaits it              *)
(* (run_ledger.py, routes/stream.py).                                       *)
THEOREM RecordInvariant == Spec => []RecordInv
  <1>1. Init => RecordInv
    BY LedgerStart, ChatStart, CloseStart DEF Init, RecordInv
  <1>2. RecordInv /\ ConsentInv /\ [Next]_vars => RecordInv'
    BY RecordNextStep, RecordRests
  <1>3. QED
    BY <1>1, <1>2, ConsentInvariant, PTL DEF Spec

(* The record of a run is whole, although writers append, fork and prune    *)
(* concurrently: its sequence numbers are dense, nothing follows the        *)
(* terminal event, lineage resolves and a fork shows the past it was taken  *)
(* from; and a chat request that is over leaves no task, no pending         *)
(* approval and no running row of a run it had started (append(), fork()    *)
(* and prune() of run_ledger.py, the finally of event_stream()).            *)
THEOREM RunRecords ==
    Spec => [](/\ Ledger!DenseSequences /\ Ledger!TerminalEventIsLast
               /\ Ledger!LineageResolves /\ Ledger!ForksShowThePast
               /\ Chat!ClosedRequestsLeaveNothing)
  <1>1. RecordInv => /\ Ledger!DenseSequences /\ Ledger!TerminalEventIsLast
                     /\ Ledger!LineageResolves /\ Ledger!ForksShowThePast
                     /\ Chat!ClosedRequestsLeaveNothing
    BY LedgerPromise, ClosePromise DEF RecordInv
  <1>2. QED
    BY <1>1, RecordInvariant, PTL
=============================================================================
