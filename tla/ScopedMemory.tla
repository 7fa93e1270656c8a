------------------------------ MODULE ScopedMemory ------------------------------
(***************************************************************************)
(* Encrypted memory facts and the rotation of their keys (memory/          *)
(* scoped.py, memory/keys.py, services/key_rotation.py, tools/             *)
(* memory_tools.py, routes/memory.py).  Every mutation is a transaction    *)
(* that first takes the row of the global key state, then the row of its   *)
(* scope, and so is one step.  Several processes run with keyrings of      *)
(* their own.  A content is the set of its words; its length is their      *)
(* number.                                                                 *)
(***************************************************************************)
EXTENDS Integers, Sequences, FiniteSets, FiniteSetsExt

CONSTANTS
    MemProcesses,   \* processes of the service
    MemScopes,      \* (user, project) pairs
    Contents,       \* what may be stored
    KeyVersions,    \* versions a keyring may hold
    FactIds,        \* identities of facts, in the order of creation
    MaxChars,       \* max_chars
    BatchSize,      \* batch_size of a rotation
    MaxStarts       \* bound on the starts of processes

VARIABLES
    keyState,       \* MemoryKeyStateRow: [active, generation]; active 0: no row
    ring,           \* [MemProcesses -> [pc, active, keys]]
    facts,          \* [FactIds -> MemoryFactRow or NoFact]
    charsUsed,      \* [MemScopes -> MemoryScopeRow.chars_used]
    retired,        \* versions assert_key_retirable() let go, each with the active one
    rotated,        \* [MemScopes -> the version a rotation reported complete, or 0]
    starts

memoryVars == <<keyState, ring, facts, charsUsed, retired, rotated, starts>>

NoFact == [scope |-> "none", content |-> {}, version |-> 0]
Down == [pc |-> "down", active |-> 0, keys |-> {}]

MemoryInit ==
    /\ keyState = [active |-> 0, generation |-> 0]
    /\ ring = [p \in MemProcesses |-> Down]
    /\ facts = [i \in FactIds |-> NoFact]
    /\ charsUsed = [s \in MemScopes |-> 0]
    /\ retired = {} /\ rotated = [s \in MemScopes |-> 0] /\ starts = 0

Facts(s) == {i \in FactIds : facts[i].scope = s}
Chars(fs) == MapThenSumSet(LAMBDA i : Cardinality(facts[i].content), fs)

(* _version_counts() *)
VersionsInUse == {facts[i].version : i \in FactIds} \ {0}

(* MemoryKeyring.__post_init__(): the active key is one of the keys. *)
Keyrings == {[active |-> v, keys |-> K] : v \in KeyVersions, K \in SUBSET KeyVersions}
ValidRing(r) == r.active \in r.keys

(* The rule of activate_key_version(): forward only, and only by a process  *)
(* that has the key it replaces.                                            *)
MayActivate(r) ==
    \/ keyState.active \in {0, r.active}
    \/ r.active > keyState.active /\ keyState.active \in r.keys

(* Start-up, its first transaction: the generation is published. *)
ActivateKeyVersion(p) ==
    /\ ring[p].pc = "down" /\ starts < MaxStarts
    /\ \E r \in Keyrings :
           /\ ValidRing(r) /\ MayActivate(r)
           /\ ring' = [ring EXCEPT ![p] = [pc |-> "validate", active |-> r.active, keys |-> r.keys]]
           /\ keyState' = IF keyState.active = r.active THEN keyState
                          ELSE [active |-> r.active, generation |-> keyState.generation + 1]
    /\ starts' = starts + 1
    /\ UNCHANGED <<facts, charsUsed, retired, rotated>>

(* Every version in use has its key. *)
KnowsVersions(p) == VersionsInUse \subseteq ring[p].keys

(* Start-up, its second transaction: a process that lacks a key ends, and   *)
(* leaves the generation it published behind.                               *)
ValidateKeyVersions(p) ==
    /\ ring[p].pc = "validate"
    /\ ring' = [ring EXCEPT ![p] = IF KnowsVersions(p) THEN [@ EXCEPT !.pc = "up"] ELSE Down]
    /\ UNCHANGED <<keyState, facts, charsUsed, retired, rotated, starts>>

Shutdown(p) ==
    /\ ring[p].pc = "up" /\ ring' = [ring EXCEPT ![p] = Down]
    /\ UNCHANGED <<keyState, facts, charsUsed, retired, rotated, starts>>

(* _lock_key_state(): only a process of the published generation writes. *)
LockKeyState(p) == ring[p].pc = "up" /\ keyState.active = ring[p].active

(* _lock_scope() and _facts(): the facts of the scope, all of them readable. *)
LockScope(p, s) ==
    /\ LockKeyState(p)
    /\ \A i \in Facts(s) : facts[i].version \in ring[p].keys

(* _encrypt() under the active key of the process. *)
Sealed(p, s, c) == [scope |-> s, content |-> c, version |-> ring[p].active]

(* A fact is younger than every fact that is there. *)
NextId ==
    LET used == {i \in FactIds : facts[i] # NoFact}
    IN IF used = {} THEN Min(FactIds) ELSE Max(used) + 1

(* The characters of the scope after old facts give way to a content. *)
Total(s, old, c) == Chars(Facts(s) \ old) + Cardinality(c)

Add(p, s, c) ==
    /\ LockScope(p, s) /\ c # {} /\ Total(s, {}, c) <= MaxChars /\ NextId \in FactIds
    /\ facts' = [facts EXCEPT ![NextId] = Sealed(p, s, c)]
    /\ charsUsed' = [charsUsed EXCEPT ![s] = Total(s, {}, c)]
    /\ UNCHANGED <<keyState, ring, retired, rotated, starts>>

Matching(s, word) == {i \in Facts(s) : word \in facts[i].content}

(* replace(): the oldest fact that contains the text. *)
Replace(p, s, word, c) ==
    /\ LockScope(p, s) /\ c # {} /\ Matching(s, word) # {}
    /\ LET i == Min(Matching(s, word))
       IN /\ Total(s, {i}, c) <= MaxChars
          /\ facts' = [facts EXCEPT ![i] = Sealed(p, s, c)]
          /\ charsUsed' = [charsUsed EXCEPT ![s] = Total(s, {i}, c)]
    /\ UNCHANGED <<keyState, ring, retired, rotated, starts>>

(* remove(): every fact that contains the text. *)
Remove(p, s, word) ==
    /\ LockScope(p, s) /\ Matching(s, word) # {}
    /\ facts' = [i \in FactIds |-> IF i \in Matching(s, word) THEN NoFact ELSE facts[i]]
    /\ charsUsed' = [charsUsed EXCEPT ![s] = Total(s, Matching(s, word), {})]
    /\ UNCHANGED <<keyState, ring, retired, rotated, starts>>

DeleteAll(p, s) ==
    /\ LockScope(p, s) /\ Facts(s) # {}
    /\ facts' = [i \in FactIds |-> IF i \in Facts(s) THEN NoFact ELSE facts[i]]
    /\ charsUsed' = [charsUsed EXCEPT ![s] = 0]
    /\ UNCHANGED <<keyState, ring, retired, rotated, starts>>

(* Facts of the scope under another key than the process's, oldest first,   *)
(* as many as a batch takes.                                                *)
Batch(p, s) ==
    LET old == {i \in Facts(s) : facts[i].version # ring[p].active}
    IN {i \in old : Cardinality({j \in old : j < i}) < BatchSize}

(* rotate_batch(): re-encrypted row by row, in one transaction; the report  *)
(* says complete when no other version remains.                             *)
RotateBatch(p, s) ==
    /\ LockKeyState(p)
    /\ \A i \in Batch(p, s) : facts[i].version \in ring[p].keys
    /\ facts' = [i \in FactIds |-> IF i \in Batch(p, s) THEN Sealed(p, s, facts[i].content)
                                   ELSE facts[i]]
    /\ rotated' = [rotated EXCEPT ![s] =
           IF \A i \in FactIds : facts'[i].scope = s => facts'[i].version = ring[p].active
           THEN ring[p].active ELSE @]
    /\ UNCHANGED <<keyState, ring, charsUsed, retired, starts>>

(* assert_key_retirable(), the operator having drained the legacy writers. *)
AssertKeyRetirable(p, v) ==
    /\ LockKeyState(p) /\ v # ring[p].active /\ v \notin VersionsInUse
    /\ retired' = retired \union {[version |-> v, active |-> ring[p].active]}
    /\ UNCHANGED <<keyState, ring, facts, charsUsed, rotated, starts>>

MemoryNext ==
    \E p \in MemProcesses :
        \/ ActivateKeyVersion(p) \/ ValidateKeyVersions(p) \/ Shutdown(p)
        \/ \E v \in KeyVersions : AssertKeyRetirable(p, v)
        \/ \E s \in MemScopes :
               \/ DeleteAll(p, s) \/ RotateBatch(p, s)
               \/ \E c \in Contents : Add(p, s, c)
               \/ \E w \in UNION Contents :
                      Remove(p, s, w) \/ \E c \in Contents : Replace(p, s, w, c)

-----------------------------------------------------------------------------
(* A key that a process of the current generation was told it may retire,   *)
(* older than that generation, never encrypts a fact again, and a scope     *)
(* reported as rotated holds no fact of an earlier key, whatever processes  *)
(* of an earlier generation still run (_lock_key_state(), rotate_batch()).  *)
RetiredKeysAreUnused ==
    /\ \A r \in retired : r.version < r.active => r.version \notin VersionsInUse
    /\ \A i \in FactIds : facts[i] # NoFact => facts[i].version >= rotated[facts[i].scope]

(* A running process of the published generation can read every fact of     *)
(* every scope, whichever processes wrote, rotated and restarted meanwhile  *)
(* (activate_key_version(), validate_key_versions()).                       *)
CurrentProcessesReadEverything ==
    \A p \in MemProcesses :
        ring[p].pc = "up" /\ ring[p].active = keyState.active => VersionsInUse \subseteq ring[p].keys

(* chars_used of a scope is the length of what is stored in it and stays    *)
(* within the limit, through every order of additions, replacements and     *)
(* removals by several processes.                                           *)
CharsAreAccounted ==
    \A s \in MemScopes :
        /\ charsUsed[s] = MapThenSumSet(LAMBDA i : Cardinality(facts[i].content), Facts(s))
        /\ charsUsed[s] <= MaxChars
=============================================================================
