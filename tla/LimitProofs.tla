---------------------------- MODULE LimitProofs ----------------------------
(***************************************************************************)
(* Limits and scopes of StoredSystem, for every value of the constants.    *)
(* LimitsInv joins the invariants of the rate limiter, the document index, *)
(* the MCP client, the scoped memory and the choice of what enters a       *)
(* context; each is shown by a lemma for its initial states and one for    *)
(* each action of its part. Two things need facts about data of any size,  *)
(* which rest on a least counterexample in place of an induction: that the *)
(* sum over a finite set follows a change of one member, and that ranking  *)
(* a finite set under a total order gives the positions 0 .. n - 1.        *)
(***************************************************************************)
EXTENDS StoredSystem, FiniteSetTheorems, WellFoundedInduction, NaturalsInduction, TLAPS

-----------------------------------------------------------------------------
(* The limiter in the shared store. *)

LEMMA ContextCardinality == ASSUME NEW S PROVE Context!Cardinality(S) = Cardinality(S)
  BY DEF Context!Cardinality, Cardinality

LEMMA AccessCardinality == ASSUME NEW S PROVE Access!Cardinality(S) = Cardinality(S)
  BY DEF Access!Cardinality, Cardinality

(* The bucket is finite and within the limit. *)
Full(S) == IsFiniteSet(S) /\ Cardinality(S) <= Limit

SharedInv == Full(sharedWindow)

LEMMA SharedStart == ASSUME Access!AccessInit PROVE SharedInv
  <1>1. sharedWindow = {}
    BY DEF Access!AccessInit
  <1>2. QED
    BY <1>1, FS_EmptySet, RateAssumption DEF SharedInv, Full

(* A check keeps a part of the bucket, and adds to it only what fits. *)
LEMMA BucketFits ==
    ASSUME NEW S, Full(S), NEW T, T \subseteq S, NEW e
    PROVE  Full(T \cup (IF Cardinality(T) < Limit THEN {e} ELSE {}))
  <1>1. /\ IsFiniteSet(T) /\ Cardinality(T) <= Cardinality(S) /\ Cardinality(S) \in Nat
        /\ Cardinality(T) \in Nat
    BY FS_Subset, FS_CardinalityType DEF Full
  <1>2. /\ IsFiniteSet(T \cup {e}) /\ Cardinality(T \cup {e}) <= Cardinality(T) + 1
    BY <1>1, FS_AddElement
  <1>3. CASE Cardinality(T) < Limit
    BY <1>1, <1>2, <1>3, RateAssumption, FS_CardinalityType DEF Full
  <1>4. CASE ~(Cardinality(T) < Limit)
    <2>1. T \cup {} = T
      OBVIOUS
    <2>2. QED
      BY <1>1, <1>4, <2>1, RateAssumption DEF Full
  <1>5. QED
    BY <1>3, <1>4

LEMMA SharedNextStep == ASSUME SharedInv, Access!SharedNext PROVE SharedInv'
  <1>1. ASSUME Access!AccessTick PROVE SharedInv'
    BY <1>1 DEF Access!AccessTick, SharedInv
  <1>2. ASSUME NEW p \in Processes, Access!BeginCheck(p) \/ Access!WatchBucket(p) PROVE SharedInv'
    BY <1>2 DEF Access!BeginCheck, Access!WatchBucket, SharedInv
  <1>3. ASSUME NEW p \in Processes, Access!CheckRedis(p) PROVE SharedInv'
    <2>1. PICK t : t = Access!ActiveRows(checks[p].stamp)
      OBVIOUS
    <2>2. t \subseteq sharedWindow
      BY <2>1 DEF Access!ActiveRows
    <2>3. sharedWindow' = t \cup (IF Cardinality(t) < Limit
                                  THEN {[stamp |-> checks[p].stamp, member |-> p]} ELSE {})
      BY <1>3, <2>1, AccessCardinality DEF Access!CheckRedis, Access!BucketAfter
    <2>4. QED
      BY <2>2, <2>3, BucketFits DEF SharedInv
  <1>4. ASSUME NEW p \in Processes, Access!ExecuteCheck(p) PROVE SharedInv'
    <2>1. CASE ~Access!BucketUnchanged(p)
      BY <1>4, <2>1 DEF Access!ExecuteCheck, SharedInv
    <2>2. CASE Access!BucketUnchanged(p)
      <3>1. PICK t : t = Access!ActiveRows(checks[p].stamp)
        OBVIOUS
      <3>2. t \subseteq sharedWindow
        BY <3>1 DEF Access!ActiveRows
      <3>3. t = {e \in checks[p].seen : e.stamp > checks[p].stamp - RateWindow}
        BY <2>2, <3>1 DEF Access!ActiveRows, Access!BucketUnchanged
      <3>4. sharedWindow' = t \cup (IF Cardinality(t) < Limit
                                    THEN {[stamp |-> checks[p].stamp, member |-> p]} ELSE {})
        BY <1>4, <2>2, <3>1, <3>3, AccessCardinality DEF Access!ExecuteCheck, Access!BucketAfter
      <3>5. QED
        BY <3>2, <3>4, BucketFits DEF SharedInv
    <2>3. QED
      BY <2>1, <2>2
  <1>5. QED
    BY <1>1, <1>2, <1>3, <1>4 DEF Access!SharedNext

LEMMA SharedRests == ASSUME SharedInv, UNCHANGED sharedWindow PROVE SharedInv'
  BY DEF SharedInv

LEMMA SharedPartRests == ASSUME SharedInv, UNCHANGED accessPart PROVE SharedInv'
  BY SharedRests DEF accessPart

LEMMA SharedOthers == ASSUME Access!AccountsNext \/ Access!LocalNext PROVE UNCHANGED sharedWindow
  <1>1. ASSUME NEW a \in AccessAttempts,
               Access!Login(a) \/ Access!ForeignToken(a) \/ Access!RegisterApiKey(a)
                   \/ \E name \in Names : Access!RegisterUser(a, name)
        PROVE  UNCHANGED sharedWindow
    BY <1>1 DEF Access!Login, Access!ForeignToken, Access!RegisterApiKey, Access!RegisterUser,
                Access!OnlyAccounts
  <1>2. ASSUME NEW key, NEW t \in tokens, Access!Authenticate(key, t) PROVE UNCHANGED sharedWindow
    BY <1>2 DEF Access!Authenticate, Access!OnlyAccounts
  <1>3. ASSUME Access!AccessTick \/ Access!EnforceUser \/ Access!EnforceAddress
        PROVE  UNCHANGED sharedWindow
    BY <1>3 DEF Access!AccessTick, Access!EnforceUser, Access!EnforceAddress, Access!CheckLocal
  <1>4. QED
    BY <1>1, <1>2, <1>3 DEF Access!AccountsNext, Access!LocalNext

LEMMA SharedPromise == ASSUME SharedInv PROVE Access!SharedBucketHoldsTheLimit
  BY AccessCardinality DEF SharedInv, Full, Access!SharedBucketHoldsTheLimit
-----------------------------------------------------------------------------
(* Documents. *)

LEMMA AddOne ==
    ASSUME NEW S, IsFiniteSet(S), NEW x
    PROVE  /\ IsFiniteSet(S \cup {x}) /\ Cardinality(S \cup {x}) \in Nat /\ Cardinality(S) \in Nat
           /\ Cardinality(S \cup {x}) <= Cardinality(S) + 1
           /\ x \notin S => Cardinality(S \cup {x}) = Cardinality(S) + 1
  <1>1. Cardinality(S) \in Nat
    BY FS_CardinalityType
  <1>2. /\ IsFiniteSet(S \cup {x})
        /\ Cardinality(S \cup {x}) = IF x \in S THEN Cardinality(S) ELSE Cardinality(S) + 1
    BY FS_AddElement
  <1>3. QED
    BY <1>1, <1>2

LEMMA DocumentCardinality == ASSUME NEW S PROVE Document!Cardinality(S) = Cardinality(S)
  BY DEF Document!Cardinality, Cardinality

IsDocument(r) == \E s, t, c : r = [scope |-> s, text |-> t, chunks |-> c]
Query(k, s, w, o, f) == [pc |-> k, scope |-> s, wanted |-> w, owned |-> o, found |-> f]
IsQuery(q) == q = Query(q.pc, q.scope, q.wanted, q.owned, q.found)

Upload(k, p, s, t, c, v) ==
    [pc |-> k, process |-> p, scope |-> s, text |-> t, chunks |-> c, vectors |-> v]
IsUpload(x) == x = Upload(x.pc, x.process, x.scope, x.text, x.chunks, x.vectors) /\ x.process \in 1 .. 2

StoredIn(rows, s) == {u \in Uploads : rows[u].scope = s}

(* Every scope is within its quota, an upload that waits for the model is   *)
(* the one its process loads for, one that encodes finds it loaded, and a   *)
(* query that has not searched has found nothing.                           *)
QuotaInv ==
    /\ docRows = [u \in Uploads |-> docRows[u]] /\ \A u \in Uploads : IsDocument(docRows[u])
    /\ \A s \in Scopes : Cardinality(StoredIn(docRows, s)) <= MaxDocuments
ModelStates == {"absent", "loading", "loaded"}
LoadInv ==
    /\ upload = [u \in Uploads |-> upload[u]] /\ \A u \in Uploads : IsUpload(upload[u])
    /\ localModel = [p \in 1 .. 2 |-> localModel[p]] /\ \A p \in 1 .. 2 : localModel[p] \in ModelStates
    /\ \A u, v \in Uploads :
           upload[u].pc = "loading" /\ upload[v].pc = "loading" /\ upload[u].process = upload[v].process
               => u = v
    /\ \A u \in Uploads :
           /\ upload[u].pc = "loading" => localModel[upload[u].process] = "loading"
           /\ upload[u].pc = "encode" => localModel[upload[u].process] = "loaded"
QueryInv ==
    /\ IsQuery(docQuery)
    /\ docQuery.pc # "answer" => docQuery.found = <<>>
    /\ Document!AnswersStayInScope

DocumentInv == QuotaInv /\ LoadInv /\ QueryInv

LEMMA QueryFields ==
    ASSUME NEW k, NEW s, NEW w, NEW o, NEW f, NEW q, q = Query(k, s, w, o, f)
    PROVE  /\ q.pc = k /\ q.scope = s /\ q.wanted = w /\ q.owned = o /\ q.found = f
           /\ IsQuery(q)
  BY DEF IsQuery, Query

LEMMA UploadFields ==
    ASSUME NEW k, NEW p \in 1 .. 2, NEW s, NEW t, NEW c, NEW v, NEW x, x = Upload(k, p, s, t, c, v)
    PROVE  x.pc = k /\ x.process = p /\ IsUpload(x)
  BY DEF IsUpload, Upload

LEMMA DocumentStart == ASSUME Document!DocumentInit PROVE DocumentInv
  <1>1. docRows = [u \in Uploads |-> Document!NoDocument]
    BY DEF Document!DocumentInit
  <1>2. \A u \in Uploads : docRows[u].scope = "none" /\ IsDocument(docRows[u])
    BY <1>1 DEF Document!NoDocument, IsDocument
  <1>3. \A s \in Scopes : StoredIn(docRows, s) = {}
    BY <1>2, QuotaAssumption DEF StoredIn
  <1>4. QuotaInv
    BY <1>1, <1>2, <1>3, FS_EmptySet, QuotaAssumption DEF QuotaInv
  <1>5. LoadInv
    <2>1. PICK process \in [Uploads -> {1, 2}] :
              upload = [u \in Uploads |-> Document!Requested(process[u])]
      BY DEF Document!DocumentInit
    <2>2. ASSUME NEW u \in Uploads PROVE IsUpload(upload[u]) /\ upload[u].pc = "new"
      <3>1. upload[u] = Upload("new", process[u], "none", <<>>, <<>>, <<>>)
        BY <2>1 DEF Document!Requested, Upload
      <3>2. process[u] \in 1 .. 2
        OBVIOUS
      <3>3. QED
        BY <3>1, <3>2, UploadFields
    <2>3. localModel = [p \in 1 .. 2 |-> "absent"]
      BY DEF Document!DocumentInit
    <2>4. QED
      BY <2>1, <2>2, <2>3 DEF LoadInv, ModelStates
  <1>6. docQuery = Query("idle", "none", "none", {}, <<>>)
    BY DEF Document!DocumentInit, Document!IdleQuery, Query
  <1>7. QueryInv
    BY <1>6, QueryFields DEF QueryInv, Document!AnswersStayInScope
  <1>8. QED
    BY <1>4, <1>5, <1>7 DEF DocumentInv

LEMMA LoadKept == ASSUME LoadInv, UNCHANGED <<upload, localModel>> PROVE LoadInv'
  BY DEF LoadInv

LEMMA DocumentsRest == ASSUME DocumentInv, UNCHANGED documentsPart PROVE DocumentInv'
  BY DEF documentsPart, DocumentInv, QuotaInv, LoadInv, QueryInv, Document!AnswersStayInScope

(* What is deleted, or stays where it is, fills no quota. *)
LEMMA QuotaShrinks ==
    ASSUME QuotaInv, docRows' = [u \in Uploads |-> docRows'[u]],
           \A u \in Uploads : /\ IsDocument(docRows'[u])
                              /\ docRows'[u].scope \in {docRows[u].scope, "none"}
    PROVE  QuotaInv'
  <1>1. ASSUME NEW s \in Scopes PROVE Cardinality(StoredIn(docRows, s)') <= MaxDocuments
    <2>1. PICK S : S = StoredIn(docRows, s)
      OBVIOUS
    <2>2. PICK T : T = StoredIn(docRows, s)'
      OBVIOUS
    <2>3. T \subseteq S
      BY <2>1, <2>2, QuotaAssumption DEF StoredIn
    <2>4. IsFiniteSet(S)
      BY <2>1, FS_Subset, QuotaAssumption DEF StoredIn
    <2>5. /\ Cardinality(T) <= Cardinality(S) /\ Cardinality(T) \in Nat /\ Cardinality(S) \in Nat
      BY <2>3, <2>4, FS_Subset, FS_CardinalityType
    <2>6. Cardinality(S) <= MaxDocuments
      BY <2>1 DEF QuotaInv
    <2>7. QED
      BY <2>2, <2>5, <2>6, QuotaAssumption
  <1>2. QED
    BY <1>1 DEF QuotaInv, StoredIn

(* The transaction counts again before it adds its document. *)
LEMMA QuotaGrows ==
    ASSUME QuotaInv, NEW u \in Uploads, NEW row, IsDocument(row),
           Cardinality(StoredIn(docRows, row.scope)) < MaxDocuments,
           docRows' = [docRows EXCEPT ![u] = row]
    PROVE  QuotaInv'
  <1>1. docRows' = [v \in Uploads |-> IF v = u THEN row ELSE docRows[v]]
    BY DEF QuotaInv
  <1>2. ASSUME NEW s \in Scopes PROVE Cardinality(StoredIn(docRows, s)') <= MaxDocuments
    <2>1. PICK S : S = StoredIn(docRows, s)
      OBVIOUS
    <2>2. PICK T : T = StoredIn(docRows, s)'
      OBVIOUS
    <2>3. IsFiniteSet(S) /\ Cardinality(S) \in Nat
      BY <2>1, FS_Subset, FS_CardinalityType, QuotaAssumption DEF StoredIn
    <2>4. CASE s = row.scope
      <3>1. T \subseteq S \cup {u}
        BY <1>1, <2>1, <2>2, <2>4 DEF StoredIn
      <3>2. /\ IsFiniteSet(S \cup {u}) /\ Cardinality(S \cup {u}) <= Cardinality(S) + 1
            /\ Cardinality(S \cup {u}) \in Nat
        BY <2>3, AddOne
      <3>3. Cardinality(T) <= Cardinality(S \cup {u}) /\ Cardinality(T) \in Nat
        BY <3>1, <3>2, FS_Subset, FS_CardinalityType
      <3>4. Cardinality(S) < MaxDocuments
        BY <2>1, <2>4
      <3>5. QED
        BY <2>2, <2>3, <3>2, <3>3, <3>4, QuotaAssumption
    <2>5. CASE s # row.scope
      <3>1. T \subseteq S
        BY <1>1, <2>1, <2>2, <2>5 DEF StoredIn
      <3>2. Cardinality(T) <= Cardinality(S) /\ Cardinality(T) \in Nat
        BY <2>3, <3>1, FS_Subset, FS_CardinalityType
      <3>3. Cardinality(S) <= MaxDocuments
        BY <2>1 DEF QuotaInv
      <3>4. QED
        BY <2>2, <2>3, <3>2, <3>3, QuotaAssumption
    <2>6. QED
      BY <2>4, <2>5
  <1>3. \A v \in Uploads : IsDocument(docRows'[v])
    BY <1>1 DEF QuotaInv
  <1>4. QED
    BY <1>1, <1>2, <1>3 DEF QuotaInv, StoredIn

LEMMA QuotaKept == ASSUME QuotaInv, UNCHANGED docRows PROVE QuotaInv'
  BY DEF QuotaInv, StoredIn

LEMMA QueryKept == ASSUME QueryInv, UNCHANGED docQuery PROVE QueryInv'
  BY DEF QueryInv, Document!AnswersStayInScope

(* What a search finds is owned by the query's scope at that moment. *)
LEMMA SearchStep == ASSUME QueryInv, Document!Search PROVE QueryInv'
  <1>0. IsQuery(docQuery)
    BY DEF QueryInv
  <1>1. PICK k, s, w, o, f : docQuery = Query(k, s, w, o, f)
    BY <1>0 DEF IsQuery
  <1>2. PICK C : C = Document!CandidateRows
    OBVIOUS
  <1>3. \A c \in C : /\ docRows[c[1]].scope = s /\ c[1] \in o /\ w \in {"none", c[1]}
                     /\ docRows[c[1]].chunks[c[2]].sound
    BY <1>1, <1>2, QueryFields DEF Document!CandidateRows
  <1>4. PICK q \in Document!SetToSeqs(C) :
            docQuery' = [docQuery EXCEPT !.pc = "answer",
                !.found = [i \in {j \in DOMAIN q : j <= TopK} |->
                    [doc |-> q[i][1], chunk |-> docRows[q[i][1]].chunks[q[i][2]],
                     scope |-> docRows[q[i][1]].scope]]]
    BY <1>2 DEF Document!Search
  <1>5. q \in [1 .. Document!Cardinality(C) -> C]
    BY <1>4 DEF Document!SetToSeqs
  <1>6. PICK g : g = [i \in {j \in DOMAIN q : j <= TopK} |->
                    [doc |-> q[i][1], chunk |-> docRows[q[i][1]].chunks[q[i][2]],
                     scope |-> docRows[q[i][1]].scope]]
    OBVIOUS
  <1>7. docQuery' = Query("answer", s, w, o, g)
    BY <1>1, <1>4, <1>6 DEF Query
  <1>8. DOMAIN g \subseteq DOMAIN q
    BY <1>6
  <1>9. \A i \in DOMAIN g : /\ g[i].scope = s /\ g[i].chunk.sound /\ g[i].doc \in o
                            /\ w \in {"none", g[i].doc}
    BY <1>3, <1>5, <1>6, <1>8
  <1>10. QED
    BY <1>7, <1>9, QueryFields DEF QueryInv, Document!AnswersStayInScope

LEMMA QueryStep ==
    ASSUME QueryInv,
           \/ \E s, w : Document!QueryDocuments(s, w)
           \/ Document!OwnedIds \/ Document!Search \/ Document!QueryEnds
    PROVE  QueryInv'
  <1>0. IsQuery(docQuery)
    BY DEF QueryInv
  <1>1. PICK k, s, w, o, f : docQuery = Query(k, s, w, o, f)
    BY <1>0 DEF IsQuery
  <1>2. ASSUME NEW r, NEW v, Document!QueryDocuments(r, v) PROVE QueryInv'
    <2>1. docQuery' = Query("owned", r, v, {}, <<>>)
      BY <1>2 DEF Document!QueryDocuments, Document!IdleQuery, Query
    <2>2. QED
      BY <2>1, QueryFields DEF QueryInv, Document!AnswersStayInScope
  <1>3. ASSUME Document!OwnedIds PROVE QueryInv'
    <2>1. PICK T : T = Document!Stored(docQuery.scope)
      OBVIOUS
    <2>2. k = "owned" /\ f = <<>>
      <3>1. docQuery.pc = k /\ docQuery.found = f
        BY <1>1, QueryFields
      <3>2. docQuery.pc = "owned"
        BY <1>3 DEF Document!OwnedIds
      <3>3. docQuery.pc # "answer" => docQuery.found = <<>>
        BY DEF QueryInv
      <3>4. QED
        BY <3>1, <3>2, <3>3
    <2>3. docQuery' = Query("search", s, w, T, <<>>)
      BY <1>1, <1>3, <2>1, <2>2 DEF Document!OwnedIds, Query
    <2>4. QED
      BY <2>3, QueryFields DEF QueryInv, Document!AnswersStayInScope
  <1>4. ASSUME Document!QueryEnds PROVE QueryInv'
    <2>1. docQuery' = Query("idle", "none", "none", {}, <<>>)
      BY <1>4 DEF Document!QueryEnds, Document!IdleQuery, Query
    <2>2. QED
      BY <2>1, QueryFields DEF QueryInv, Document!AnswersStayInScope
  <1>5. QED
    BY <1>2, <1>3, <1>4, SearchStep

(* An upload goes on: it neither waits for the model nor encodes without it.*)
LEMMA LoadChange ==
    ASSUME LoadInv, NEW u \in Uploads, NEW y, IsUpload(y), y.pc # "loading",
           y.pc = "encode" => localModel[y.process] = "loaded",
           upload' = [upload EXCEPT ![u] = y], UNCHANGED localModel
    PROVE  LoadInv'
  <1>1. upload' = [v \in Uploads |-> IF v = u THEN y ELSE upload[v]]
    BY DEF LoadInv
  <1>2. /\ upload' = [v \in Uploads |-> upload'[v]] /\ \A v \in Uploads : IsUpload(upload'[v])
        /\ localModel' = [p \in 1 .. 2 |-> localModel'[p]] /\ \A p \in 1 .. 2 : localModel'[p] \in ModelStates
    BY <1>1 DEF LoadInv
  <1>3. \A v, w \in Uploads :
           upload'[v].pc = "loading" /\ upload'[w].pc = "loading" /\ upload'[v].process = upload'[w].process
               => v = w
    BY <1>1 DEF LoadInv
  <1>4. \A v \in Uploads :
           /\ upload'[v].pc = "loading" => localModel'[upload'[v].process] = "loading"
           /\ upload'[v].pc = "encode" => localModel'[upload'[v].process] = "loaded"
    BY <1>1 DEF LoadInv
  <1>5. QED
    BY <1>2, <1>3, <1>4 DEF LoadInv

LEMMA LeftIs ==
    ASSUME NEW pc
    PROVE  /\ IsUpload([Document!Requested(1) EXCEPT !.pc = pc])
           /\ [Document!Requested(1) EXCEPT !.pc = pc].pc = pc
  <1>1. [Document!Requested(1) EXCEPT !.pc = pc] = Upload(pc, 1, "none", <<>>, <<>>, <<>>)
    BY DEF Document!Requested, Upload
  <1>2. QED
    BY <1>1, UploadFields

LEMMA LeaveStep ==
    ASSUME LoadInv, NEW u \in Uploads, NEW pc \in {"refused", "failed", "stored"},
           Document!LeaveUpload(u, pc), UNCHANGED localModel
    PROVE  LoadInv'
  <1>1. PICK y : y = [Document!Requested(1) EXCEPT !.pc = pc]
    OBVIOUS
  <1>2. IsUpload(y) /\ y.pc = pc
    BY <1>1, LeftIs
  <1>3. upload' = [upload EXCEPT ![u] = y]
    BY <1>1 DEF Document!LeaveUpload
  <1>4. QED
    BY <1>2, <1>3, LoadChange

(* The steps of an upload that leave the model alone. *)
LEMMA ForwardStep ==
    ASSUME LoadInv, NEW u \in Uploads,
           \/ Document!UploadDocument(u) \/ Document!Preflight(u) \/ Document!OpenaiEmbed(u)
           \/ Document!LocalEmbed(u) \/ Document!StoreDocument(u)
    PROVE  LoadInv'
  <1>1. UNCHANGED localModel
    BY DEF Document!UploadDocument, Document!Preflight, Document!OpenaiEmbed,
           Document!LocalEmbed, Document!StoreDocument
  <1>2. PICK k, p, s, t, c, v : upload[u] = Upload(k, p, s, t, c, v) /\ p \in 1 .. 2
    BY DEF LoadInv, IsUpload
  <1>3. CASE \E pc \in {"refused", "failed", "stored"} : Document!LeaveUpload(u, pc)
    BY <1>1, <1>3, LeaveStep
  <1>4. CASE \E x, y : upload' = [upload EXCEPT ![u].pc = "queued", ![u].scope = x, ![u].text = y]
    <2>1. PICK x, y : upload' = [upload EXCEPT ![u].pc = "queued", ![u].scope = x, ![u].text = y]
      BY <1>4
    <2>2. PICK z : z = Upload("queued", p, x, y, c, v)
      OBVIOUS
    <2>3. upload' = [upload EXCEPT ![u] = z]
      <3>1. z = [Upload(k, p, s, t, c, v) EXCEPT !.pc = "queued", !.scope = x, !.text = y]
        <4>1. [Upload(k, p, s, t, c, v) EXCEPT !.pc = "queued"] = Upload("queued", p, s, t, c, v)
          BY DEF Upload
        <4>2. [Upload("queued", p, s, t, c, v) EXCEPT !.scope = x] = Upload("queued", p, x, t, c, v)
          BY DEF Upload
        <4>3. [Upload("queued", p, x, t, c, v) EXCEPT !.text = y] = Upload("queued", p, x, y, c, v)
          BY DEF Upload
        <4>4. QED
          BY <2>2, <4>1, <4>2, <4>3
      <3>2. upload' = [upload EXCEPT ![u] = [upload[u] EXCEPT !.pc = "queued", !.scope = x, !.text = y]]
        BY <2>1
      <3>3. QED
        BY <1>2, <3>1, <3>2
    <2>4. IsUpload(z) /\ z.pc = "queued"
      BY <1>2, <2>2, UploadFields
    <2>5. QED
      BY <1>1, <2>3, <2>4, LoadChange
  <1>5. CASE \E x : upload' = [upload EXCEPT ![u].pc = "embed", ![u].chunks = x]
    <2>1. PICK x : upload' = [upload EXCEPT ![u].pc = "embed", ![u].chunks = x]
      BY <1>5
    <2>2. PICK z : z = Upload("embed", p, s, t, x, v)
      OBVIOUS
    <2>3. upload' = [upload EXCEPT ![u] = z]
      <3>1. z = [Upload(k, p, s, t, c, v) EXCEPT !.pc = "embed", !.chunks = x]
        <4>1. [Upload(k, p, s, t, c, v) EXCEPT !.pc = "embed"] = Upload("embed", p, s, t, c, v)
          BY DEF Upload
        <4>2. [Upload("embed", p, s, t, c, v) EXCEPT !.chunks = x] = Upload("embed", p, s, t, x, v)
          BY DEF Upload
        <4>3. QED
          BY <2>2, <4>1, <4>2
      <3>2. upload' = [upload EXCEPT ![u] = [upload[u] EXCEPT !.pc = "embed", !.chunks = x]]
        BY <2>1
      <3>3. QED
        BY <1>2, <3>1, <3>2
    <2>4. IsUpload(z) /\ z.pc = "embed"
      BY <1>2, <2>2, UploadFields
    <2>5. QED
      BY <1>1, <2>3, <2>4, LoadChange
  <1>6. CASE \E x : upload' = [upload EXCEPT ![u].pc = "store", ![u].vectors = x]
    <2>1. PICK x : upload' = [upload EXCEPT ![u].pc = "store", ![u].vectors = x]
      BY <1>6
    <2>2. PICK z : z = Upload("store", p, s, t, c, x)
      OBVIOUS
    <2>3. upload' = [upload EXCEPT ![u] = z]
      <3>1. z = [Upload(k, p, s, t, c, v) EXCEPT !.pc = "store", !.vectors = x]
        <4>1. [Upload(k, p, s, t, c, v) EXCEPT !.pc = "store"] = Upload("store", p, s, t, c, v)
          BY DEF Upload
        <4>2. [Upload("store", p, s, t, c, v) EXCEPT !.vectors = x] = Upload("store", p, s, t, c, x)
          BY DEF Upload
        <4>3. QED
          BY <2>2, <4>1, <4>2
      <3>2. upload' = [upload EXCEPT ![u] = [upload[u] EXCEPT !.pc = "store", !.vectors = x]]
        BY <2>1
      <3>3. QED
        BY <1>2, <3>1, <3>2
    <2>4. IsUpload(z) /\ z.pc = "store"
      BY <1>2, <2>2, UploadFields
    <2>5. QED
      BY <1>1, <2>3, <2>4, LoadChange
  <1>7. QED
    BY <1>3, <1>4, <1>5, <1>6 DEF Document!UploadDocument, Document!Preflight, Document!OpenaiEmbed,
           Document!LocalEmbed, Document!StoreDocument

(* One upload takes the process's model through a load: no other waits.     *)
LEMMA LoadMoves ==
    ASSUME LoadInv, NEW u \in Uploads, NEW m \in ModelStates, NEW y, IsUpload(y),
           upload' = [upload EXCEPT ![u] = y],
           localModel' = [localModel EXCEPT ![upload[u].process] = m],
           \A v \in Uploads : v # u /\ upload[v].process = upload[u].process =>
               upload[v].pc \notin {"loading", "encode"},
           y.process = upload[u].process \/ y.pc \notin {"loading", "encode"},
           y.pc = "loading" => m = "loading", y.pc = "encode" => m = "loaded"
    PROVE  LoadInv'
  <1>1. upload' = [v \in Uploads |-> IF v = u THEN y ELSE upload[v]]
    BY DEF LoadInv
  <1>2. PICK p \in 1 .. 2 : p = upload[u].process
    BY DEF LoadInv, IsUpload
  <1>3. localModel' = [q \in 1 .. 2 |-> IF q = p THEN m ELSE localModel[q]]
    BY <1>2 DEF LoadInv
  <1>4. /\ upload' = [v \in Uploads |-> upload'[v]] /\ \A v \in Uploads : IsUpload(upload'[v])
        /\ localModel' = [q \in 1 .. 2 |-> localModel'[q]] /\ \A q \in 1 .. 2 : localModel'[q] \in ModelStates
    BY <1>1, <1>3 DEF LoadInv
  <1>5. \A v, w \in Uploads :
           upload'[v].pc = "loading" /\ upload'[w].pc = "loading" /\ upload'[v].process = upload'[w].process
               => v = w
    BY <1>1, <1>2 DEF LoadInv
  <1>6. \A v \in Uploads : upload[v].process \in 1 .. 2
    BY DEF LoadInv, IsUpload
  <1>7. \A v \in Uploads :
           /\ upload'[v].pc = "loading" => localModel'[upload'[v].process] = "loading"
           /\ upload'[v].pc = "encode" => localModel'[upload'[v].process] = "loaded"
    BY <1>1, <1>2, <1>3, <1>6 DEF LoadInv
  <1>8. QED
    BY <1>4, <1>5, <1>7 DEF LoadInv

LEMMA LoadStep ==
    ASSUME LoadInv, NEW u \in Uploads,
           Document!EnsureLocalModel(u) \/ Document!ModelLoaded(u) \/ Document!ModelLoadFails(u)
    PROVE  LoadInv'
  <1>1. PICK k, p, s, t, c, v : upload[u] = Upload(k, p, s, t, c, v) /\ p \in 1 .. 2
    BY DEF LoadInv, IsUpload
  <1>2. upload[u].process = p
    BY <1>1, UploadFields
  <1>3. ASSUME NEW to PROVE /\ [upload EXCEPT ![u].pc = to] = [upload EXCEPT ![u] = Upload(to, p, s, t, c, v)]
                            /\ Upload(to, p, s, t, c, v).pc = to /\ Upload(to, p, s, t, c, v).process = p
                            /\ IsUpload(Upload(to, p, s, t, c, v))
    <2>1. [upload EXCEPT ![u].pc = to] = [upload EXCEPT ![u] = Upload(to, p, s, t, c, v)]
      <3>1. Upload(to, p, s, t, c, v) = [Upload(k, p, s, t, c, v) EXCEPT !.pc = to]
        BY DEF Upload
      <3>2. [upload EXCEPT ![u].pc = to] = [upload EXCEPT ![u] = [upload[u] EXCEPT !.pc = to]]
        OBVIOUS
      <3>3. QED
        BY <1>1, <3>1, <3>2
    <2>2. QED
      BY <1>1, <2>1, UploadFields
  <1>4. CASE Document!EnsureLocalModel(u)
    <2>1. CASE Document!Loads(u)
      <3>1. /\ upload' = [upload EXCEPT ![u].pc = "loading"] /\ localModel[p] = "absent"
            /\ localModel' = [localModel EXCEPT ![upload[u].process] = "loading"]
        BY <1>2, <1>4, <2>1 DEF Document!EnsureLocalModel, Document!Loads
      <3>2. PICK y : y = Upload("loading", p, s, t, c, v)
        OBVIOUS
      <3>3. upload' = [upload EXCEPT ![u] = y] /\ y.pc = "loading" /\ y.process = p /\ IsUpload(y)
        BY <1>3, <3>1, <3>2
      <3>4. \A w \in Uploads : upload[w].process = p => upload[w].pc \notin {"loading", "encode"}
        BY <3>1 DEF LoadInv
      <3>5. QED
        BY <1>2, <3>1, <3>3, <3>4, LoadMoves DEF ModelStates
    <2>2. CASE ~Document!Loads(u)
      <3>1. /\ upload' = [upload EXCEPT ![u].pc = "encode"] /\ UNCHANGED localModel
            /\ localModel[p] \notin {"absent", "loading"}
        BY <1>2, <1>4, <2>2 DEF Document!EnsureLocalModel, Document!Loads
      <3>2. PICK y : y = Upload("encode", p, s, t, c, v)
        OBVIOUS
      <3>3. upload' = [upload EXCEPT ![u] = y] /\ y.pc = "encode" /\ y.process = p /\ IsUpload(y)
        BY <1>3, <3>1, <3>2
      <3>4. localModel[p] = "loaded"
        BY <1>1, <3>1 DEF LoadInv, ModelStates
      <3>5. QED
        BY <3>1, <3>3, <3>4, LoadChange
    <2>3. QED
      BY <2>1, <2>2
  <1>5. CASE Document!ModelLoaded(u) \/ Document!ModelLoadFails(u)
    <2>1. upload[u].pc = "loading" /\ localModel[p] = "loading"
      BY <1>2, <1>5 DEF Document!ModelLoaded, Document!ModelLoadFails, LoadInv
    <2>2. \A w \in Uploads : w # u /\ upload[w].process = p => upload[w].pc \notin {"loading", "encode"}
      BY <1>2, <2>1 DEF LoadInv
    <2>3. CASE Document!ModelLoaded(u)
      <3>1. /\ upload' = [upload EXCEPT ![u].pc = "encode"]
            /\ localModel' = [localModel EXCEPT ![upload[u].process] = "loaded"]
        BY <2>3 DEF Document!ModelLoaded
      <3>2. PICK y : y = Upload("encode", p, s, t, c, v)
        OBVIOUS
      <3>3. upload' = [upload EXCEPT ![u] = y] /\ y.pc = "encode" /\ y.process = p /\ IsUpload(y)
        BY <1>3, <3>1, <3>2
      <3>4. QED
        BY <1>2, <2>2, <3>1, <3>3, LoadMoves DEF ModelStates
    <2>4. CASE Document!ModelLoadFails(u)
      <3>1. PICK y : y = [Document!Requested(1) EXCEPT !.pc = "failed"]
        OBVIOUS
      <3>2. /\ upload' = [upload EXCEPT ![u] = y]
            /\ localModel' = [localModel EXCEPT ![upload[u].process] = "absent"]
        BY <2>4, <3>1 DEF Document!ModelLoadFails, Document!LeaveUpload
      <3>3. IsUpload(y) /\ y.pc = "failed"
        BY <3>1, LeftIs
      <3>4. QED
        BY <1>2, <2>2, <3>2, <3>3, LoadMoves DEF ModelStates
    <2>5. QED
      BY <1>5, <2>3, <2>4
  <1>6. QED
    BY <1>4, <1>5

(* The steps of an upload before its transaction. *)
LEMMA UploadStep ==
    ASSUME DocumentInv, NEW u \in Uploads,
           \/ Document!UploadDocument(u) \/ Document!Preflight(u) \/ Document!OpenaiEmbed(u)
           \/ Document!EnsureLocalModel(u) \/ Document!ModelLoaded(u)
           \/ Document!ModelLoadFails(u) \/ Document!LocalEmbed(u)
    PROVE  DocumentInv'
  <1>1. UNCHANGED <<docRows, docQuery>>
    BY DEF Document!UploadDocument, Document!Preflight, Document!OpenaiEmbed,
           Document!EnsureLocalModel, Document!ModelLoaded, Document!ModelLoadFails, Document!LocalEmbed
  <1>2. LoadInv'
    BY ForwardStep, LoadStep DEF DocumentInv
  <1>3. QED
    BY <1>1, <1>2, QuotaKept, QueryKept DEF DocumentInv

LEMMA DocumentNextStep == ASSUME DocumentInv, Document!DocumentNext PROVE DocumentInv'
  <1>1. ASSUME NEW u \in Uploads, Document!StoreDocument(u) PROVE DocumentInv'
    <2>1. UNCHANGED <<localModel, docQuery>>
      BY <1>1 DEF Document!StoreDocument
    <2>2. QuotaInv'
      <3>1. CASE UNCHANGED docRows
        BY <3>1, QuotaKept DEF DocumentInv
      <3>2. CASE Document!QuotaFree(u)
                 /\ docRows' = [docRows EXCEPT ![u] =
                       [scope |-> upload[u].scope, text |-> upload[u].text,
                        chunks |-> Document!AddChunks(u)]]
        <4>1. PICK row : row = [scope |-> upload[u].scope, text |-> upload[u].text,
                                chunks |-> Document!AddChunks(u)]
          OBVIOUS
        <4>2. IsDocument(row) /\ row.scope = upload[u].scope
          BY <4>1 DEF IsDocument
        <4>3. Cardinality(StoredIn(docRows, row.scope)) < MaxDocuments
          BY <3>2, <4>2, DocumentCardinality DEF Document!QuotaFree, Document!Stored, StoredIn
        <4>4. QED
          BY <3>2, <4>1, <4>2, <4>3, QuotaGrows DEF DocumentInv
      <3>3. QED
        BY <1>1, <3>1, <3>2 DEF Document!StoreDocument
    <2>3. QED
      BY <1>1, <2>1, <2>2, QueryKept, ForwardStep DEF DocumentInv
  <1>2. ASSUME NEW u \in Uploads, Document!Damage(u) PROVE DocumentInv'
    <2>1. UNCHANGED <<upload, localModel, docQuery>>
          /\ docRows' = [docRows EXCEPT ![u].chunks[1].sound = FALSE]
      BY <1>2 DEF Document!Damage
    <2>2. PICK s, t, c : docRows[u] = [scope |-> s, text |-> t, chunks |-> c]
      BY DEF DocumentInv, QuotaInv, IsDocument
    <2>3. PICK d : d = [c EXCEPT ![1] = [@ EXCEPT !.sound = FALSE]]
      OBVIOUS
    <2>4. PICK row : row = [docRows[u] EXCEPT !.chunks = d]
      OBVIOUS
    <2>5. row = [scope |-> s, text |-> t, chunks |-> d] /\ docRows[u].chunks = c
      BY <2>2, <2>4
    <2>6. docRows' = [docRows EXCEPT ![u] = row]
      <3>1. docRows' = [docRows EXCEPT ![u] =
                [docRows[u] EXCEPT !.chunks = [docRows[u].chunks EXCEPT ![1] =
                    [docRows[u].chunks[1] EXCEPT !.sound = FALSE]]]]
        BY <2>1
      <3>2. [docRows[u].chunks EXCEPT ![1] = [docRows[u].chunks[1] EXCEPT !.sound = FALSE]] = d
        BY <2>3, <2>5
      <3>3. QED
        BY <2>4, <3>1, <3>2
    <2>7. docRows' = [v \in Uploads |-> IF v = u THEN row ELSE docRows[v]]
      BY <2>6 DEF DocumentInv, QuotaInv
    <2>8. IsDocument(row) /\ row.scope = docRows[u].scope
      <3>1. IsDocument(row)
        BY <2>5, Zenon DEF IsDocument
      <3>2. QED
        BY <2>2, <2>5, <3>1
    <2>9. \A v \in Uploads : IsDocument(docRows'[v]) /\ docRows'[v].scope = docRows[v].scope
      BY <2>7, <2>8 DEF DocumentInv, QuotaInv
    <2>10. QuotaInv'
      BY <2>7, <2>9, QuotaShrinks DEF DocumentInv
    <2>11. QED
      BY <2>1, <2>10, QueryKept, LoadKept DEF DocumentInv
  <1>3. ASSUME NEW u \in Uploads, NEW s \in Scopes, Document!DeleteDocument(u, s)
        PROVE  DocumentInv'
    <2>1. UNCHANGED <<upload, localModel, docQuery>>
          /\ docRows' = [docRows EXCEPT ![u] = Document!NoDocument]
      BY <1>3 DEF Document!DeleteDocument
    <2>2. docRows' = [v \in Uploads |-> IF v = u THEN Document!NoDocument ELSE docRows[v]]
      BY <2>1 DEF DocumentInv, QuotaInv
    <2>3. IsDocument(Document!NoDocument) /\ Document!NoDocument.scope = "none"
      BY DEF IsDocument, Document!NoDocument
    <2>4. \A v \in Uploads : IsDocument(docRows'[v]) /\ docRows'[v].scope \in {docRows[v].scope, "none"}
      BY <2>2, <2>3 DEF DocumentInv, QuotaInv
    <2>5. QuotaInv'
      BY <2>2, <2>4, QuotaShrinks DEF DocumentInv
    <2>6. QED
      BY <2>1, <2>5, QueryKept, LoadKept DEF DocumentInv
  <1>4. ASSUME \/ \E s \in Scopes, w \in Uploads \cup {"none"} : Document!QueryDocuments(s, w)
               \/ Document!OwnedIds \/ Document!Search \/ Document!QueryEnds
        PROVE  DocumentInv'
    <2>1. UNCHANGED <<docRows, upload, localModel>>
      BY <1>4 DEF Document!QueryDocuments, Document!OwnedIds, Document!Search, Document!QueryEnds
    <2>2. QueryInv'
      BY <1>4, QueryStep DEF DocumentInv
    <2>3. QED
      BY <2>1, <2>2, QuotaKept, LoadKept DEF DocumentInv
  <1>5. QED
    BY <1>1, <1>2, <1>3, <1>4, UploadStep DEF Document!DocumentNext

LEMMA DocumentPromise ==
    ASSUME DocumentInv PROVE Document!QuotaHolds /\ Document!AnswersStayInScope
  BY DocumentCardinality
     DEF DocumentInv, QuotaInv, LoadInv, QueryInv, Document!QuotaHolds, Document!Stored, StoredIn
-----------------------------------------------------------------------------
(* The client of an MCP server. *)

Listing(st, t, a, s, b, w, c) ==
    [state |-> st, tools |-> t, asked |-> a, seen |-> s, bytes |-> b, whole |-> w, code |-> c]

(* Listing: the cursors asked for are the first page and those seen, each   *)
(* once; tools that are returned have names of their own.                   *)
ListingInv ==
    /\ listing.asked \in Seq(Cursors \cup {"none"}) /\ Mcp!IsInjective(listing.asked)
    /\ Len(listing.asked) <= MaxPages
    /\ \A i \in DOMAIN listing.asked : listing.asked[i] \in listing.seen \cup {"none"}
    /\ listing.state = "listed" => listing.whole /\ Mcp!UniqueNames(listing.tools)
    /\ listing = Listing(listing.state, listing.tools, listing.asked, listing.seen,
                         listing.bytes, listing.whole, listing.code)

ProbeInv ==
    /\ probe.waits \in Seq(Nat) /\ probe.attempt \in Nat
    /\ \A i \in 1 .. Len(probe.waits) : probe.waits[i] = 2 ^ (i - 1)
    /\ Mcp!ReconnectsAreBounded
    /\ probe = [state |-> probe.state, attempt |-> probe.attempt, waits |-> probe.waits,
                lastCode |-> probe.lastCode]

ClientInv == ListingInv /\ ProbeInv

LEMMA ListingFields ==
    ASSUME NEW st, NEW t, NEW a, NEW s, NEW b, NEW w, NEW c, NEW l, l = Listing(st, t, a, s, b, w, c)
    PROVE  /\ l.state = st /\ l.tools = t /\ l.asked = a /\ l.seen = s /\ l.bytes = b
           /\ l.whole = w /\ l.code = c
  BY DEF Listing

LEMMA ClientStart == ASSUME Mcp!ClientInit PROVE ClientInv
  <1>1. listing = Listing("running", <<>>, <<"none">>, {}, 0, FALSE, "none")
    BY DEF Mcp!ClientInit, Mcp!NoCursor, Listing
  <1>2. /\ listing.state = "running" /\ listing.tools = <<>> /\ listing.asked = <<"none">>
        /\ listing.seen = {} /\ listing.bytes = 0 /\ listing.whole = FALSE /\ listing.code = "none"
    BY <1>1 DEF Listing
  <1>3. Mcp!IsInjective(<<"none">>)
    BY DEF Mcp!IsInjective
  <1>4. ListingInv
    <2>1. /\ <<"none">> \in Seq(Cursors \cup {"none"}) /\ Len(<<"none">>) = 1
          /\ \A i \in DOMAIN <<"none">> : <<"none">>[i] = "none"
      OBVIOUS
    <2>2. 1 <= MaxPages
      BY ClientAssumption
    <2>3. listing = Listing(listing.state, listing.tools, listing.asked, listing.seen,
                            listing.bytes, listing.whole, listing.code)
      BY <1>1, <1>2
    <2>4. QED
      BY <1>2, <1>3, <2>1, <2>2, <2>3 DEF ListingInv
  <1>5. /\ probe.waits = <<>> /\ probe.attempt = 0 /\ probe.state = "probing"
        /\ probe.lastCode = "none"
    BY DEF Mcp!ClientInit
  <1>6. Mcp!ReconnectsAreBounded
    BY <1>5, ClientAssumption DEF Mcp!ReconnectsAreBounded
  <1>7. ProbeInv
    BY <1>5, <1>6 DEF ProbeInv, Mcp!ClientInit
  <1>8. QED
    BY <1>4, <1>7 DEF ClientInv

LEMMA ClientRests == ASSUME ClientInv, UNCHANGED clientPart PROVE ClientInv'
  BY DEF clientPart, ClientInv, ListingInv, ProbeInv, Mcp!ReconnectsAreBounded

(* The subsets of 1 .. n are 2 ^ n, so one element more doubles the power. *)
LEMMA PowerDoubles == ASSUME NEW n \in Nat PROVE 2 ^ (n + 1) = 2 * 2 ^ n /\ 2 ^ n \in Nat
  <1> DEFINE A == SUBSET (1 .. n)
             B == SUBSET (1 .. (n + 1))
             C == {X \in B : n + 1 \in X}
             f == [X \in A |-> X \cup {n + 1}]
  <1>1. IsFiniteSet(1 .. n) /\ Cardinality(1 .. n) = n
    BY FS_Interval
  <1>2. IsFiniteSet(1 .. (n + 1)) /\ Cardinality(1 .. (n + 1)) = n + 1
    BY FS_Interval
  <1>3. IsFiniteSet(A) /\ Cardinality(A) = 2 ^ n
    BY <1>1, FS_SUBSET
  <1>4. IsFiniteSet(B) /\ Cardinality(B) = 2 ^ (n + 1)
    BY <1>2, FS_SUBSET
  <1>5. \A X \in A : X \cup {n + 1} \in C
    OBVIOUS
  <1>6. \A X, Y \in A : X \cup {n + 1} = Y \cup {n + 1} => X = Y
    <2>1. \A X \in A : (X \cup {n + 1}) \ {n + 1} = X
      OBVIOUS
    <2>2. QED
      BY <2>1
  <1>7. \A Y \in C : Y \ {n + 1} \in A /\ Y = (Y \ {n + 1}) \cup {n + 1}
    OBVIOUS
  <1>8. f \in Bijection(A, C)
    <2>1. f \in Injection(A, C)
      BY <1>5, <1>6 DEF Injection, IsInjective
    <2>2. \A t \in C : \E s \in A : f[s] = t
      BY <1>7
    <2>3. f \in [A -> C]
      BY <1>5
    <2>4. QED
      BY <2>1, <2>2, <2>3 DEF Bijection, Surjection
  <1>9. IsFiniteSet(C) /\ Cardinality(C) = Cardinality(A)
    BY <1>3, <1>8, FS_Bijection DEF ExistsBijection
  <1>10. B = A \cup C /\ A \cap C = {}
    OBVIOUS
  <1>11. Cardinality(A \cup C) = Cardinality(A) + Cardinality(C) - Cardinality(A \cap C)
    BY <1>3, <1>9, FS_Union
  <1>12. Cardinality(A) \in Nat
    BY <1>3, FS_CardinalityType
  <1>13. Cardinality(A \cap C) = 0
    BY <1>10, FS_EmptySet
  <1>14. Cardinality(B) = 2 * Cardinality(A)
    <2> HIDE DEF A, B, C
    <2> QED
      BY <1>9, <1>10, <1>11, <1>12, <1>13
  <1>15. QED
    <2> HIDE DEF A, B, C
    <2>1. 2 ^ n \in Nat
      BY <1>3, <1>12, Zenon
    <2>2. 2 ^ (n + 1) = 2 * 2 ^ n
      BY <1>3, <1>4, <1>14, Zenon
    <2>3. QED
      BY <2>1, <2>2

LEMMA Fresh ==
    ASSUME NEW S, NEW s \in Seq(S), Mcp!IsInjective(s), NEW x \in S, \A i \in DOMAIN s : s[i] # x
    PROVE  Append(s, x) \in Seq(S) /\ Mcp!IsInjective(Append(s, x)) /\ Len(Append(s, x)) = Len(s) + 1
  <1>1. /\ Append(s, x) \in Seq(S) /\ Len(Append(s, x)) = Len(s) + 1
        /\ DOMAIN Append(s, x) = 1 .. (Len(s) + 1) /\ DOMAIN s = 1 .. Len(s) /\ Len(s) \in Nat
        /\ \A i \in 1 .. Len(s) : Append(s, x)[i] = s[i]
        /\ Append(s, x)[Len(s) + 1] = x
    OBVIOUS
  <1>2. PICK t : t = Append(s, x)
    OBVIOUS
  <1>3. ASSUME NEW a \in DOMAIN t, NEW b \in DOMAIN t, t[a] = t[b] PROVE a = b
    <2>1. a \in 1 .. (Len(s) + 1) /\ b \in 1 .. (Len(s) + 1)
      BY <1>1, <1>2
    <2>2. CASE a = Len(s) + 1 \/ b = Len(s) + 1
      BY <1>1, <1>2, <1>3, <2>1, <2>2
    <2>3. CASE a \in 1 .. Len(s) /\ b \in 1 .. Len(s)
      BY <1>1, <1>2, <1>3, <2>3 DEF Mcp!IsInjective
    <2>4. QED
      BY <1>1, <2>1, <2>2, <2>3
  <1>4. QED
    BY <1>1, <1>2, <1>3 DEF Mcp!IsInjective

LEMMA ListingFails ==
    ASSUME ListingInv, NEW code, Mcp!Fails(code)
    PROVE  ListingInv'
  <1>1. listing' = Listing("failed", <<>>, listing.asked, listing.seen, 0, listing.whole, code)
    BY DEF Mcp!Fails, ListingInv, Listing
  <1>2. /\ listing'.state = "failed" /\ listing'.tools = <<>> /\ listing'.asked = listing.asked
        /\ listing'.seen = listing.seen /\ listing'.bytes = 0 /\ listing'.whole = listing.whole
        /\ listing'.code = code
    BY <1>1, ListingFields
  <1>3. QED
    BY <1>1, <1>2 DEF ListingInv

LEMMA PageStep ==
    ASSUME ListingInv, NEW size, NEW page, NEW c \in Cursors \cup {"none"},
           Mcp!PageArrives(size, page, c)
    PROVE  ListingInv'
  <1>1. PICK all : all = listing.tools \o [i \in DOMAIN page |-> Mcp!Normalize(page[i])]
    OBVIOUS
  <1>2. PICK defects :
            defects = ({page[i].defect : i \in DOMAIN page} \ {"none"})
                          \cup (IF Mcp!UniqueNames(all) THEN {} ELSE {"duplicate_tool_name"})
                          \cup (IF Len(all) > MaxListed THEN {"result_too_large"} ELSE {})
    OBVIOUS
  <1>3. \/ \E code : Mcp!Fails(code)
        \/ /\ defects = {} /\ c = "none"
           /\ listing' = [listing EXCEPT !.state = "listed", !.tools = all, !.whole = TRUE]
        \/ /\ c # "none" /\ c \notin listing.seen /\ Len(listing.asked) # MaxPages
           /\ listing.state = "running"
           /\ listing' = [listing EXCEPT !.tools = all, !.bytes = @ + size,
                                         !.seen = @ \cup {c}, !.asked = Append(@, c)]
    BY <1>1, <1>2, Zenon DEF Mcp!PageArrives, Mcp!NoCursor, Mcp!Repeated
  <1>4. CASE \E code : Mcp!Fails(code)
    BY <1>4, ListingFails
  <1>5. ASSUME defects = {}, listing' = [listing EXCEPT !.state = "listed", !.tools = all, !.whole = TRUE]
        PROVE  ListingInv'
    <2>1. listing' = Listing("listed", all, listing.asked, listing.seen, listing.bytes, TRUE, listing.code)
      BY <1>5 DEF ListingInv, Listing
    <2>2. /\ listing'.state = "listed" /\ listing'.tools = all /\ listing'.asked = listing.asked
          /\ listing'.seen = listing.seen /\ listing'.bytes = listing.bytes /\ listing'.whole = TRUE
          /\ listing'.code = listing.code
      BY <2>1 DEF Listing
    <2>3. Mcp!UniqueNames(all)
      BY <1>2, <1>5
    <2>4. QED
      BY <2>1, <2>2, <2>3 DEF ListingInv
  <1>6. ASSUME c # "none", c \notin listing.seen, Len(listing.asked) # MaxPages, listing.state = "running",
               listing' = [listing EXCEPT !.tools = all, !.bytes = @ + size,
                                          !.seen = @ \cup {c}, !.asked = Append(@, c)]
        PROVE  ListingInv'
    <2>1. listing' = Listing("running", all, Append(listing.asked, c), listing.seen \cup {c},
                             listing.bytes + size, listing.whole, listing.code)
      BY <1>6 DEF ListingInv, Listing
    <2>2. /\ listing'.state = "running" /\ listing'.tools = all /\ listing'.asked = Append(listing.asked, c)
          /\ listing'.seen = listing.seen \cup {c} /\ listing'.bytes = listing.bytes + size
          /\ listing'.whole = listing.whole /\ listing'.code = listing.code
      BY <2>1 DEF Listing
    <2>3. PICK s \in Seq(Cursors \cup {"none"}) : s = listing.asked
      BY DEF ListingInv
    <2>4. \A i \in DOMAIN s : s[i] # c /\ s[i] \in listing.seen \cup {"none"}
      BY <1>6, <2>3 DEF ListingInv
    <2>5. Mcp!IsInjective(s) /\ Len(s) < MaxPages /\ Len(s) \in Nat
      BY <1>6, <2>3, ClientAssumption DEF ListingInv
    <2>6. PICK t : t = Append(s, c)
      OBVIOUS
    <2>7. /\ t \in Seq(Cursors \cup {"none"}) /\ Mcp!IsInjective(t) /\ Len(t) = Len(s) + 1
      BY <2>4, <2>5, <2>6, Fresh
    <2>8. \A i \in DOMAIN t : t[i] \in listing.seen \cup {c} \cup {"none"}
      BY <2>4, <2>6
    <2>9. QED
      <3>1. /\ listing'.asked = t /\ Len(t) <= MaxPages
        BY <2>2, <2>3, <2>5, <2>6, <2>7, ClientAssumption
      <3>2. QED
        BY <2>1, <2>2, <2>3, <2>6, <2>7, <2>8, <3>1 DEF ListingInv
  <1>7. QED
    BY <1>3, <1>4, <1>5, <1>6

LEMMA ProbeStep ==
    ASSUME ProbeInv, Mcp!ProbeSucceeds \/ \E code \in Mcp!Transient \cup Mcp!ClientCodes : Mcp!ProbeFails(code)
    PROVE  ProbeInv'
  <1>1. PICK st, at, ws, lc : probe = [state |-> st, attempt |-> at, waits |-> ws, lastCode |-> lc]
    BY DEF ProbeInv
  <1>2. /\ ws \in Seq(Nat) /\ at \in Nat /\ Len(ws) = at /\ at <= ReconnectAttempts
        /\ \A i \in 1 .. Len(ws) : ws[i] = 2 ^ (i - 1)
        /\ \A i \in 2 .. Len(ws) : ws[i] = 2 * ws[i - 1]
        /\ st = "probing" => lc \in Mcp!Transient \cup {"none"}
    BY <1>1 DEF ProbeInv, Mcp!ReconnectsAreBounded
  <1>3. ASSUME NEW s2 \in {"available", "unavailable"}, NEW l2,
               probe' = [state |-> s2, attempt |-> at, waits |-> ws, lastCode |-> l2]
        PROVE  ProbeInv'
    BY <1>2, <1>3 DEF ProbeInv, Mcp!ReconnectsAreBounded
  <1>4. CASE Mcp!ProbeSucceeds
    <2>1. probe' = [state |-> "available", attempt |-> at, waits |-> ws, lastCode |-> lc]
      BY <1>1, <1>4 DEF Mcp!ProbeSucceeds
    <2>2. QED
      BY <1>3, <2>1
  <1>5. ASSUME NEW code, Mcp!ProbeFails(code) PROVE ProbeInv'
    <2>1. CASE ~Mcp!Retryable(code) \/ probe.attempt = ReconnectAttempts
      <3>1. probe' = [state |-> "unavailable", attempt |-> at, waits |-> ws, lastCode |-> code]
        BY <1>1, <1>5, <2>1 DEF Mcp!ProbeFails
      <3>2. QED
        BY <1>3, <3>1
    <2>2. CASE ~(~Mcp!Retryable(code) \/ probe.attempt = ReconnectAttempts)
      <3>1. PICK w : w = 2 ^ at
        OBVIOUS
      <3>2. probe' = [state |-> st, attempt |-> at + 1, waits |-> Append(ws, w), lastCode |-> code]
        BY <1>1, <1>5, <2>2, <3>1 DEF Mcp!ProbeFails
      <3>3. w \in Nat
        BY <1>2, <3>1, PowerDoubles
      <3>4. at > 0 => w = 2 * ws[at]
        <4>1. SUFFICES ASSUME at > 0 PROVE w = 2 * ws[at]
          OBVIOUS
        <4>2. PICK m \in Nat : m = at - 1
          BY <1>2, <4>1
        <4>3. 2 ^ (m + 1) = 2 * 2 ^ m
          BY PowerDoubles
        <4>4. ws[at] = 2 ^ m /\ at = m + 1
          BY <1>2, <4>1, <4>2
        <4>5. QED
          BY <3>1, <4>3, <4>4
      <3>5. PICK t : t = Append(ws, w)
        OBVIOUS
      <3>6. /\ t \in Seq(Nat) /\ Len(t) = at + 1 /\ t[at + 1] = w
            /\ \A i \in 1 .. at : t[i] = ws[i]
        BY <1>2, <3>3, <3>5
      <3>7. \A i \in 2 .. Len(t) : t[i] = 2 * t[i - 1]
        <4>1. SUFFICES ASSUME NEW i \in 2 .. (at + 1) PROVE t[i] = 2 * t[i - 1]
          BY <3>6
        <4>2. CASE i = at + 1
          <5>1. i - 1 = at /\ at > 0 /\ at \in 1 .. at
            BY <1>2, <4>2
          <5>2. QED
            BY <3>4, <3>6, <4>2, <5>1
        <4>3. CASE i # at + 1
          <5>1. i \in 1 .. at /\ i - 1 \in 1 .. at /\ i \in 2 .. Len(ws)
            BY <1>2, <4>1, <4>3
          <5>2. QED
            BY <1>2, <3>6, <5>1
        <4>4. QED
          BY <4>2, <4>3
      <3>8. \A i \in 1 .. Len(t) : t[i] = 2 ^ (i - 1)
        <4>1. SUFFICES ASSUME NEW i \in 1 .. (at + 1) PROVE t[i] = 2 ^ (i - 1)
          BY <3>6
        <4>2. CASE i = at + 1
          <5>1. i - 1 = at
            BY <1>2, <4>2
          <5>2. QED
            BY <3>1, <3>6, <4>2, <5>1
        <4>3. CASE i # at + 1
          BY <1>2, <3>6, <4>1, <4>3
        <4>4. QED
          BY <4>2, <4>3
      <3>9. code \in Mcp!Transient \cup {"none"} /\ at + 1 <= ReconnectAttempts
        BY <1>1, <1>2, <2>2, ClientAssumption DEF Mcp!Retryable
      <3>10. /\ probe'.state = st /\ probe'.attempt = at + 1 /\ probe'.waits = t /\ probe'.lastCode = code
        BY <3>2, <3>5
      <3>11. Mcp!ReconnectsAreBounded'
        BY <3>6, <3>7, <3>9, <3>10 DEF Mcp!ReconnectsAreBounded
      <3>12. QED
        BY <1>2, <3>2, <3>5, <3>6, <3>8, <3>10, <3>11 DEF ProbeInv
    <2>3. QED
      BY <2>1, <2>2
  <1>6. QED
    BY <1>4, <1>5

LEMMA ClientNextStep == ASSUME ClientInv, Mcp!ClientNext PROVE ClientInv'
  <1>1. ListingInv /\ ProbeInv
    BY DEF ClientInv
  <1>2. ASSUME NEW size, NEW page, NEW c \in Cursors \cup {"none"}, Mcp!PageArrives(size, page, c)
        PROVE  ClientInv'
    <2>1. UNCHANGED probe
      BY <1>2 DEF Mcp!PageArrives
    <2>2. QED
      BY <1>1, <1>2, <2>1, PageStep DEF ClientInv, ProbeInv, Mcp!ReconnectsAreBounded
  <1>3. ASSUME NEW causes, Mcp!SessionFails(causes) PROVE ClientInv'
    <2>1. UNCHANGED probe /\ Mcp!Fails(Mcp!SessionCode(causes))
      BY <1>3 DEF Mcp!SessionFails
    <2>2. ListingInv'
      BY <1>1, <2>1, ListingFails
    <2>3. QED
      BY <1>1, <2>1, <2>2 DEF ClientInv, ProbeInv, Mcp!ReconnectsAreBounded
  <1>4. ASSUME UNCHANGED <<listing, probe>> PROVE ClientInv'
    BY <1>1, <1>4 DEF ClientInv, ListingInv, ProbeInv, Mcp!ReconnectsAreBounded
  <1>5. ASSUME UNCHANGED listing, Mcp!ProbeSucceeds \/ \E code \in Mcp!Transient \cup Mcp!ClientCodes : Mcp!ProbeFails(code)
        PROVE ClientInv'
    BY <1>1, <1>5, ProbeStep DEF ClientInv, ListingInv
  <1>6. QED
    BY <1>2, <1>3, <1>4, <1>5, Zenon
       DEF Mcp!ClientNext, Mcp!CallFails, Mcp!CallTool, Mcp!ProbeSucceeds, Mcp!ProbeFails, Mcp!NoCursor

LEMMA ClientPromise ==
    ASSUME ClientInv PROVE Mcp!ListingIsWholeAndBounded /\ Mcp!ReconnectsAreBounded
  BY DEF ClientInv, ListingInv, ProbeInv, Mcp!ListingIsWholeAndBounded

-----------------------------------------------------------------------------
(* Ranks in a finite ordered set. *)

(* The members of a finite set in an order R: each has its place. *)
Before(S, R, x) == {y \in S : <<y, x>> \in R}

TotalOrder(S, R) ==
    /\ \A x \in S : <<x, x>> \notin R
    /\ \A x, y, z \in S : <<x, y>> \in R /\ <<y, z>> \in R => <<x, z>> \in R
    /\ \A x, y \in S : x = y \/ <<x, y>> \in R \/ <<y, x>> \in R

LEMMA RankGrows ==
    ASSUME NEW S, IsFiniteSet(S), NEW R, TotalOrder(S, R), NEW x \in S, NEW y \in S, <<x, y>> \in R
    PROVE  Cardinality(Before(S, R, x)) < Cardinality(Before(S, R, y))
  <1>1. Before(S, R, x) \subseteq Before(S, R, y)
    BY DEF Before, TotalOrder
  <1>2. x \in Before(S, R, y) /\ x \notin Before(S, R, x)
    BY DEF Before, TotalOrder
  <1>3. Before(S, R, y) \subseteq S
    BY DEF Before
  <1>4. IsFiniteSet(Before(S, R, y))
    BY <1>3, FS_Subset
  <1>5. /\ IsFiniteSet(Before(S, R, x))
        /\ Cardinality(Before(S, R, x)) <= Cardinality(Before(S, R, y))
        /\ Cardinality(Before(S, R, y)) = Cardinality(Before(S, R, x)) => Before(S, R, y) = Before(S, R, x)
    BY <1>1, <1>4, FS_Subset
  <1>6. Cardinality(Before(S, R, y)) \in Nat /\ Cardinality(Before(S, R, x)) \in Nat
    BY <1>4, <1>5, FS_CardinalityType
  <1>7. Before(S, R, y) # Before(S, R, x)
    BY <1>2
  <1>8. QED
    BY <1>5, <1>6, <1>7

(* The ranks are 0 up to the size, each once. *)
LEMMA RanksFill ==
    ASSUME NEW S, IsFiniteSet(S), NEW R, TotalOrder(S, R)
    PROVE  /\ Cardinality(S) \in Nat
           /\ \A x \in S : Cardinality(Before(S, R, x)) \in 0 .. (Cardinality(S) - 1)
           /\ \A x, y \in S : Cardinality(Before(S, R, x)) = Cardinality(Before(S, R, y)) => x = y
           /\ \A k \in 0 .. (Cardinality(S) - 1) : \E x \in S : Cardinality(Before(S, R, x)) = k
  <1>1. Cardinality(S) \in Nat
    BY FS_CardinalityType
  <1>2. ASSUME NEW x \in S PROVE Cardinality(Before(S, R, x)) \in 0 .. (Cardinality(S) - 1)
    <2>1. Before(S, R, x) \subseteq S \ {x}
      BY DEF Before, TotalOrder
    <2>2. IsFiniteSet(S \ {x}) /\ Cardinality(S \ {x}) = Cardinality(S) - 1
      BY FS_RemoveElement
    <2>3. IsFiniteSet(Before(S, R, x)) /\ Cardinality(Before(S, R, x)) <= Cardinality(S \ {x})
      BY <2>1, <2>2, FS_Subset
    <2>4. Cardinality(Before(S, R, x)) \in Nat
      BY <2>3, FS_CardinalityType
    <2>5. QED
      BY <1>1, <2>2, <2>3, <2>4
  <1>3. ASSUME NEW x \in S, NEW y \in S, Cardinality(Before(S, R, x)) = Cardinality(Before(S, R, y))
        PROVE  x = y
    <2>1. Cardinality(Before(S, R, x)) \in Int /\ Cardinality(Before(S, R, y)) \in Int
      BY <1>1, <1>2
    <2>2. <<x, y>> \notin R
      BY <1>3, <2>1, RankGrows
    <2>3. <<y, x>> \notin R
      BY <1>3, <2>1, RankGrows
    <2>4. QED
      BY <2>2, <2>3 DEF TotalOrder
  <1> DEFINE T == 0 .. (Cardinality(S) - 1)
             f == [x \in S |-> Cardinality(Before(S, R, x))]
  <1>4. IsFiniteSet(T) /\ Cardinality(T) = Cardinality(S)
    BY <1>1, FS_Interval
  <1>5. f \in Injection(S, T)
    <2>1. f \in [S -> T]
      BY <1>2
    <2>2. \A x, y \in S : f[x] = f[y] => x = y
      BY <1>3
    <2>3. QED
      BY <2>1, <2>2 DEF Injection, IsInjective
  <1>6. f \in Surjection(S, T)
    BY <1>4, <1>5, FS_Injection
  <1>7. \A k \in T : \E x \in S : f[x] = k
    BY <1>6 DEF Surjection
  <1>8. QED
    BY <1>1, <1>2, <1>3, <1>7

-----------------------------------------------------------------------------
(* The limiter of one process. *)

(* e is what is left of the stamps s inside the window: h tells where each  *)
(* of them was, and no stamp inside the window is missing.                  *)
LeftOf(e, s, h, now) ==
    /\ e \in Seq(Nat) /\ Len(e) <= Len(s)
    /\ h \in [1 .. Len(e) -> 1 .. Len(s)]
    /\ \A k \in 1 .. Len(e) : e[k] = s[h[k]]
    /\ \A i \in 1 .. Len(s) : s[i] > now - RateWindow => \E k \in 1 .. Len(e) : h[k] = i

Within(s, now) == {i \in DOMAIN s : s[i] > now - RateWindow}
Earlier(W) == {p \in W \X W : p[1] < p[2]}

LEMMA Segment == ASSUME NEW n \in Nat PROVE IsFiniteSet(1 .. n) /\ Cardinality(1 .. n) = n
  BY FS_Interval

LEMMA ActiveIsLeft ==
    ASSUME NEW s \in Seq(Nat), accessClock \in Nat
    PROVE  \E h : LeftOf(Access!Active(s), s, h, accessClock)
  <1>1. PICK W : W = Within(s, accessClock)
    OBVIOUS
  <1>2. W \subseteq 1 .. Len(s) /\ Len(s) \in Nat /\ W \subseteq Nat
    BY <1>1 DEF Within
  <1>3. IsFiniteSet(W) /\ Cardinality(W) <= Len(s)
    <2>1. IsFiniteSet(1 .. Len(s)) /\ Cardinality(1 .. Len(s)) = Len(s)
      BY <1>2, Segment
    <2>2. QED
      BY <1>2, <2>1, FS_Subset
  <1>4. PICK R : R = Earlier(W)
    OBVIOUS
  <1>5. TotalOrder(W, R)
    BY <1>2, <1>4 DEF TotalOrder, Earlier
  <1>6. \A i \in W : Before(W, R, i) = {j \in W : j < i}
    BY <1>4 DEF Before, Earlier
  <1>7. PICK n : n = Access!Cardinality(W)
    OBVIOUS
  <1> DEFINE place(i) == Access!Cardinality({j \in W : j < i})
             h == [k \in 1 .. n |-> CHOOSE i \in W : place(i) = k - 1]
  <1>8. n = Cardinality(W) /\ n \in Nat /\ n <= Len(s)
    BY <1>3, <1>7, AccessCardinality, FS_CardinalityType
  <1>9. /\ \A i \in W : place(i) \in 0 .. (n - 1)
        /\ \A i, l \in W : place(i) = place(l) => i = l
        /\ \A k \in 0 .. (n - 1) : \E i \in W : place(i) = k
    <2>1. /\ \A i \in W : Cardinality(Before(W, R, i)) \in 0 .. (n - 1)
          /\ \A i, l \in W : Cardinality(Before(W, R, i)) = Cardinality(Before(W, R, l)) => i = l
          /\ \A k \in 0 .. (n - 1) : \E i \in W : Cardinality(Before(W, R, i)) = k
      BY <1>3, <1>5, <1>8, RanksFill
    <2>2. \A i \in W : place(i) = Cardinality(Before(W, R, i))
      BY <1>6, AccessCardinality
    <2> HIDE DEF place
    <2>3. QED
      BY <2>1, <2>2
  <1> HIDE DEF place
  <1>10. \A k \in 1 .. n : h[k] \in W /\ place(h[k]) = k - 1
    <2>1. TAKE k \in 1 .. n
    <2>2. k - 1 \in 0 .. (n - 1)
      BY <1>8
    <2>3. \E i \in W : place(i) = k - 1
      BY <1>9, <2>2
    <2>4. QED
      BY <2>3
  <1>11. Access!Active(s) = [k \in 1 .. n |-> s[h[k]]]
    BY <1>1, <1>7 DEF Access!Active, Within, place
  <1>12. DOMAIN h = 1 .. n /\ h = [k \in DOMAIN h |-> h[k]]
    OBVIOUS
  <1> HIDE DEF h
  <1>13. PICK e : e = [k \in 1 .. n |-> s[h[k]]]
    OBVIOUS
  <1>14. \A k \in 1 .. n : h[k] \in 1 .. Len(s) /\ e[k] = s[h[k]] /\ s[h[k]] \in Nat
    <2>1. TAKE k \in 1 .. n
    <2>2. h[k] \in 1 .. Len(s)
      BY <1>2, <1>10
    <2>3. s[h[k]] \in Nat
      BY <2>2
    <2>4. QED
      BY <1>13, <2>2, <2>3
  <1>15. e \in Seq(Nat) /\ Len(e) = n
    BY <1>8, <1>13, <1>14
  <1>16. h \in [1 .. Len(e) -> 1 .. Len(s)]
    BY <1>12, <1>14, <1>15
  <1>17. ASSUME NEW i \in 1 .. Len(s), s[i] > accessClock - RateWindow
         PROVE  \E k \in 1 .. Len(e) : h[k] = i
    <2>1. i \in W
      BY <1>1, <1>17 DEF Within
    <2>2. PICK r \in 0 .. (n - 1) : r = place(i)
      BY <1>9, <2>1
    <2> DEFINE k == r + 1
    <2>3. k \in 1 .. n /\ place(i) = k - 1
      BY <1>8, <2>2
    <2>4. h[k] = i
      BY <1>9, <1>10, <2>1, <2>3
    <2>5. QED
      BY <1>15, <2>3, <2>4
  <1>18. LeftOf(e, s, h, accessClock)
    BY <1>8, <1>14, <1>15, <1>16, <1>17 DEF LeftOf
  <1>19. QED
    BY <1>11, <1>13, <1>18

(* The verdict of a check. *)
Verdict(b, t, al, r, e) == [bucket |-> b, at |-> t, allowed |-> al, retry |-> r, entries |-> e]

Buckets == {"user", "ip"}

IsVerdict(v) ==
    /\ v.bucket \in Buckets /\ v.at \in Nat /\ v.allowed \in BOOLEAN

(* The admissions of a bucket inside the window that ends at t. *)
Admitted(vs, b, t) ==
    {j \in DOMAIN vs : vs[j].allowed /\ vs[j].bucket = b /\ vs[j].at \in (t - RateWindow + 1) .. t}

(* Each admission in J has its entry in the window w: g names it. *)
Entered(w, g, J) == g \in [1 .. Len(w) -> Nat] /\ \A j \in J : \E k \in 1 .. Len(w) : g[k] = j

(* The same, with the entry's stamp the admission's time. *)
Stamped(w, g, vs, b, now) ==
    /\ g \in [1 .. Len(w) -> Nat]
    /\ \A j \in DOMAIN vs :
           vs[j].allowed /\ vs[j].bucket = b /\ vs[j].at > now - RateWindow =>
               \E k \in 1 .. Len(w) : g[k] = j /\ w[k] = vs[j].at

(* A refused caller that returns when it was told finds a place. *)
Promised(v) ==
    ~v.allowed =>
        Cardinality({k \in DOMAIN v.entries : v.entries[k] > v.at + v.retry - RateWindow}) < Limit

VerdictInv ==
    /\ accessClock \in Nat
    /\ \E S : verdicts \in Seq(S)
    /\ \A i \in DOMAIN verdicts :
           /\ IsVerdict(verdicts[i]) /\ verdicts[i].at <= accessClock /\ Promised(verdicts[i])
           /\ Full(Admitted(verdicts, verdicts[i].bucket, verdicts[i].at))

WindowInv ==
    /\ localWindow = [b \in Buckets |-> localWindow[b]]
    /\ \A b \in Buckets :
           /\ localWindow[b] \in Seq(Nat) /\ Len(localWindow[b]) <= Limit
           /\ \E g : Stamped(localWindow[b], g, verdicts, b, accessClock)

LocalInv == VerdictInv /\ WindowInv

(* As many admissions as entries, at most. *)
LEMMA EnteredFit ==
    ASSUME NEW w \in Seq(Nat), NEW g, NEW J, Entered(w, g, J), Len(w) <= Limit
    PROVE  Full(J)
  <1> DEFINE T == {g[k] : k \in 1 .. Len(w)}
  <1>1. Len(w) \in Nat
    OBVIOUS
  <1>2. IsFiniteSet(1 .. Len(w)) /\ Cardinality(1 .. Len(w)) = Len(w)
    BY <1>1, Segment
  <1>3. g \in Surjection(1 .. Len(w), T)
    BY DEF Entered, Surjection
  <1>4. IsFiniteSet(T) /\ Cardinality(T) <= Len(w)
    BY <1>2, <1>3, FS_Surjection
  <1>5. J \subseteq T
    BY DEF Entered
  <1>6. IsFiniteSet(J) /\ Cardinality(J) <= Cardinality(T)
    BY <1>4, <1>5, FS_Subset
  <1>7. Cardinality(J) \in Nat /\ Cardinality(T) \in Nat
    BY <1>4, <1>6, FS_CardinalityType
  <1>8. QED
    BY <1>1, <1>4, <1>6, <1>7, RateAssumption DEF Full

LEMMA AccessMax ==
    ASSUME NEW x \in Int
    PROVE  Access!Max({1, x}) \in Int /\ Access!Max({1, x}) >= x /\ Access!Max({1, x}) >= 1
  <1>1. \E m \in {1, x} : \A y \in {1, x} : m >= y
    OBVIOUS
  <1>2. PICK m : m = Access!Max({1, x})
    OBVIOUS
  <1>3. m \in {1, x} /\ \A y \in {1, x} : m >= y
    BY <1>1, <1>2 DEF Access!Max
  <1>4. QED
    BY <1>2, <1>3

(* When a caller is refused, the oldest entry leaves by the time it is      *)
(* told.                                                                    *)
LEMMA RefusalPromises ==
    ASSUME NEW e \in Seq(Nat), Len(e) <= Limit, Len(e) > 0, accessClock \in Nat
    PROVE  Cardinality({k \in DOMAIN e : e[k] > accessClock + Access!RetryAfter(e) - RateWindow}) < Limit
  <1>1. PICK r \in Int : r = Access!RetryAfter(e) /\ r >= e[1] + RateWindow - accessClock
    <2>1. e[1] \in Nat
      OBVIOUS
    <2>2. e[1] + RateWindow - accessClock \in Int
      BY <2>1, RateAssumption
    <2>3. QED
      BY <2>2, AccessMax DEF Access!RetryAfter
  <1>2. PICK K : K = {k \in DOMAIN e : e[k] > accessClock + r - RateWindow}
    OBVIOUS
  <1>3. K \subseteq (1 .. Len(e)) \ {1}
    <2>1. e[1] \in Nat /\ DOMAIN e = 1 .. Len(e)
      OBVIOUS
    <2>2. ~(e[1] > accessClock + r - RateWindow)
      BY <1>1, <2>1, RateAssumption
    <2>3. QED
      BY <1>2, <2>1, <2>2
  <1>4. PICK n \in Nat : n = Len(e)
    OBVIOUS
  <1>5. IsFiniteSet(1 .. n) /\ Cardinality(1 .. n) = n
    BY Segment
  <1>6. IsFiniteSet((1 .. n) \ {1}) /\ Cardinality((1 .. n) \ {1}) = n - 1
    <2>1. 1 \in 1 .. n
      BY <1>4
    <2>2. QED
      BY <1>5, <2>1, FS_RemoveElement
  <1>7. IsFiniteSet(K) /\ Cardinality(K) <= n - 1
    <2>1. PICK T : T = (1 .. n) \ {1}
      OBVIOUS
    <2>2. K \subseteq T
      BY <1>3, <1>4, <2>1
    <2>3. IsFiniteSet(K) /\ Cardinality(K) <= Cardinality(T)
      BY <1>6, <2>1, <2>2, FS_Subset
    <2>4. QED
      BY <1>6, <2>1, <2>3
  <1>8. Cardinality(K) \in Nat
    BY <1>7, FS_CardinalityType
  <1>9. QED
    BY <1>1, <1>2, <1>4, <1>7, <1>8, RateAssumption

(* The entries that stay keep their admissions. *)
LEMMA StampedLeft ==
    ASSUME NEW w \in Seq(Nat), NEW e, NEW h, NEW now \in Nat, LeftOf(e, w, h, now),
           NEW g, NEW vs, NEW b, Stamped(w, g, vs, b, now)
    PROVE  \E f : Stamped(e, f, vs, b, now)
  <1> DEFINE f == [k \in 1 .. Len(e) |-> g[h[k]]]
  <1>1. \A k \in 1 .. Len(e) : h[k] \in 1 .. Len(w) /\ g[h[k]] \in Nat /\ e[k] = w[h[k]]
    BY DEF LeftOf, Stamped
  <1>2. f \in [1 .. Len(e) -> Nat]
    BY <1>1
  <1>3. ASSUME NEW j \in DOMAIN vs, vs[j].allowed, vs[j].bucket = b, vs[j].at > now - RateWindow
        PROVE  \E k \in 1 .. Len(e) : f[k] = j /\ e[k] = vs[j].at
    <2>1. PICK i \in 1 .. Len(w) : g[i] = j /\ w[i] = vs[j].at
      BY <1>3 DEF Stamped
    <2>2. PICK k \in 1 .. Len(e) : h[k] = i
      BY <1>3, <2>1 DEF LeftOf
    <2>3. QED
      BY <1>1, <2>1, <2>2
  <1> HIDE DEF f
  <1>4. Stamped(e, f, vs, b, now)
    BY <1>2, <1>3 DEF Stamped
  <1>5. QED
    BY <1>4

(* vs2 is vs and one verdict more. *)
OneMore(vs2, vs, v, n) ==
    /\ n \in Nat /\ DOMAIN vs = 1 .. n /\ DOMAIN vs2 = 1 .. (n + 1)
    /\ vs2[n + 1] = v /\ \A i \in 1 .. n : vs2[i] = vs[i]

(* A refusal, or a check of the other bucket, needs no entry. *)
LEMMA StampedSame ==
    ASSUME NEW w, NEW g, NEW vs, NEW vs2, NEW v, NEW n, NEW b, NEW now, Stamped(w, g, vs, b, now),
           OneMore(vs2, vs, v, n), ~v.allowed \/ v.bucket # b
    PROVE  Stamped(w, g, vs2, b, now)
  <1>1. ASSUME NEW j \in DOMAIN vs2, vs2[j].allowed, vs2[j].bucket = b
        PROVE  j \in DOMAIN vs /\ vs2[j] = vs[j]
    BY <1>1 DEF OneMore
  <1>2. QED
    BY <1>1 DEF Stamped

(* An admission gets an entry. *)
LEMMA StampedMore ==
    ASSUME NEW e \in Seq(Nat), NEW g, NEW vs, NEW vs2, NEW v, NEW n, NEW b, NEW now \in Nat,
           Stamped(e, g, vs, b, now), OneMore(vs2, vs, v, n), v.at = now
    PROVE  \E f : Stamped(Append(e, now), f, vs2, b, now)
  <1>1. PICK w : w = Append(e, now)
    OBVIOUS
  <1>2. PICK m \in Nat : m = Len(e)
    OBVIOUS
  <1>3. /\ Len(w) = m + 1 /\ w[m + 1] = now /\ \A k \in 1 .. m : w[k] = e[k]
    BY <1>1, <1>2
  <1> DEFINE f == [k \in 1 .. (m + 1) |-> IF k = m + 1 THEN n + 1 ELSE g[k]]
  <1>4. n \in Nat
    BY DEF OneMore
  <1>5. \A k \in 1 .. m : f[k] = g[k] /\ g[k] \in Nat
    <2>1. TAKE k \in 1 .. m
    <2>2. g \in [1 .. m -> Nat]
      BY <1>2 DEF Stamped
    <2>3. k \in 1 .. (m + 1) /\ k # m + 1
      BY <1>2
    <2>4. QED
      BY <2>2, <2>3
  <1>6. f[m + 1] = n + 1 /\ m + 1 \in 1 .. (m + 1)
    OBVIOUS
  <1>7. f \in [1 .. (m + 1) -> Nat]
    BY <1>2, <1>4 DEF Stamped
  <1> HIDE DEF f
  <1>8. ASSUME NEW j \in DOMAIN vs2, vs2[j].allowed, vs2[j].bucket = b, vs2[j].at > now - RateWindow
        PROVE  \E k \in 1 .. Len(w) : f[k] = j /\ w[k] = vs2[j].at
    <2>1. CASE j = n + 1
      BY <1>3, <1>6, <2>1 DEF OneMore
    <2>2. CASE j # n + 1
      <3>1. j \in DOMAIN vs /\ vs2[j] = vs[j]
        BY <2>2 DEF OneMore
      <3>2. PICK k \in 1 .. m : g[k] = j /\ e[k] = vs[j].at
        BY <1>2, <1>8, <3>1 DEF Stamped
      <3>3. k \in 1 .. Len(w) /\ f[k] = j /\ w[k] = vs2[j].at
        BY <1>3, <1>5, <3>1, <3>2
      <3>4. QED
        BY <3>3
    <2>3. QED
      BY <2>1, <2>2
  <1>9. Stamped(w, f, vs2, b, now)
    BY <1>3, <1>7, <1>8 DEF Stamped
  <1>10. QED
    BY <1>1, <1>9

(* The window that ends now is covered by the entries. *)
LEMMA StampedFit ==
    ASSUME NEW w \in Seq(Nat), NEW g, NEW vs, NEW b, NEW now \in Nat, Stamped(w, g, vs, b, now),
           Len(w) <= Limit, \A j \in DOMAIN vs : IsVerdict(vs[j])
    PROVE  Full(Admitted(vs, b, now))
  <1>1. \A j \in Admitted(vs, b, now) :
            j \in DOMAIN vs /\ vs[j].allowed /\ vs[j].bucket = b /\ vs[j].at > now - RateWindow
    BY RateAssumption DEF Admitted, IsVerdict
  <1>2. PICK J : J = Admitted(vs, b, now)
    OBVIOUS
  <1>3. Entered(w, g, J)
    BY <1>1, <1>2 DEF Entered, Stamped
  <1>4. QED
    BY <1>2, <1>3, EnteredFit

(* An earlier window, or one of the other bucket, holds what it held. *)
LEMMA AdmittedSame ==
    ASSUME NEW vs, NEW vs2, NEW v, NEW n, OneMore(vs2, vs, v, n), NEW b, NEW t \in Nat, v.at \in Nat,
           v.bucket # b \/ t < v.at
    PROVE  Admitted(vs2, b, t) = Admitted(vs, b, t)
  <1>1. n + 1 \notin Admitted(vs2, b, t)
    BY DEF Admitted, OneMore
  <1>2. \A j : j \in Admitted(vs2, b, t) <=> j \in Admitted(vs, b, t)
    <2>1. TAKE j
    <2>2. CASE j \in 1 .. n
      BY <2>2 DEF Admitted, OneMore
    <2>3. CASE j \notin 1 .. n
      BY <1>1, <2>3 DEF Admitted, OneMore
    <2>4. QED
      BY <2>2, <2>3
  <1>3. QED
    BY <1>2

LEMMA WindowsAfter ==
    ASSUME WindowInv, NEW b \in Buckets, NEW w2 \in Seq(Nat), NEW v, NEW n, NEW f,
           localWindow' = [localWindow EXCEPT ![b] = w2], UNCHANGED accessClock, accessClock \in Nat,
           OneMore(verdicts', verdicts, v, n), v.bucket = b,
           Len(w2) <= Limit, Stamped(w2, f, verdicts', b, accessClock)
    PROVE  WindowInv'
  <1>1. localWindow' = [c \in Buckets |-> localWindow'[c]] /\ localWindow'[b] = w2
    BY DEF WindowInv
  <1>2. ASSUME NEW c \in Buckets
        PROVE  /\ localWindow'[c] \in Seq(Nat) /\ Len(localWindow'[c]) <= Limit
               /\ \E g : Stamped(localWindow'[c], g, verdicts', c, accessClock)
    <2>1. CASE c = b
      BY <1>1, <2>1
    <2>2. CASE c # b
      <3>1. localWindow'[c] = localWindow[c]
        BY <2>2 DEF WindowInv
      <3>2. PICK g : Stamped(localWindow[c], g, verdicts, c, accessClock)
        BY DEF WindowInv
      <3>3. Stamped(localWindow[c], g, verdicts', c, accessClock)
        BY <2>2, <3>2, StampedSame
      <3>4. QED
        BY <3>1, <3>3 DEF WindowInv
    <2>3. QED
      BY <2>1, <2>2
  <1>3. \A c \in Buckets :
            /\ localWindow'[c] \in Seq(Nat) /\ Len(localWindow'[c]) <= Limit
            /\ \E g : Stamped(localWindow'[c], g, verdicts', c, accessClock')
    BY <1>2
  <1>4. QED
    BY <1>1, <1>3, Zenon DEF WindowInv

LEMMA VerdictsAfter ==
    ASSUME VerdictInv, NEW v, NEW n, OneMore(verdicts', verdicts, v, n), UNCHANGED accessClock,
           \E S : verdicts' \in Seq(S), IsVerdict(v), v.at = accessClock, Promised(v),
           Full(Admitted(verdicts', v.bucket, accessClock))
    PROVE  VerdictInv'
  <1>1. ASSUME NEW i \in DOMAIN verdicts'
        PROVE  /\ IsVerdict(verdicts'[i]) /\ verdicts'[i].at <= accessClock /\ Promised(verdicts'[i])
               /\ Full(Admitted(verdicts', verdicts'[i].bucket, verdicts'[i].at))
    <2>1. CASE i = n + 1
      <3>1. verdicts'[i] = v
        BY <2>1 DEF OneMore
      <3>2. QED
        BY <3>1 DEF IsVerdict
    <2>2. CASE i # n + 1
      <3>1. i \in DOMAIN verdicts /\ verdicts'[i] = verdicts[i]
        BY <2>2 DEF OneMore
      <3>2. /\ IsVerdict(verdicts[i]) /\ verdicts[i].at <= accessClock /\ Promised(verdicts[i])
            /\ Full(Admitted(verdicts, verdicts[i].bucket, verdicts[i].at))
        BY <3>1 DEF VerdictInv
      <3>3. PICK t \in Nat : t = verdicts[i].at
        BY <3>2 DEF IsVerdict
      <3>4. PICK c : c = verdicts[i].bucket
        OBVIOUS
      <3>5. Full(Admitted(verdicts', c, t))
        <4>1. CASE c = v.bucket /\ t = accessClock
          BY <4>1
        <4>2. CASE v.bucket # c \/ t < v.at
          <5>1. Admitted(verdicts', c, t) = Admitted(verdicts, c, t)
            BY <4>2, AdmittedSame DEF IsVerdict
          <5>2. QED
            BY <3>2, <3>3, <3>4, <5>1
        <4>3. QED
          BY <3>2, <3>3, <4>1, <4>2 DEF VerdictInv
      <3>6. QED
        BY <3>1, <3>2, <3>3, <3>4, <3>5
    <2>3. QED
      BY <2>1, <2>2
  <1>2. accessClock' = accessClock /\ accessClock \in Nat
    BY DEF VerdictInv
  <1>3. QED
    BY <1>1, <1>2 DEF VerdictInv

LEMMA CheckStep ==
    ASSUME LocalInv, NEW b \in Buckets, NEW next, Access!CheckLocal(b, next)
    PROVE  LocalInv'
  <1>1. PICK w \in Seq(Nat) : w = localWindow[b] /\ Len(w) <= Limit
    BY DEF LocalInv, WindowInv
  <1>2. PICK g : Stamped(w, g, verdicts, b, accessClock)
    BY <1>1 DEF LocalInv, WindowInv
  <1>3. accessClock \in Nat /\ UNCHANGED accessClock
    BY DEF LocalInv, VerdictInv, Access!CheckLocal
  <1>4. PICK e : e = Access!Active(w)
    OBVIOUS
  <1>5. PICK h : LeftOf(e, w, h, accessClock)
    BY <1>3, <1>4, ActiveIsLeft
  <1>6. e \in Seq(Nat) /\ Len(e) <= Len(w)
    BY <1>5 DEF LeftOf
  <1>7. PICK f : Stamped(e, f, verdicts, b, accessClock)
    BY <1>2, <1>3, <1>5, StampedLeft
  <1>8. PICK al \in BOOLEAN : al = (Len(e) < Limit)
    <2>1. (Len(e) < Limit) \in BOOLEAN
      OBVIOUS
    <2>2. QED
      BY <2>1, Zenon
  <1>9. PICK r : r = IF al THEN 0 ELSE Access!RetryAfter(e)
    OBVIOUS
  <1>10. PICK v : v = Verdict(b, accessClock, al, r, e)
    OBVIOUS
  <1>11. PICK w2 : w2 = IF al THEN Append(e, accessClock) ELSE e
    OBVIOUS
  <1>12. verdicts' = Append(verdicts, v) /\ localWindow' = [localWindow EXCEPT ![b] = w2]
    BY <1>1, <1>4, <1>8, <1>9, <1>10, <1>11 DEF Access!CheckLocal, Verdict
  <1>13. PICK S : verdicts \in Seq(S)
    BY DEF LocalInv, VerdictInv
  <1>14. PICK n \in Nat : n = Len(verdicts)
    BY <1>13
  <1>15. OneMore(verdicts', verdicts, v, n)
    <2>1. /\ DOMAIN verdicts = 1 .. n /\ DOMAIN Append(verdicts, v) = 1 .. (n + 1)
          /\ Append(verdicts, v)[n + 1] = v
          /\ \A i \in 1 .. n : Append(verdicts, v)[i] = verdicts[i]
      BY <1>13, <1>14
    <2>2. QED
      BY <1>12, <2>1 DEF OneMore
  <1>16. \E Q : verdicts' \in Seq(Q)
    <2>1. PICK Q : Q = S \cup {v}
      OBVIOUS
    <2>2. Append(verdicts, v) \in Seq(Q)
      BY <1>13, <2>1
    <2>3. QED
      BY <1>12, <2>2
  <1>17. v.bucket = b /\ v.at = accessClock /\ v.allowed = al /\ v.retry = r /\ v.entries = e
    BY <1>10 DEF Verdict
  <1>18. IsVerdict(v)
    BY <1>3, <1>17 DEF IsVerdict
  <1>19. PICK m \in Nat : m = Len(e)
    BY <1>6
  <1>20. w2 \in Seq(Nat) /\ Len(w2) <= Limit /\ \E q : Stamped(w2, q, verdicts', b, accessClock)
    <2>1. CASE al
      <3>1. Append(e, accessClock) \in Seq(Nat) /\ Len(Append(e, accessClock)) = m + 1
        BY <1>3, <1>6, <1>19
      <3>2. m + 1 <= Limit
        <4>1. Len(e) < Limit
          BY <1>8, <2>1, Zenon
        <4>2. QED
          BY <1>19, <4>1, RateAssumption
      <3>3. \E q : Stamped(Append(e, accessClock), q, verdicts', b, accessClock)
        BY <1>3, <1>6, <1>7, <1>15, <1>17, StampedMore
      <3>4. w2 = Append(e, accessClock)
        BY <1>11, <2>1
      <3>5. QED
        BY <3>1, <3>2, <3>3, <3>4
    <2>2. CASE ~al
      <3>1. w2 = e
        BY <1>11, <2>2
      <3>2. Stamped(e, f, verdicts', b, accessClock)
        BY <1>7, <1>15, <1>17, <2>2, StampedSame
      <3>3. PICK k \in Nat : k = Len(w)
        BY <1>1
      <3>4. Len(e) <= Limit
        BY <1>1, <1>6, <1>19, <3>3, RateAssumption
      <3>5. QED
        BY <1>6, <3>1, <3>2, <3>4
    <2>3. QED
      BY <2>1, <2>2
  <1>21. WindowInv'
    BY <1>3, <1>12, <1>15, <1>17, <1>20, WindowsAfter DEF LocalInv
  <1>22. \A j \in DOMAIN verdicts' : IsVerdict(verdicts'[j])
    <2>1. TAKE j \in DOMAIN verdicts'
    <2>2. CASE j = n + 1
      BY <1>15, <1>18, <2>2 DEF OneMore
    <2>3. CASE j # n + 1
      BY <1>15, <2>3 DEF OneMore, LocalInv, VerdictInv
    <2>4. QED
      BY <2>2, <2>3
  <1>23. Full(Admitted(verdicts', b, accessClock))
    <2>1. PICK vs : vs = verdicts'
      OBVIOUS
    <2>2. PICK q : Stamped(w2, q, vs, b, accessClock)
      BY <1>20, <2>1
    <2>3. \A j \in DOMAIN vs : IsVerdict(vs[j])
      BY <1>22, <2>1
    <2>4. Full(Admitted(vs, b, accessClock))
      BY <1>3, <1>20, <2>2, <2>3, StampedFit
    <2>5. QED
      BY <2>1, <2>4
  <1>24. Promised(v)
    <2>1. CASE al
      BY <1>17, <2>1 DEF Promised
    <2>2. CASE ~al
      <3>1. Len(e) > 0
        <4>1. ~(Len(e) < Limit)
          BY <1>8, <2>2, Zenon
        <4>2. QED
          BY <1>19, <4>1, RateAssumption
      <3>2. Len(e) <= Limit
        BY <1>11, <1>20, <2>2
      <3>3. Cardinality({k \in DOMAIN e : e[k] > accessClock + r - RateWindow}) < Limit
        BY <1>3, <1>6, <1>9, <2>2, <3>1, <3>2, RefusalPromises
      <3>4. QED
        BY <1>17, <3>3 DEF Promised
    <2>3. QED
      BY <2>1, <2>2
  <1>25. VerdictInv'
    BY <1>3, <1>15, <1>16, <1>17, <1>18, <1>23, <1>24, VerdictsAfter DEF LocalInv
  <1>26. QED
    BY <1>21, <1>25 DEF LocalInv

LEMMA StampedIf ==
    ASSUME NEW w, NEW g, NEW vs, NEW b, NEW t, g \in [1 .. Len(w) -> Nat],
           \A j \in DOMAIN vs :
               vs[j].allowed /\ vs[j].bucket = b /\ vs[j].at > t - RateWindow =>
                   \E k \in 1 .. Len(w) : g[k] = j /\ w[k] = vs[j].at
    PROVE  Stamped(w, g, vs, b, t)
  BY DEF Stamped

(* A later window needs no more entries. *)
LEMMA StampedLater ==
    ASSUME NEW w, NEW g, NEW vs, NEW b, NEW now \in Nat, Stamped(w, g, vs, b, now),
           \A j \in DOMAIN vs : vs[j].at \in Nat
    PROVE  Stamped(w, g, vs, b, now + 1)
  <1>0. PICK q \in Nat : q = now + 1
    OBVIOUS
  <1>1. ASSUME NEW j \in DOMAIN vs, vs[j].at > q - RateWindow
        PROVE  vs[j].at > now - RateWindow
    BY <1>0, <1>1, RateAssumption
  <1>2. ASSUME NEW j \in DOMAIN vs, vs[j].allowed, vs[j].bucket = b, vs[j].at > q - RateWindow
        PROVE  \E k \in 1 .. Len(w) : g[k] = j /\ w[k] = vs[j].at
    <2>1. vs[j].at > now - RateWindow
      BY <1>1, <1>2
    <2>2. QED
      BY <1>2, <2>1 DEF Stamped
  <1>3. \A j \in DOMAIN vs :
            vs[j].allowed /\ vs[j].bucket = b /\ vs[j].at > q - RateWindow =>
                \E k \in 1 .. Len(w) : g[k] = j /\ w[k] = vs[j].at
    BY <1>2, Zenon
  <1>4. g \in [1 .. Len(w) -> Nat]
    BY DEF Stamped
  <1>5. Stamped(w, g, vs, b, q)
    BY <1>3, <1>4, StampedIf
  <1>6. QED
    BY <1>0, <1>5

LEMMA AccessTickStep == ASSUME LocalInv, Access!AccessTick PROVE LocalInv'
  <1>1. /\ accessClock \in Nat /\ accessClock' = accessClock + 1 /\ verdicts' = verdicts
        /\ localWindow' = localWindow
    BY DEF Access!AccessTick, LocalInv, VerdictInv
  <1>2. \A i \in DOMAIN verdicts : verdicts[i].at \in Nat
    BY DEF LocalInv, VerdictInv, IsVerdict
  <1>3. VerdictInv'
    <2>1. \A i \in DOMAIN verdicts : verdicts[i].at <= accessClock + 1
      BY <1>1, <1>2 DEF LocalInv, VerdictInv
    <2>2. QED
      BY <1>1, <2>1 DEF LocalInv, VerdictInv
  <1>4. ASSUME NEW b \in Buckets, NEW g, Stamped(localWindow[b], g, verdicts, b, accessClock)
        PROVE  Stamped(localWindow[b], g, verdicts, b, accessClock + 1)
    BY <1>1, <1>2, <1>4, StampedLater
  <1>5. WindowInv'
    BY <1>1, <1>4 DEF LocalInv, WindowInv
  <1>6. QED
    BY <1>3, <1>5 DEF LocalInv

LEMMA LocalRests == ASSUME LocalInv, UNCHANGED <<accessClock, verdicts, localWindow>> PROVE LocalInv'
  BY DEF LocalInv, VerdictInv, WindowInv

LEMMA LocalNextStep ==
    ASSUME LocalInv, Access!AccountsNext \/ Access!LocalNext \/ Access!SharedNext
    PROVE  LocalInv'
  <1>1. CASE Access!AccountsNext
    <2>1. CASE Access!AccessTick
      BY <2>1, AccessTickStep
    <2>2. ASSUME NEW a \in AccessAttempts,
                 \/ Access!Login(a) \/ Access!RegisterApiKey(a) \/ Access!ForeignToken(a)
                 \/ \E name \in Names : Access!RegisterUser(a, name)
          PROVE  LocalInv'
      <3>1. UNCHANGED <<accessClock, verdicts, localWindow>>
        BY <2>2 DEF Access!Login, Access!RegisterApiKey, Access!ForeignToken, Access!RegisterUser,
                    Access!OnlyAccounts
      <3>2. QED
        BY <3>1, LocalRests
    <2>3. ASSUME NEW key, NEW t, Access!Authenticate(key, t)
          PROVE  LocalInv'
      <3>1. UNCHANGED <<accessClock, verdicts, localWindow>>
        BY <2>3 DEF Access!Authenticate, Access!OnlyAccounts
      <3>2. QED
        BY <3>1, LocalRests
    <2>4. QED
      BY <1>1, <2>1, <2>2, <2>3 DEF Access!AccountsNext
  <1>2. CASE Access!LocalNext
    <2>1. CASE Access!AccessTick
      BY <2>1, AccessTickStep
    <2>2. CASE Access!EnforceUser
      BY <2>2, CheckStep DEF Access!EnforceUser, Buckets
    <2>3. CASE Access!EnforceAddress
      BY <2>3, CheckStep DEF Access!EnforceAddress, Buckets
    <2>4. QED
      BY <1>2, <2>1, <2>2, <2>3 DEF Access!LocalNext
  <1>3. CASE Access!SharedNext
    <2>1. CASE Access!AccessTick
      BY <2>1, AccessTickStep
    <2>2. ASSUME NEW p \in Processes,
                 Access!BeginCheck(p) \/ Access!CheckRedis(p) \/ Access!WatchBucket(p) \/ Access!ExecuteCheck(p)
          PROVE  LocalInv'
      <3>1. UNCHANGED <<accessClock, verdicts, localWindow>>
        BY <2>2 DEF Access!BeginCheck, Access!CheckRedis, Access!WatchBucket, Access!ExecuteCheck,
                    Access!SetCheck
      <3>2. QED
        BY <3>1, LocalRests
    <2>3. QED
      BY <1>3, <2>1, <2>2 DEF Access!SharedNext
  <1>4. QED
    BY <1>1, <1>2, <1>3

LEMMA LocalStart == ASSUME Access!AccessInit PROVE LocalInv
  <1>1. accessClock = 1 /\ verdicts = <<>> /\ localWindow = [b \in Buckets |-> <<>>]
    BY DEF Access!AccessInit, Buckets
  <1>2. VerdictInv
    BY <1>1 DEF VerdictInv
  <1>3. ASSUME NEW b \in Buckets
        PROVE  Stamped(<<>>, [k \in 1 .. 0 |-> 0], verdicts, b, accessClock)
    BY <1>1 DEF Stamped
  <1>4. \A b \in Buckets : localWindow[b] = <<>>
    BY <1>1
  <1>5. WindowInv
    BY <1>1, <1>3, <1>4, RateAssumption DEF WindowInv
  <1>6. QED
    BY <1>2, <1>5 DEF LocalInv

LEMMA LocalPromise == ASSUME LocalInv PROVE Access!WindowsHoldTheLimit
  <1>1. ASSUME NEW i \in DOMAIN verdicts
        PROVE  /\ Access!Cardinality(Admitted(verdicts, verdicts[i].bucket, verdicts[i].at)) <= Limit
               /\ Promised(verdicts[i])
    BY AccessCardinality DEF LocalInv, VerdictInv, Full
  <1>2. ASSUME NEW v, Promised(v), ~v.allowed
        PROVE  Access!Cardinality({k \in DOMAIN v.entries : v.entries[k] > v.at + v.retry - RateWindow}) < Limit
    BY <1>2, AccessCardinality DEF Promised
  <1>3. ASSUME NEW i \in DOMAIN verdicts
        PROVE  Admitted(verdicts, verdicts[i].bucket, verdicts[i].at) =
                   {j \in {k \in DOMAIN verdicts : verdicts[k].allowed /\ verdicts[k].bucket = verdicts[i].bucket} :
                       verdicts[j].at \in (verdicts[i].at - RateWindow + 1) .. verdicts[i].at}
    BY DEF Admitted
  <1>4. QED
    BY <1>1, <1>2, <1>3 DEF Access!WindowsHoldTheLimit

-----------------------------------------------------------------------------
(* Sums over finite sets, as the recursion of MapThenSumSet computes them:  *)
(* IsSum is its equation, for all subsets at once.                          *)

Chosen(s) == CHOOSE x \in s : TRUE

IsSum(g, f, S) ==
    g = [s \in SUBSET S |-> IF s = {} THEN 0 ELSE f[Chosen(s)] + g[s \ {Chosen(s)}]]

Numeric(f, S) == \A x \in S : f[x] \in Int

Sum(f, S) == (CHOOSE g : IsSum(g, f, S))[S]

LEMMA SmallestSet ==
    ASSUME NEW S, IsFiniteSet(S), NEW B, B \subseteq SUBSET S, B # {}
    PROVE  \E U \in B : \A V \in B : V \subseteq U => V = U
  <1>1. IsWellFoundedOn(StrictSubsetOrdering(S), FiniteSubsetsOf(S))
    BY FS_StrictSubsetOrderingWellFounded
  <1>2. B \subseteq FiniteSubsetsOf(S)
    BY FS_FiniteSubsetsOfFinite
  <1>3. PICK U \in B : \A V \in B : ~(<<V, U>> \in StrictSubsetOrdering(S))
    BY <1>1, <1>2, WFMin
  <1>4. ASSUME NEW V \in B, V \subseteq U PROVE V = U
    BY <1>3, <1>4 DEF StrictSubsetOrdering
  <1> QED BY <1>4

LEMMA ChosenIn == \A s : s # {} => Chosen(s) \in s
  BY DEF Chosen

Splits(g, f, S) ==
    /\ g \in [SUBSET S -> Int]
    /\ g[{}] = 0
    /\ \A U \in SUBSET S : \A x \in U : g[U] = f[x] + g[U \ {x}]

LEMMA SumSplit ==
    ASSUME NEW S, IsFiniteSet(S), NEW f, Numeric(f, S), NEW g, IsSum(g, f, S)
    PROVE  Splits(g, f, S)
  <1>1. g = [s \in SUBSET S |-> g[s]]
    BY DEF IsSum
  <1>2. g[{}] = 0
    BY DEF IsSum
  <1>3. \A U \in SUBSET S : U # {} => g[U] = f[Chosen(U)] + g[U \ {Chosen(U)}]
    BY DEF IsSum
  <1>4. ASSUME \E U \in SUBSET S : g[U] \notin Int PROVE FALSE
    <2> DEFINE B == {U \in SUBSET S : g[U] \notin Int}
    <2>0. B \subseteq SUBSET S /\ B # {}
      BY <1>4
    <2>1. PICK U \in B : \A V \in B : V \subseteq U => V = U
      <3> HIDE DEF B
      <3> QED BY <2>0, SmallestSet
    <2>2. U \subseteq S /\ g[U] \notin Int /\ U # {}
      <3>1. U \subseteq S /\ g[U] \notin Int
        BY <2>1
      <3>2. g[{}] \in Int
        BY <1>2
      <3> QED BY <3>1, <3>2
    <2>3. Chosen(U) \in U
      BY <2>2, ChosenIn
    <2>4. g[U \ {Chosen(U)}] \in Int
      BY <2>1, <2>2, <2>3
    <2>5. f[Chosen(U)] \in Int
      BY <2>2, <2>3 DEF Numeric
    <2>6. g[U] = f[Chosen(U)] + g[U \ {Chosen(U)}]
      BY <1>3, <2>2
    <2>7. g[U] \in Int
      BY <2>4, <2>5, <2>6
    <2> QED BY <2>2, <2>7
  <1>5. \A U \in SUBSET S : g[U] \in Int
    BY <1>4
  <1>6. ASSUME \E U \in SUBSET S : \E x \in U : g[U] # f[x] + g[U \ {x}] PROVE FALSE
    <2> DEFINE B == {U \in SUBSET S : \E x \in U : g[U] # f[x] + g[U \ {x}]}
    <2>0. B \subseteq SUBSET S /\ B # {}
      BY <1>6
    <2>1. PICK U \in B : \A V \in B : V \subseteq U => V = U
      <3> HIDE DEF B
      <3> QED BY <2>0, SmallestSet
    <2>2. PICK x \in U : g[U] # f[x] + g[U \ {x}]
      BY <2>1
    <2> DEFINE y == Chosen(U)
    <2>3. U \subseteq S /\ y \in U
      BY <2>1, <2>2, ChosenIn
    <2>4. g[U] = f[y] + g[U \ {y}]
      BY <1>3, <2>2, <2>3
    <2> HIDE DEF y
    <2>5. x # y
      BY <2>2, <2>4
    <2>6. U \ {y} \notin B /\ U \ {x} \notin B
      <3>1. U \ {y} # U /\ U \ {x} # U
        BY <2>2, <2>3
      <3> HIDE DEF B
      <3> QED BY <2>1, <3>1
    <2>7. g[U \ {y}] = f[x] + g[(U \ {y}) \ {x}]
      BY <2>2, <2>3, <2>5, <2>6
    <2>8. g[U \ {x}] = f[y] + g[(U \ {x}) \ {y}]
      BY <2>2, <2>3, <2>5, <2>6
    <2>9. (U \ {y}) \ {x} = (U \ {x}) \ {y}
      OBVIOUS
    <2>10. f[x] \in Int /\ f[y] \in Int /\ g[(U \ {x}) \ {y}] \in Int
      BY <1>5, <2>2, <2>3 DEF Numeric
    <2>11. g[U] = f[y] + (f[x] + g[(U \ {x}) \ {y}])
      BY <2>4, <2>7, <2>9
    <2>12. f[y] + (f[x] + g[(U \ {x}) \ {y}]) = f[x] + (f[y] + g[(U \ {x}) \ {y}])
      BY <2>10
    <2> QED BY <2>2, <2>8, <2>11, <2>12
  <1> QED BY <1>1, <1>2, <1>5, <1>6 DEF Splits

LEMMA LeastNumber ==
    ASSUME NEW B, B \subseteq Nat, B # {}
    PROVE  \E m \in B : \A k \in B : m <= k
  <1>1. IsWellFoundedOn(OpToRel(<, Nat), Nat)
    BY NatLessThanWellFounded
  <1>2. PICK m \in B : \A k \in B : ~(<<k, m>> \in OpToRel(<, Nat))
    BY <1>1, WFMin
  <1>3. ASSUME NEW k \in B PROVE m <= k
    <2>1. k \in Nat /\ m \in Nat
      OBVIOUS
    <2>2. ~(k < m)
      BY <1>2, <2>1 DEF OpToRel
    <2> QED BY <2>1, <2>2
  <1> QED BY <1>3

SumStep(f, g, s) == IF s = {} THEN 0 ELSE f[Chosen(s)] + g[s \ {Chosen(s)}]

LEMMA SumExists ==
    ASSUME NEW S, IsFiniteSet(S), NEW f
    PROVE  \E g : IsSum(g, f, S)
  <1> DEFINE Small(n) == {s \in SUBSET S : Cardinality(s) <= n}
             Ok(g, n) == g = [s \in Small(n) |-> SumStep(f, g, s)]
             Bad == {n \in Nat : \A g : ~Ok(g, n)}
  <1>1. \A s \in SUBSET S : IsFiniteSet(s) /\ Cardinality(s) \in Nat
    BY FS_Subset, FS_CardinalityType
  <1>2. 0 \notin Bad
    <2>1. \A s \in Small(0) : s = {}
      BY <1>1, FS_EmptySet
    <2>2. Ok([s \in Small(0) |-> 0], 0)
      BY <2>1 DEF SumStep
    <2> QED BY <2>2
  <1>3. ASSUME NEW n \in Nat, NEW g, Ok(g, n) PROVE \E h : Ok(h, n + 1)
    <2> DEFINE h == [s \in Small(n + 1) |-> SumStep(f, g, s)]
    <2>1. \A s \in Small(n + 1) : s # {} => s \ {Chosen(s)} \in Small(n)
      <3> TAKE s \in Small(n + 1)
      <3> HAVE s # {}
      <3>1. Chosen(s) \in s /\ s \subseteq S /\ Cardinality(s) <= n + 1
        BY ChosenIn
      <3>2. IsFiniteSet(s) /\ Cardinality(s) \in Nat
        BY <1>1, <3>1
      <3>3. Cardinality(s \ {Chosen(s)}) = Cardinality(s) - 1
        BY <3>1, <3>2, FS_RemoveElement
      <3> QED BY <3>1, <3>2, <3>3
    <2>2. \A s \in Small(n) : s \in Small(n + 1)
      BY <1>1
    <2>3. \A s \in Small(n) : g[s] = SumStep(f, g, s)
      BY <1>3
    <2>4. \A s \in Small(n) : h[s] = g[s]
      <3> HIDE DEF Small
      <3> QED BY <2>2, <2>3
    <2>5. \A s \in Small(n + 1) : SumStep(f, h, s) = SumStep(f, g, s)
      <3> HIDE DEF Small, h
      <3> QED BY <2>1, <2>4 DEF SumStep
    <2>6. h = [s \in Small(n + 1) |-> SumStep(f, h, s)]
      <3> DEFINE k == [s \in Small(n + 1) |-> SumStep(f, h, s)]
      <3>1. \A s \in Small(n + 1) : h[s] = k[s]
        <4> HIDE DEF Small
        <4> QED BY <2>5
      <3> QED BY <3>1
    <2> HIDE DEF h
    <2> QED BY <2>6
  <1>4. Bad = {}
    <2> SUFFICES ASSUME Bad # {} PROVE FALSE
      OBVIOUS
    <2>1. PICK m \in Bad : \A k \in Bad : m <= k
      <3>1. Bad \subseteq Nat
        OBVIOUS
      <3> HIDE DEF Bad
      <3> QED BY <3>1, LeastNumber
    <2>2. m \in Nat /\ m # 0
      BY <1>2, <2>1
    <2>3. m - 1 \in Nat /\ m - 1 \notin Bad
      <3> HIDE DEF Bad
      <3> QED BY <2>1, <2>2
    <2>4. PICK g : Ok(g, m - 1)
      BY <2>3
    <2>5. \E h : Ok(h, (m - 1) + 1)
      <3> HIDE DEF Ok
      <3> QED BY <2>3, <2>4, <1>3
    <2>6. (m - 1) + 1 = m
      BY <2>2
    <2>7. \E h : Ok(h, m)
      BY <2>5, <2>6
    <2> QED BY <2>1, <2>7
  <1>5. Cardinality(S) \in Nat
    BY FS_CardinalityType
  <1>6. PICK g : Ok(g, Cardinality(S))
    BY <1>4, <1>5
  <1>7. Small(Cardinality(S)) = SUBSET S
    BY FS_Subset
  <1>8. g = [s \in SUBSET S |-> SumStep(f, g, s)]
    BY <1>6, <1>7
  <1> QED BY <1>8 DEF IsSum, SumStep

LEMMA SumUnfolds ==
    ASSUME NEW S, IsFiniteSet(S), NEW f, Numeric(f, S)
    PROVE  \E g : IsSum(g, f, S) /\ Sum(f, S) = g[S]
  <1>1. PICK g : IsSum(g, f, S)
    BY SumExists
  <1> QED BY <1>1 DEF Sum

LEMMA SumsAgree ==
    ASSUME NEW S, IsFiniteSet(S), NEW T, IsFiniteSet(T), NEW f, NEW e, Numeric(f, S), Numeric(e, T),
           NEW g, IsSum(g, f, S), NEW h, IsSum(h, e, T),
           NEW U, U \subseteq S, U \subseteq T, \A x \in U : f[x] = e[x]
    PROVE  g[U] = h[U]
  <1> SUFFICES ASSUME g[U] # h[U] PROVE FALSE
    OBVIOUS
  <1> DEFINE B == {V \in SUBSET U : g[V] # h[V]}
  <1>1. IsFiniteSet(U)
    BY FS_Subset
  <1>0. B \subseteq SUBSET U /\ U \in B
    OBVIOUS
  <1>2. PICK V \in B : \A W \in B : W \subseteq V => W = V
    <2> HIDE DEF B
    <2> QED BY <1>0, <1>1, SmallestSet
  <1>3. /\ g[{}] = 0 /\ h[{}] = 0
        /\ \A x \in V : g[V] = f[x] + g[V \ {x}]
        /\ \A x \in V : h[V] = e[x] + h[V \ {x}]
    <2>1. V \in SUBSET S /\ V \in SUBSET T
      BY <1>2
    <2>2. g[{}] = 0 /\ \A W \in SUBSET S : \A x \in W : g[W] = f[x] + g[W \ {x}]
      <3>1. Splits(g, f, S)
        BY SumSplit
      <3> QED BY <3>1 DEF Splits
    <2>3. h[{}] = 0 /\ \A W \in SUBSET T : \A x \in W : h[W] = e[x] + h[W \ {x}]
      <3>1. Splits(h, e, T)
        BY SumSplit
      <3> QED BY <3>1 DEF Splits
    <2> QED BY <2>1, <2>2, <2>3
  <1>4. PICK x \in V : TRUE
    BY <1>2, <1>3
  <1>5. V \ {x} \notin B
    <2> HIDE DEF B
    <2> QED BY <1>2, <1>4
  <1>6. g[V \ {x}] = h[V \ {x}] /\ f[x] = e[x]
    BY <1>2, <1>4, <1>5
  <1> QED BY <1>2, <1>3, <1>4, <1>6

LEMMA SumUnique ==
    ASSUME NEW S, IsFiniteSet(S), NEW f, Numeric(f, S), NEW g, IsSum(g, f, S), NEW h, IsSum(h, f, S)
    PROVE  g[S] = h[S]
  <1>1. \A x \in S : f[x] = f[x]
    OBVIOUS
  <1> QED BY <1>1, SumsAgree

LEMMA SumType ==
    ASSUME NEW S, IsFiniteSet(S), NEW f, Numeric(f, S)
    PROVE  Sum(f, S) \in Int
  <1>1. PICK g : IsSum(g, f, S) /\ Sum(f, S) = g[S]
    BY SumUnfolds
  <1>2. g \in [SUBSET S -> Int]
    BY <1>1, SumSplit DEF Splits
  <1> QED BY <1>1, <1>2

LEMMA SumRemove ==
    ASSUME NEW S, IsFiniteSet(S), NEW f, Numeric(f, S), NEW x \in S
    PROVE  Sum(f, S) = f[x] + Sum(f, S \ {x})
  <1>1. IsFiniteSet(S \ {x}) /\ Numeric(f, S \ {x})
    BY FS_RemoveElement DEF Numeric
  <1>2. PICK g : IsSum(g, f, S) /\ Sum(f, S) = g[S]
    BY SumUnfolds
  <1>3. PICK h : IsSum(h, f, S \ {x}) /\ Sum(f, S \ {x}) = h[S \ {x}]
    BY <1>1, SumUnfolds
  <1>4. g[S] = f[x] + g[S \ {x}]
    <2>1. \A U \in SUBSET S : \A y \in U : g[U] = f[y] + g[U \ {y}]
      <3>1. Splits(g, f, S)
        BY <1>2, SumSplit
      <3> QED BY <3>1 DEF Splits
    <2> QED BY <2>1
  <1>5. g[S \ {x}] = h[S \ {x}]
    <2> DEFINE R == S \ {x}
    <2>1. R \subseteq S
      OBVIOUS
    <2> HIDE DEF R
    <2>2. g[R] = h[R]
      BY <1>1, <1>2, <1>3, <2>1, SumsAgree DEF R
    <2> QED BY <2>2 DEF R
  <1> QED BY <1>2, <1>3, <1>4, <1>5

LEMMA SumEmpty ==
    ASSUME NEW f PROVE Sum(f, {}) = 0
  <1>1. IsFiniteSet({}) /\ Numeric(f, {})
    BY FS_EmptySet DEF Numeric
  <1> QED BY <1>1, SumUnfolds, SumSplit DEF Splits

LEMMA SumSame ==
    ASSUME NEW S, IsFiniteSet(S), NEW f, NEW e, Numeric(f, S), \A x \in S : e[x] = f[x]
    PROVE  Sum(e, S) = Sum(f, S)
  <1>1. Numeric(e, S)
    BY DEF Numeric
  <1>2. PICK g : IsSum(g, f, S) /\ Sum(f, S) = g[S]
    BY SumUnfolds
  <1>3. PICK h : IsSum(h, e, S) /\ Sum(e, S) = h[S]
    BY <1>1, SumUnfolds
  <1> QED BY <1>1, <1>2, <1>3, SumsAgree

(* A larger set of amounts adds up to no less. *)
LEMMA SumGrows ==
    ASSUME NEW S, IsFiniteSet(S), NEW f, \A x \in S : f[x] \in Nat, NEW V, V \subseteq S
    PROVE  Sum(f, V) <= Sum(f, S) /\ Sum(f, V) \in Nat
  <1>1. Numeric(f, S) /\ Numeric(f, V) /\ IsFiniteSet(V)
    BY FS_Subset DEF Numeric
  <1>2. PICK g : IsSum(g, f, S) /\ Sum(f, S) = g[S]
    BY <1>1, SumUnfolds
  <1>3. PICK h : IsSum(h, f, V) /\ Sum(f, V) = h[V]
    BY <1>1, SumUnfolds
  <1>4. h[V] = g[V]
    BY <1>1, <1>2, <1>3, SumsAgree
  <1>5. /\ g \in [SUBSET S -> Int] /\ g[{}] = 0
        /\ \A U \in SUBSET S : \A x \in U : g[U] = f[x] + g[U \ {x}]
    <2>1. Splits(g, f, S)
      BY <1>1, <1>2, SumSplit
    <2> QED BY <2>1 DEF Splits
  <1>6. ASSUME NEW P \in SUBSET S, NEW Q \in SUBSET S, P \subseteq Q PROVE g[P] <= g[Q]
    <2> SUFFICES ASSUME ~(g[P] <= g[Q]) PROVE FALSE
      OBVIOUS
    <2> DEFINE B == {U \in SUBSET S : P \subseteq U /\ ~(g[P] <= g[U])}
    <2>1. B \subseteq SUBSET S /\ B # {}
      BY <1>6
    <2>2. PICK U \in B : \A W \in B : W \subseteq U => W = U
      <3> HIDE DEF B
      <3> QED BY <2>1, SmallestSet
    <2>3. U \in SUBSET S /\ P \subseteq U /\ ~(g[P] <= g[U]) /\ g[P] \in Int /\ g[U] \in Int
      BY <1>5, <2>2
    <2>4. U # P
      BY <2>3
    <2>5. PICK x \in U : x \notin P
      BY <2>3, <2>4
    <2>6. U \ {x} \notin B
      <3> HIDE DEF B
      <3> QED BY <2>2, <2>5
    <2>7. g[P] <= g[U \ {x}]
      BY <2>3, <2>5, <2>6
    <2>8. g[U] = f[x] + g[U \ {x}] /\ g[U \ {x}] \in Int
      BY <1>5, <2>3, <2>5
    <2>9. f[x] \in Nat
      BY <2>3, <2>5
    <2> QED BY <2>3, <2>7, <2>8, <2>9
  <1>7. g[V] <= g[S]
    BY <1>6
  <1>8. g[{}] <= g[V] /\ g[V] \in Int
    BY <1>5, <1>6
  <1>9. g[V] \in Nat
    BY <1>5, <1>8
  <1> QED BY <1>2, <1>3, <1>4, <1>7, <1>9

(* One member more. *)
LEMMA SumAdds ==
    ASSUME NEW S, IsFiniteSet(S), NEW f, Numeric(f, S), NEW x, x \notin S, f[x] \in Int
    PROVE  Sum(f, S \cup {x}) = f[x] + Sum(f, S)
  <1>1. PICK T : T = S \cup {x}
    OBVIOUS
  <1>2. IsFiniteSet(T) /\ Numeric(f, T) /\ x \in T
    BY <1>1, FS_AddElement DEF Numeric
  <1>3. Sum(f, T) = f[x] + Sum(f, T \ {x})
    BY <1>2, SumRemove
  <1>4. T \ {x} = S
    BY <1>1
  <1> QED BY <1>1, <1>3, <1>4

(* The greatest of finitely many numbers. *)
LEMMA GreatestNumber ==
    ASSUME NEW S, IsFiniteSet(S), S \subseteq Nat, S # {}
    PROVE  \E m \in S : \A k \in S : m >= k
  <1>1. PICK R : R = Earlier(S)
    OBVIOUS
  <1>2. TotalOrder(S, R)
    BY <1>1 DEF TotalOrder, Earlier
  <1>3. PICK n \in Nat : n = Cardinality(S)
    BY FS_CardinalityType
  <1>4. n # 0
    BY <1>3, FS_EmptySet
  <1>5. n - 1 \in 0 .. (n - 1)
    BY <1>3, <1>4
  <1>6. /\ \A x \in S : Cardinality(Before(S, R, x)) \in 0 .. (n - 1)
        /\ \A k \in 0 .. (n - 1) : \E x \in S : Cardinality(Before(S, R, x)) = k
    BY <1>2, <1>3, RanksFill
  <1>7. PICK m \in S : Cardinality(Before(S, R, m)) = n - 1
    BY <1>5, <1>6
  <1>8. ASSUME NEW k \in S, ~(m >= k) PROVE FALSE
    <2>1. <<m, k>> \in R
      BY <1>1, <1>8 DEF Earlier
    <2>2. Cardinality(Before(S, R, m)) < Cardinality(Before(S, R, k))
      BY <1>2, <2>1, RankGrows
    <2>3. PICK j \in 0 .. (n - 1) : j = Cardinality(Before(S, R, k))
      BY <1>6
    <2> QED BY <1>3, <1>7, <2>2, <2>3
  <1> QED BY <1>8

-----------------------------------------------------------------------------
(* Memory: keys and characters. *)

LEMMA MemoryCardinality == ASSUME NEW S PROVE Memory!Cardinality(S) = Cardinality(S)
  BY DEF Memory!Cardinality, Cardinality

Lengths(fs) == [i \in FactIds |-> Memory!Cardinality(fs[i].content)]

(* The length of facts, as the code adds it up. *)
LEMMA CharsAreSums ==
    ASSUME NEW S \in SUBSET FactIds, \A i \in FactIds : IsFiniteSet(facts[i].content)
    PROVE  /\ Memory!Chars(S) = Sum(Lengths(facts), S)
           /\ Memory!MapThenSumSet(LAMBDA i : Memory!Cardinality(facts[i].content), S) = Sum(Lengths(facts), S)
  <1>1. PICK f : f = Lengths(facts)
    OBVIOUS
  <1>2. \A i \in FactIds : f[i] = Memory!Cardinality(facts[i].content) /\ f[i] \in Int
    BY <1>1, MemoryCardinality, FS_CardinalityType DEF Lengths
  <1>3. IsFiniteSet(S) /\ Numeric(f, S)
    BY <1>2, MemoryAssumption, FS_Subset DEF Numeric
  <1>4. PICK g : IsSum(g, f, S) /\ Sum(f, S) = g[S]
    BY <1>3, SumUnfolds
  <1>5. \A s \in SUBSET S : s # {} => f[Chosen(s)] = Memory!Cardinality(facts[Chosen(s)].content)
    BY <1>2, ChosenIn
  <1>6. g = [s \in SUBSET S |-> IF s = {} THEN 0
                                ELSE Memory!Cardinality(facts[Chosen(s)].content) + g[s \ {Chosen(s)}]]
    BY <1>4, <1>5 DEF IsSum
  <1>7. PICK k : /\ k = [s \in SUBSET S |-> IF s = {} THEN 0
                                ELSE Memory!Cardinality(facts[Chosen(s)].content) + k[s \ {Chosen(s)}]]
                 /\ Memory!MapThenSumSet(LAMBDA i : Memory!Cardinality(facts[i].content), S) = k[S]
    BY <1>6 DEF Memory!MapThenSumSet, Memory!MapThenFoldSet, Chosen
  <1>8. IsSum(k, f, S)
    BY <1>5, <1>7 DEF IsSum
  <1>9. k[S] = g[S]
    BY <1>3, <1>4, <1>8, SumUnique
  <1>10. Memory!MapThenSumSet(LAMBDA i : Memory!Cardinality(facts[i].content), S) = Sum(f, S)
    BY <1>4, <1>7, <1>9
  <1>11. Memory!Chars(S) = Memory!MapThenSumSet(LAMBDA i : Memory!Cardinality(facts[i].content), S)
    BY DEF Memory!Chars
  <1> QED BY <1>1, <1>10, <1>11

FactsOf(fs, s) == {i \in FactIds : fs[i].scope = s}

(* A fact is none, or belongs to a scope. *)
IsStored(r) ==
    /\ r = Memory!NoFact \/ r.scope \in MemScopes
    /\ r.version \in Nat /\ IsFiniteSet(r.content)

(* The generation act only grows; facts, retirements and rotations are of   *)
(* it or of earlier ones.                                                   *)
RetirementHolds(r, fs, act) ==
    /\ r.version \in Nat \ {0} /\ r.active \in Nat /\ r.active <= act
    /\ r.version < r.active => \A i \in FactIds : fs[i].version # r.version

VersionsHold(fs, act, ret, rot) ==
    /\ act \in Nat
    /\ \A r \in ret : RetirementHolds(r, fs, act)
    /\ \A s \in MemScopes : rot[s] \in Nat /\ rot[s] <= act
    /\ \A i \in FactIds : fs[i].scope \in MemScopes => fs[i].version >= rot[fs[i].scope]

CharsHold(fs, used) ==
    \A s \in MemScopes :
        used[s] = Sum(Lengths(fs), FactsOf(fs, s)) /\ used[s] <= MaxChars

MemoryInv ==
    /\ facts = [i \in FactIds |-> facts[i]] /\ charsUsed = [s \in MemScopes |-> charsUsed[s]]
    /\ rotated = [s \in MemScopes |-> rotated[s]]
    /\ \A i \in FactIds : IsStored(facts[i])
    /\ VersionsHold(facts, keyState.active, retired, rotated)
    /\ CharsHold(facts, charsUsed)

LEMMA MemoryStart == ASSUME Memory!MemoryInit PROVE MemoryInv
  <1>1. /\ facts = [i \in FactIds |-> Memory!NoFact] /\ charsUsed = [s \in MemScopes |-> 0]
        /\ rotated = [s \in MemScopes |-> 0] /\ keyState.active = 0 /\ retired = {}
    BY DEF Memory!MemoryInit
  <1>2. Memory!NoFact.scope \notin MemScopes /\ Memory!NoFact.version = 0 /\ Memory!NoFact.content = {}
    BY MemoryAssumption DEF Memory!NoFact
  <1>3. IsStored(Memory!NoFact)
    BY <1>2, FS_EmptySet DEF IsStored
  <1>4. \A i \in FactIds : facts[i] = Memory!NoFact
    BY <1>1
  <1>5. VersionsHold(facts, keyState.active, retired, rotated)
    BY <1>1, <1>2, <1>4 DEF VersionsHold
  <1>6. \A s \in MemScopes : FactsOf(facts, s) = {}
    BY <1>2, <1>4 DEF FactsOf
  <1>7. CharsHold(facts, charsUsed)
    <2>1. Sum(Lengths(facts), {}) = 0
      BY SumEmpty
    <2>2. \A s \in MemScopes : charsUsed[s] = 0
      BY <1>1
    <2>3. QED
      BY <1>6, <2>1, <2>2, MemoryAssumption DEF CharsHold
  <1>8. QED
    BY <1>1, <1>3, <1>4, <1>5, <1>7 DEF MemoryInv

LEMMA MemoryRests == ASSUME MemoryInv, UNCHANGED memoryPart PROVE MemoryInv'
  BY DEF MemoryInv, memoryPart

(* What a mutation under the published generation may do to the facts. *)
Rewritten(r2, r, act) ==
    \/ r2 = Memory!NoFact \/ r2 = r
    \/ r2.scope \in MemScopes /\ r2.version = act

LEMMA VersionsKept ==
    ASSUME NEW fs, NEW act, NEW ret, NEW rot, VersionsHold(fs, act, ret, rot), NEW fs2,
           \A i \in FactIds : Rewritten(fs2[i], fs[i], act)
    PROVE  VersionsHold(fs2, act, ret, rot)
  <1>1. Memory!NoFact.scope \notin MemScopes /\ Memory!NoFact.version = 0
    BY MemoryAssumption DEF Memory!NoFact
  <1>2. ASSUME NEW r \in ret PROVE RetirementHolds(r, fs2, act)
    <2>1. RetirementHolds(r, fs, act) /\ act \in Nat
      BY DEF VersionsHold
    <2>2. ASSUME NEW i \in FactIds, r.version < r.active PROVE fs2[i].version # r.version
      <3>1. CASE fs2[i] = Memory!NoFact
        BY <1>1, <2>1, <3>1 DEF RetirementHolds
      <3>2. CASE fs2[i] = fs[i]
        BY <2>1, <2>2, <3>2 DEF RetirementHolds
      <3>3. CASE fs2[i].version = act
        BY <2>1, <2>2, <3>3 DEF RetirementHolds
      <3>4. QED
        BY <3>1, <3>2, <3>3 DEF Rewritten
    <2>3. QED
      BY <2>1, <2>2 DEF RetirementHolds
  <1>3. ASSUME NEW i \in FactIds, fs2[i].scope \in MemScopes PROVE fs2[i].version >= rot[fs2[i].scope]
    <2>1. CASE fs2[i] = fs[i]
      BY <1>3, <2>1 DEF VersionsHold
    <2>2. CASE fs2[i].version = act
      BY <1>3, <2>2 DEF VersionsHold
    <2>3. QED
      BY <1>1, <1>3, <2>1, <2>2 DEF Rewritten
  <1>4. QED
    BY <1>2, <1>3 DEF VersionsHold

(* A newer generation. *)
LEMMA VersionsGrow ==
    ASSUME NEW fs, NEW act, NEW ret, NEW rot, VersionsHold(fs, act, ret, rot), NEW a2 \in Nat, a2 >= act
    PROVE  VersionsHold(fs, a2, ret, rot)
  <1>1. act \in Nat
    BY DEF VersionsHold
  <1>2. \A r \in ret : RetirementHolds(r, fs, a2)
    BY <1>1 DEF VersionsHold, RetirementHolds
  <1>3. \A s \in MemScopes : rot[s] \in Nat /\ rot[s] <= a2
    BY <1>1 DEF VersionsHold
  <1>4. QED
    BY <1>2, <1>3 DEF VersionsHold

LEMMA ActivationStep ==
    ASSUME MemoryInv, NEW p \in MemProcesses, Memory!ActivateKeyVersion(p)
    PROVE  MemoryInv'
  <1>1. /\ UNCHANGED <<facts, charsUsed, retired, rotated>>
        /\ \E r \in Memory!Keyrings :
               /\ Memory!MayActivate(r)
               /\ keyState' = IF keyState.active = r.active THEN keyState
                              ELSE [active |-> r.active, generation |-> keyState.generation + 1]
    BY DEF Memory!ActivateKeyVersion
  <1>2. PICK r \in Memory!Keyrings :
            /\ Memory!MayActivate(r)
            /\ keyState' = IF keyState.active = r.active THEN keyState
                           ELSE [active |-> r.active, generation |-> keyState.generation + 1]
    BY <1>1
  <1>3. PICK act \in Nat : act = keyState.active
    BY DEF MemoryInv, VersionsHold
  <1>4. PICK v \in Nat : v = r.active
    BY MemoryAssumption DEF Memory!Keyrings
  <1>5. keyState'.active = v
    BY <1>2, <1>4
  <1>6. v >= act
    BY <1>2, <1>3, <1>4 DEF Memory!MayActivate
  <1>7. VersionsHold(facts, v, retired, rotated)
    BY <1>3, <1>6, VersionsGrow DEF MemoryInv
  <1>8. VersionsHold(facts, keyState.active, retired, rotated)'
    BY <1>1, <1>5, <1>7
  <1>9. QED
    BY <1>1, <1>8 DEF MemoryInv

LEMMA RetirementStep ==
    ASSUME MemoryInv, NEW p \in MemProcesses, NEW v \in KeyVersions, Memory!AssertKeyRetirable(p, v)
    PROVE  MemoryInv'
  <1>1. /\ UNCHANGED <<keyState, facts, charsUsed, rotated>> /\ v \notin Memory!VersionsInUse
        /\ retired' = retired \union {[version |-> v, active |-> keyState.active]}
    BY DEF Memory!AssertKeyRetirable, Memory!LockKeyState
  <1>2. PICK act \in Nat : act = keyState.active
    BY DEF MemoryInv, VersionsHold
  <1>3. v \in Nat \ {0}
    BY MemoryAssumption
  <1>4. PICK r : r = [version |-> v, active |-> act]
    OBVIOUS
  <1>5. r.version = v /\ r.active = act
    BY <1>4
  <1>6. \A i \in FactIds : facts[i].version # v
    BY <1>1, <1>3 DEF Memory!VersionsInUse
  <1>7. RetirementHolds(r, facts, act)
    BY <1>3, <1>5, <1>6 DEF RetirementHolds
  <1>8. retired' = retired \cup {r}
    BY <1>1, <1>2, <1>4
  <1>9. VersionsHold(facts, act, retired, rotated)
    BY <1>2 DEF MemoryInv
  <1>10. VersionsHold(facts, act, retired', rotated)
    BY <1>7, <1>8, <1>9 DEF VersionsHold
  <1>11. VersionsHold(facts, keyState.active, retired, rotated)'
    BY <1>1, <1>2, <1>10
  <1>12. QED
    BY <1>1, <1>11 DEF MemoryInv

LEMMA MutationStep ==
    ASSUME MemoryInv, UNCHANGED <<keyState, retired, rotated>>,
           facts' = [i \in FactIds |-> facts'[i]], charsUsed' = [s \in MemScopes |-> charsUsed'[s]],
           \A i \in FactIds : IsStored(facts'[i]) /\ Rewritten(facts'[i], facts[i], keyState.active),
           CharsHold(facts', charsUsed')
    PROVE  MemoryInv'
  <1>1. VersionsHold(facts', keyState.active, retired, rotated)
    BY VersionsKept DEF MemoryInv
  <1>2. VersionsHold(facts, keyState.active, retired, rotated)'
    BY <1>1
  <1>3. rotated' = [s \in MemScopes |-> rotated'[s]]
    BY DEF MemoryInv
  <1>4. QED
    BY <1>2, <1>3 DEF MemoryInv

LEMMA LengthsCount ==
    ASSUME NEW fs, \A i \in FactIds : IsStored(fs[i])
    PROVE  /\ \A i \in FactIds : Lengths(fs)[i] = Cardinality(fs[i].content) /\ Lengths(fs)[i] \in Nat
           /\ \A S : S \subseteq FactIds => IsFiniteSet(S) /\ Numeric(Lengths(fs), S)
  <1>1. \A i \in FactIds : Lengths(fs)[i] = Cardinality(fs[i].content) /\ Lengths(fs)[i] \in Nat
    BY MemoryCardinality, FS_CardinalityType DEF Lengths, IsStored
  <1>2. \A S : S \subseteq FactIds => IsFiniteSet(S)
    BY MemoryAssumption, FS_Subset
  <1>3. \A S : S \subseteq FactIds => Numeric(Lengths(fs), S)
    BY <1>1 DEF Numeric
  <1>4. QED
    BY <1>1, <1>2, <1>3

(* Facts that keep their contents keep their length. *)
LEMMA LengthsSame ==
    ASSUME NEW fs, \A i \in FactIds : IsStored(fs[i]), NEW fs2, NEW S \in SUBSET FactIds,
           \A i \in S : fs2[i].content = fs[i].content
    PROVE  Sum(Lengths(fs2), S) = Sum(Lengths(fs), S)
  <1>1. IsFiniteSet(S) /\ Numeric(Lengths(fs), S)
    BY LengthsCount
  <1>2. \A i \in S : Lengths(fs2)[i] = Lengths(fs)[i]
    BY DEF Lengths
  <1>3. QED
    BY <1>1, <1>2, SumSame

(* Only facts of the scope s change. *)
Confined(fs2, fs, s) ==
    \A i \in FactIds :
        fs2[i] = fs[i] \/ (fs[i].scope \notin MemScopes \ {s} /\ fs2[i].scope \notin MemScopes \ {s})

LEMMA CharsAfter ==
    ASSUME MemoryInv, NEW fs2, NEW s \in MemScopes, Confined(fs2, facts, s),
           NEW t, t = Sum(Lengths(fs2), FactsOf(fs2, s)), t <= MaxChars,
           NEW used, used = [charsUsed EXCEPT ![s] = t]
    PROVE  CharsHold(fs2, used)
  <1>1. SUFFICES ASSUME NEW q \in MemScopes
                 PROVE  used[q] = Sum(Lengths(fs2), FactsOf(fs2, q)) /\ used[q] <= MaxChars
    BY DEF CharsHold
  <1>2. CASE q = s
    BY <1>2 DEF MemoryInv
  <1>3. CASE q # s
    <2>1. used[q] = charsUsed[q]
      BY <1>3 DEF MemoryInv
    <2>2. FactsOf(fs2, q) = FactsOf(facts, q)
      BY <1>3 DEF FactsOf, Confined
    <2>3. PICK S : S = FactsOf(facts, q)
      OBVIOUS
    <2>4. S \in SUBSET FactIds /\ \A i \in S : fs2[i].content = facts[i].content
      BY <1>3, <2>3 DEF FactsOf, Confined
    <2>5. Sum(Lengths(fs2), S) = Sum(Lengths(facts), S)
      BY <2>4, LengthsSame DEF MemoryInv
    <2>6. QED
      BY <2>1, <2>2, <2>3, <2>5 DEF MemoryInv, CharsHold
  <1>4. QED
    BY <1>2, <1>3

LEMMA TotalIsSum ==
    ASSUME MemoryInv, NEW s, NEW old, NEW c
    PROVE  /\ Memory!Facts(s) = FactsOf(facts, s)
           /\ Memory!Total(s, old, c) = Sum(Lengths(facts), FactsOf(facts, s) \ old) + Cardinality(c)
  <1>1. Memory!Facts(s) = FactsOf(facts, s)
    BY DEF Memory!Facts, FactsOf
  <1>2. PICK S : S = FactsOf(facts, s) \ old
    OBVIOUS
  <1>3. S \in SUBSET FactIds /\ \A i \in FactIds : IsFiniteSet(facts[i].content)
    BY <1>2 DEF FactsOf, MemoryInv, IsStored
  <1>4. Memory!Chars(S) = Sum(Lengths(facts), S)
    BY <1>3, CharsAreSums
  <1>5. QED
    BY <1>1, <1>2, <1>4, MemoryCardinality DEF Memory!Total

(* A fact is written over a fact of its scope, or where there is none. *)
LEMMA PutFact ==
    ASSUME MemoryInv, UNCHANGED <<keyState, retired, rotated>>, NEW s \in MemScopes,
           NEW i \in FactIds, facts[i] = Memory!NoFact \/ facts[i].scope = s,
           NEW r, r.scope = s, r.version = keyState.active, IsFiniteSet(r.content),
           facts' = [facts EXCEPT ![i] = r],
           NEW t, t = Sum(Lengths(facts), FactsOf(facts, s) \ {i}) + Cardinality(r.content), t <= MaxChars,
           charsUsed' = [charsUsed EXCEPT ![s] = t]
    PROVE  MemoryInv'
  <1>1. PICK fs2 : fs2 = [facts EXCEPT ![i] = r]
    OBVIOUS
  <1>2. fs2[i] = r /\ (\A j \in FactIds \ {i} : fs2[j] = facts[j]) /\ fs2 = [j \in FactIds |-> fs2[j]]
    BY <1>1 DEF MemoryInv
  <1>3. facts[i].scope \notin MemScopes \ {s}
    BY MemoryAssumption DEF Memory!NoFact
  <1>4. Confined(fs2, facts, s)
    BY <1>2, <1>3 DEF Confined
  <1>5. IsStored(r)
    BY DEF IsStored, MemoryInv, VersionsHold
  <1>6. \A j \in FactIds : IsStored(fs2[j]) /\ Rewritten(fs2[j], facts[j], keyState.active)
    BY <1>2, <1>5 DEF Rewritten, MemoryInv
  <1>7. PICK S : S = FactsOf(facts, s) \ {i}
    OBVIOUS
  <1>8. FactsOf(fs2, s) = S \cup {i} /\ i \notin S /\ S \in SUBSET FactIds
    BY <1>2, <1>7 DEF FactsOf
  <1>9. Sum(Lengths(fs2), S) = Sum(Lengths(facts), S)
    <2>1. \A j \in S : fs2[j].content = facts[j].content
      BY <1>2, <1>8
    <2>2. QED
      BY <1>8, <2>1, LengthsSame DEF MemoryInv
  <1>10. IsFiniteSet(S) /\ Numeric(Lengths(fs2), S) /\ Lengths(fs2)[i] = Cardinality(r.content)
         /\ Lengths(fs2)[i] \in Int
    BY <1>2, <1>6, <1>8, LengthsCount
  <1>11. Sum(Lengths(fs2), S \cup {i}) = Lengths(fs2)[i] + Sum(Lengths(fs2), S)
    BY <1>8, <1>10, SumAdds
  <1>12. Sum(Lengths(fs2), S) \in Int
    BY <1>10, SumType
  <1>13. t = Sum(Lengths(fs2), FactsOf(fs2, s))
    BY <1>7, <1>8, <1>9, <1>10, <1>11, <1>12
  <1>14. CharsHold(fs2, charsUsed')
    BY <1>4, <1>13, CharsAfter
  <1>15. charsUsed' = [q \in MemScopes |-> charsUsed'[q]]
    BY DEF MemoryInv
  <1>16. QED
    BY <1>1, <1>2, <1>6, <1>14, <1>15, MutationStep

LEMMA FreshId ==
    ASSUME MemoryInv, Memory!NextId \in FactIds
    PROVE  facts[Memory!NextId] = Memory!NoFact
  <1>1. PICK used : used = {i \in FactIds : facts[i] # Memory!NoFact}
    OBVIOUS
  <1>2. IsFiniteSet(used) /\ used \subseteq Nat
    BY <1>1, MemoryAssumption, FS_Subset
  <1>3. CASE used = {}
    BY <1>1, <1>3
  <1>4. CASE used # {}
    <2>1. Memory!NextId = Memory!Max(used) + 1
      BY <1>1, <1>4 DEF Memory!NextId
    <2>2. \E m \in used : \A k \in used : m >= k
      BY <1>2, <1>4, GreatestNumber
    <2>3. PICK m : m = Memory!Max(used)
      OBVIOUS
    <2>4. m \in used /\ \A k \in used : m >= k
      BY <2>2, <2>3 DEF Memory!Max
    <2>5. m \in Nat
      BY <1>2, <2>4
    <2>6. m + 1 \notin used
      BY <2>4, <2>5
    <2>7. QED
      BY <1>1, <2>1, <2>3, <2>6
  <1>5. QED
    BY <1>3, <1>4

LEMMA AddStep ==
    ASSUME MemoryInv, NEW p \in MemProcesses, NEW s \in MemScopes, NEW c \in Contents, Memory!Add(p, s, c)
    PROVE  MemoryInv'
  <1>1. /\ Memory!NextId \in FactIds /\ Memory!Total(s, {}, c) <= MaxChars
        /\ facts' = [facts EXCEPT ![Memory!NextId] = Memory!Sealed(p, s, c)]
        /\ charsUsed' = [charsUsed EXCEPT ![s] = Memory!Total(s, {}, c)]
        /\ UNCHANGED <<keyState, retired, rotated>> /\ ring[p].active = keyState.active
    BY DEF Memory!Add, Memory!LockScope, Memory!LockKeyState
  <1>2. PICK i \in FactIds : i = Memory!NextId
    BY <1>1
  <1>3. facts[i] = Memory!NoFact
    BY <1>2, FreshId
  <1>4. PICK r : r = Memory!Sealed(p, s, c)
    OBVIOUS
  <1>5. r.scope = s /\ r.version = keyState.active /\ r.content = c
    BY <1>1, <1>4 DEF Memory!Sealed
  <1>6. PICK t : t = Memory!Total(s, {}, c)
    OBVIOUS
  <1>7. FactsOf(facts, s) \ {} = FactsOf(facts, s) \ {i}
    BY <1>3, MemoryAssumption DEF FactsOf, Memory!NoFact
  <1>8. t = Sum(Lengths(facts), FactsOf(facts, s) \ {i}) + Cardinality(c)
    BY <1>6, <1>7, TotalIsSum
  <1>9. IsFiniteSet(c)
    BY MemoryAssumption
  <1>10. QED
    BY <1>1, <1>2, <1>3, <1>4, <1>5, <1>6, <1>8, <1>9, PutFact

LEMMA ReplaceStep ==
    ASSUME MemoryInv, NEW p \in MemProcesses, NEW s \in MemScopes, NEW w, NEW c \in Contents,
           Memory!Replace(p, s, w, c)
    PROVE  MemoryInv'
  <1>1. PICK i : i = Memory!Min(Memory!Matching(s, w))
    OBVIOUS
  <1>2. /\ Memory!Matching(s, w) # {} /\ Memory!Total(s, {i}, c) <= MaxChars
        /\ facts' = [facts EXCEPT ![i] = Memory!Sealed(p, s, c)]
        /\ charsUsed' = [charsUsed EXCEPT ![s] = Memory!Total(s, {i}, c)]
        /\ UNCHANGED <<keyState, retired, rotated>> /\ ring[p].active = keyState.active
    BY <1>1 DEF Memory!Replace, Memory!LockScope, Memory!LockKeyState
  <1>3. i \in FactIds /\ facts[i].scope = s
    <2>1. PICK M : M = Memory!Matching(s, w)
      OBVIOUS
    <2>2. M # {} /\ \A j \in M : j \in FactIds /\ facts[j].scope = s
      BY <1>2, <2>1 DEF Memory!Matching, Memory!Facts
    <2>3. M \subseteq Nat
      BY <2>2, MemoryAssumption
    <2>4. \E m \in M : \A k \in M : m <= k
      BY <2>2, <2>3, LeastNumber
    <2>5. i \in M
      BY <1>1, <2>1, <2>4 DEF Memory!Min
    <2>6. QED
      BY <2>2, <2>5
  <1>4. PICK r : r = Memory!Sealed(p, s, c)
    OBVIOUS
  <1>5. r.scope = s /\ r.version = keyState.active /\ r.content = c
    BY <1>2, <1>4 DEF Memory!Sealed
  <1>6. PICK t : t = Memory!Total(s, {i}, c)
    OBVIOUS
  <1>7. t = Sum(Lengths(facts), FactsOf(facts, s) \ {i}) + Cardinality(c)
    BY <1>6, TotalIsSum
  <1>8. IsFiniteSet(c)
    BY MemoryAssumption
  <1>9. QED
    BY <1>2, <1>3, <1>4, <1>5, <1>6, <1>7, <1>8, PutFact

(* Facts of one scope are dropped. *)
LEMMA DropFacts ==
    ASSUME MemoryInv, UNCHANGED <<keyState, retired, rotated>>, NEW s \in MemScopes,
           NEW M, M \subseteq FactsOf(facts, s),
           facts' = [i \in FactIds |-> IF i \in M THEN Memory!NoFact ELSE facts[i]],
           NEW t, t = Sum(Lengths(facts), FactsOf(facts, s) \ M),
           charsUsed' = [charsUsed EXCEPT ![s] = t]
    PROVE  MemoryInv'
  <1>1. PICK fs2 : fs2 = [i \in FactIds |-> IF i \in M THEN Memory!NoFact ELSE facts[i]]
    OBVIOUS
  <1>2. /\ fs2 = [j \in FactIds |-> fs2[j]] /\ M \subseteq FactIds
        /\ \A j \in M : fs2[j] = Memory!NoFact /\ facts[j].scope = s
        /\ \A j \in FactIds \ M : fs2[j] = facts[j]
    BY <1>1 DEF FactsOf
  <1>3. Memory!NoFact.scope \notin MemScopes /\ IsStored(Memory!NoFact)
    BY MemoryAssumption, FS_EmptySet DEF Memory!NoFact, IsStored
  <1>4. Confined(fs2, facts, s)
    BY <1>2, <1>3 DEF Confined
  <1>5. \A j \in FactIds : IsStored(fs2[j]) /\ Rewritten(fs2[j], facts[j], keyState.active)
    BY <1>2, <1>3 DEF Rewritten, MemoryInv
  <1>6. PICK S : S = FactsOf(facts, s) \ M
    OBVIOUS
  <1>7. FactsOf(fs2, s) = S /\ S \in SUBSET FactIds
    BY <1>2, <1>3, <1>6 DEF FactsOf
  <1>8. Sum(Lengths(fs2), S) = Sum(Lengths(facts), S)
    <2>1. \A j \in S : fs2[j].content = facts[j].content
      BY <1>2, <1>6, <1>7
    <2>2. QED
      BY <1>7, <2>1, LengthsSame DEF MemoryInv
  <1>9. t = Sum(Lengths(fs2), FactsOf(fs2, s))
    BY <1>6, <1>7, <1>8
  <1>10. t <= MaxChars
    <2>1. PICK F : F = FactsOf(facts, s)
      OBVIOUS
    <2>2. F \subseteq FactIds /\ S \subseteq F
      BY <1>6, <2>1 DEF FactsOf
    <2>3. PICK f : f = Lengths(facts)
      OBVIOUS
    <2>4. IsFiniteSet(F) /\ \A x \in F : f[x] \in Nat
      BY <2>2, <2>3, LengthsCount DEF MemoryInv
    <2>5. Sum(f, S) <= Sum(f, F) /\ Sum(f, S) \in Nat
      BY <2>2, <2>4, SumGrows
    <2>6. Sum(f, F) \in Nat
      BY <2>4, SumGrows
    <2>7. Sum(f, F) <= MaxChars
      BY <2>1, <2>3 DEF MemoryInv, CharsHold
    <2>8. QED
      BY <1>6, <2>3, <2>5, <2>6, <2>7, MemoryAssumption
  <1>11. CharsHold(fs2, charsUsed')
    BY <1>4, <1>9, <1>10, CharsAfter
  <1>12. charsUsed' = [q \in MemScopes |-> charsUsed'[q]]
    BY DEF MemoryInv
  <1>13. QED
    BY <1>1, <1>2, <1>5, <1>11, <1>12, MutationStep

LEMMA RemoveStep ==
    ASSUME MemoryInv, NEW p \in MemProcesses, NEW s \in MemScopes, NEW w, Memory!Remove(p, s, w)
    PROVE  MemoryInv'
  <1>1. PICK M : M = Memory!Matching(s, w)
    OBVIOUS
  <1>2. /\ facts' = [i \in FactIds |-> IF i \in M THEN Memory!NoFact ELSE facts[i]]
        /\ charsUsed' = [charsUsed EXCEPT ![s] = Memory!Total(s, M, {})]
        /\ UNCHANGED <<keyState, retired, rotated>>
    BY <1>1 DEF Memory!Remove
  <1>3. M \subseteq FactsOf(facts, s)
    BY <1>1 DEF Memory!Matching, Memory!Facts, FactsOf
  <1>4. PICK t : t = Sum(Lengths(facts), FactsOf(facts, s) \ M)
    OBVIOUS
  <1>5. t \in Int
    <2>1. PICK S : S = FactsOf(facts, s) \ M
      OBVIOUS
    <2>2. S \subseteq FactIds
      BY <2>1 DEF FactsOf
    <2>3. IsFiniteSet(S) /\ Numeric(Lengths(facts), S)
      BY <2>2, LengthsCount DEF MemoryInv
    <2>4. QED
      BY <1>4, <2>1, <2>3, SumType
  <1>6. Memory!Total(s, M, {}) = t
    <2>1. Memory!Total(s, M, {}) = t + Cardinality({})
      BY <1>4, TotalIsSum
    <2>2. Cardinality({}) = 0
      BY FS_EmptySet
    <2>3. QED
      BY <1>5, <2>1, <2>2
  <1>7. QED
    BY <1>2, <1>3, <1>4, <1>6, DropFacts

LEMMA DeleteAllStep ==
    ASSUME MemoryInv, NEW p \in MemProcesses, NEW s \in MemScopes, Memory!DeleteAll(p, s)
    PROVE  MemoryInv'
  <1>1. PICK M : M = FactsOf(facts, s)
    OBVIOUS
  <1>2. /\ facts' = [i \in FactIds |-> IF i \in M THEN Memory!NoFact ELSE facts[i]]
        /\ charsUsed' = [charsUsed EXCEPT ![s] = 0]
        /\ UNCHANGED <<keyState, retired, rotated>>
    BY <1>1 DEF Memory!DeleteAll, Memory!Facts, FactsOf
  <1>3. FactsOf(facts, s) \ M = {}
    BY <1>1
  <1>4. 0 = Sum(Lengths(facts), FactsOf(facts, s) \ M)
    BY <1>3, SumEmpty
  <1>5. QED
    BY <1>1, <1>2, <1>4, DropFacts

LEMMA RotateStep ==
    ASSUME MemoryInv, NEW p \in MemProcesses, NEW s \in MemScopes, Memory!RotateBatch(p, s)
    PROVE  MemoryInv'
  <1>1. PICK B : B = Memory!Batch(p, s)
    OBVIOUS
  <1>2. PICK act \in Nat : act = keyState.active
    BY DEF MemoryInv, VersionsHold
  <1>3. /\ facts' = [i \in FactIds |-> IF i \in B THEN Memory!Sealed(p, s, facts[i].content) ELSE facts[i]]
        /\ rotated' = [rotated EXCEPT ![s] =
               IF \A i \in FactIds : facts'[i].scope = s => facts'[i].version = act THEN act ELSE @]
        /\ UNCHANGED <<keyState, charsUsed, retired>> /\ ring[p].active = act
    <2>1. ring[p].active = act
      BY <1>2 DEF Memory!RotateBatch, Memory!LockKeyState
    <2>2. /\ facts' = [i \in FactIds |-> IF i \in B THEN Memory!Sealed(p, s, facts[i].content)
                                         ELSE facts[i]]
          /\ UNCHANGED <<keyState, charsUsed, retired>>
      BY <1>1 DEF Memory!RotateBatch
    <2>3. rotated' = [rotated EXCEPT ![s] =
              IF \A i \in FactIds : facts'[i].scope = s => facts'[i].version = ring[p].active
              THEN ring[p].active ELSE @]
      BY DEF Memory!RotateBatch
    <2>4. QED
      BY <2>1, <2>2, <2>3
  <1>4. PICK fs2 : fs2 = facts'
    OBVIOUS
  <1>5. B \subseteq FactIds /\ \A i \in B : facts[i].scope = s
    BY <1>1 DEF Memory!Batch, Memory!Facts
  <1>6. \A i \in B : fs2[i].scope = s /\ fs2[i].version = act /\ fs2[i].content = facts[i].content
    BY <1>3, <1>4, <1>5 DEF Memory!Sealed
  <1>7. fs2 = [i \in FactIds |-> fs2[i]] /\ \A i \in FactIds \ B : fs2[i] = facts[i]
    BY <1>3, <1>4
  <1>8. \A i \in FactIds : IsStored(fs2[i]) /\ Rewritten(fs2[i], facts[i], act)
    <2>1. ASSUME NEW i \in B PROVE IsStored(fs2[i]) /\ Rewritten(fs2[i], facts[i], act)
      BY <1>5, <1>6 DEF IsStored, Rewritten, MemoryInv
    <2>2. QED
      BY <1>7, <2>1 DEF MemoryInv, Rewritten
  <1>9. \A i \in FactIds : fs2[i].scope = facts[i].scope /\ fs2[i].content = facts[i].content
    BY <1>5, <1>6, <1>7
  <1>10. CharsHold(fs2, charsUsed)
    <2>1. SUFFICES ASSUME NEW q \in MemScopes
                   PROVE  charsUsed[q] = Sum(Lengths(fs2), FactsOf(fs2, q)) /\ charsUsed[q] <= MaxChars
      BY DEF CharsHold
    <2>2. PICK S : S = FactsOf(facts, q)
      OBVIOUS
    <2>3. FactsOf(fs2, q) = S /\ S \in SUBSET FactIds
      BY <1>9, <2>2 DEF FactsOf
    <2>4. \A i \in S : fs2[i].content = facts[i].content
      BY <1>9, <2>3
    <2>5. Sum(Lengths(fs2), S) = Sum(Lengths(facts), S)
      BY <2>3, <2>4, LengthsSame DEF MemoryInv
    <2>6. QED
      BY <2>2, <2>3, <2>5 DEF MemoryInv, CharsHold
  <1>11. VersionsHold(fs2, act, retired, rotated)
    BY <1>2, <1>8, VersionsKept DEF MemoryInv
  <1>12. PICK rot2 : rot2 = rotated'
    OBVIOUS
  <1>13. /\ rot2 = [q \in MemScopes |-> rot2[q]] /\ \A q \in MemScopes \ {s} : rot2[q] = rotated[q]
         /\ \/ rot2[s] = rotated[s]
            \/ rot2[s] = act /\ \A i \in FactIds : fs2[i].scope = s => fs2[i].version = act
    <2>1. PICK v : v = IF \A i \in FactIds : fs2[i].scope = s => fs2[i].version = act THEN act ELSE rotated[s]
      OBVIOUS
    <2>2. rot2 = [rotated EXCEPT ![s] = v]
      BY <1>3, <1>4, <1>12, <2>1
    <2>3. rot2 = [q \in MemScopes |-> rot2[q]] /\ rot2[s] = v /\ \A q \in MemScopes \ {s} : rot2[q] = rotated[q]
      BY <2>2 DEF MemoryInv
    <2>4. QED
      BY <2>1, <2>3
  <1>14. VersionsHold(fs2, act, retired, rot2)
    <2>1. \A q \in MemScopes : rot2[q] \in Nat /\ rot2[q] <= act
      BY <1>11, <1>13 DEF VersionsHold
    <2>2. \A i \in FactIds : fs2[i].scope \in MemScopes => fs2[i].version >= rot2[fs2[i].scope]
      BY <1>11, <1>13 DEF VersionsHold
    <2>3. QED
      BY <1>11, <2>1, <2>2 DEF VersionsHold
  <1>15. VersionsHold(facts, keyState.active, retired, rotated)'
    BY <1>2, <1>3, <1>4, <1>12, <1>14
  <1>16. CharsHold(facts, charsUsed)'
    BY <1>3, <1>4, <1>10
  <1>17. QED
    BY <1>3, <1>4, <1>7, <1>8, <1>12, <1>13, <1>15, <1>16 DEF MemoryInv

LEMMA MemoryKept ==
    ASSUME MemoryInv, UNCHANGED <<keyState, facts, charsUsed, retired, rotated>> PROVE MemoryInv'
  BY DEF MemoryInv

LEMMA MemoryNextStep == ASSUME MemoryInv, Memory!MemoryNext PROVE MemoryInv'
  <1>1. PICK p \in MemProcesses :
            \/ Memory!ActivateKeyVersion(p) \/ Memory!ValidateKeyVersions(p) \/ Memory!Shutdown(p)
            \/ \E v \in KeyVersions : Memory!AssertKeyRetirable(p, v)
            \/ \E s \in MemScopes :
                   \/ Memory!DeleteAll(p, s) \/ Memory!RotateBatch(p, s)
                   \/ \E c \in Contents : Memory!Add(p, s, c)
                   \/ \E w \in UNION Contents :
                          Memory!Remove(p, s, w) \/ \E c \in Contents : Memory!Replace(p, s, w, c)
    BY DEF Memory!MemoryNext
  <1>2. CASE Memory!ActivateKeyVersion(p)
    BY <1>2, ActivationStep
  <1>3. CASE Memory!ValidateKeyVersions(p) \/ Memory!Shutdown(p)
    BY <1>3, MemoryKept DEF Memory!ValidateKeyVersions, Memory!Shutdown
  <1>4. ASSUME NEW v \in KeyVersions, Memory!AssertKeyRetirable(p, v) PROVE MemoryInv'
    BY <1>4, RetirementStep
  <1>5. ASSUME NEW s \in MemScopes,
               \/ Memory!DeleteAll(p, s) \/ Memory!RotateBatch(p, s)
               \/ \E c \in Contents : Memory!Add(p, s, c)
               \/ \E w \in UNION Contents :
                      Memory!Remove(p, s, w) \/ \E c \in Contents : Memory!Replace(p, s, w, c)
        PROVE  MemoryInv'
    BY <1>5, DeleteAllStep, RotateStep, AddStep, RemoveStep, ReplaceStep
  <1>6. QED
    BY <1>1, <1>2, <1>3, <1>4, <1>5

LEMMA MemoryPromise ==
    ASSUME MemoryInv PROVE Memory!RetiredKeysAreUnused /\ Memory!CharsAreAccounted
  <1>1. ASSUME NEW r \in retired, r.version < r.active PROVE r.version \notin Memory!VersionsInUse
    BY <1>1 DEF MemoryInv, VersionsHold, RetirementHolds, Memory!VersionsInUse
  <1>2. ASSUME NEW i \in FactIds, facts[i] # Memory!NoFact
        PROVE  facts[i].version >= rotated[facts[i].scope]
    BY <1>2 DEF MemoryInv, VersionsHold, IsStored
  <1>3. Memory!RetiredKeysAreUnused
    BY <1>1, <1>2 DEF Memory!RetiredKeysAreUnused
  <1>4. ASSUME NEW s \in MemScopes
        PROVE  /\ charsUsed[s] = Memory!MapThenSumSet(LAMBDA i : Memory!Cardinality(facts[i].content),
                                                      Memory!Facts(s))
               /\ charsUsed[s] <= MaxChars
    <2>1. PICK S : S = Memory!Facts(s)
      OBVIOUS
    <2>2. S = FactsOf(facts, s) /\ S \in SUBSET FactIds
      BY <2>1 DEF Memory!Facts, FactsOf
    <2>3. \A i \in FactIds : IsFiniteSet(facts[i].content)
      BY DEF MemoryInv, IsStored
    <2>4. Memory!MapThenSumSet(LAMBDA i : Memory!Cardinality(facts[i].content), S) = Sum(Lengths(facts), S)
      BY <2>2, <2>3, CharsAreSums
    <2>5. charsUsed[s] = Sum(Lengths(facts), S) /\ charsUsed[s] <= MaxChars
      BY <2>2 DEF MemoryInv, CharsHold
    <2>6. QED
      BY <2>1, <2>4, <2>5
  <1>5. Memory!CharsAreAccounted
    BY <1>4 DEF Memory!CharsAreAccounted
  <1>6. QED
    BY <1>3, <1>5

-----------------------------------------------------------------------------
(* The context of a call: choosing under a budget. *)

Start0(start) == [taken |-> <<>>, spent |-> start]

(* The states of the greedy choice, one per candidate looked at. *)
IsChoice(g, seq, budget, limit, start, n) ==
    g = [i \in 0 .. n |-> IF i = 0 THEN Start0(start) ELSE Context!Takes(g[i - 1], seq[i], budget, limit)]

LEMMA ChoiceExists ==
    ASSUME NEW seq, NEW budget, NEW limit, NEW start, NEW N \in Nat
    PROVE  \E g : IsChoice(g, seq, budget, limit, start, N)
  <1> DEFINE B == {n \in Nat : \A g : ~IsChoice(g, seq, budget, limit, start, n)}
             step(g, i) == Context!Takes(g[i - 1], seq[i], budget, limit)
  <1> SUFFICES ASSUME N \in B PROVE FALSE
    OBVIOUS
  <1>1. B \subseteq Nat /\ B # {}
    OBVIOUS
  <1>2. \A n \in B : \A g : ~IsChoice(g, seq, budget, limit, start, n)
    OBVIOUS
  <1>3. \A n \in Nat : n \notin B => \E g : IsChoice(g, seq, budget, limit, start, n)
    OBVIOUS
  <1> HIDE DEF B
  <1>4. PICK n \in B : \A k \in B : n <= k
    BY <1>1, LeastNumber
  <1>5. n \in Nat
    BY <1>1
  <1>6. n # 0
    <2> DEFINE h == [i \in 0 .. 0 |-> Start0(start)]
    <2>1. h = [i \in 0 .. 0 |-> IF i = 0 THEN Start0(start) ELSE step(h, i)]
      OBVIOUS
    <2>2. IsChoice(h, seq, budget, limit, start, 0)
      BY <2>1 DEF IsChoice
    <2>3. QED
      BY <1>2, <2>2
  <1>7. PICK g : IsChoice(g, seq, budget, limit, start, n - 1)
    BY <1>3, <1>4, <1>5, <1>6
  <1> DEFINE h == [i \in 0 .. n |-> IF i < n THEN g[i] ELSE step(g, n)]
  <1>8. ASSUME NEW i \in 0 .. n
        PROVE  h[i] = IF i = 0 THEN Start0(start) ELSE step(h, i)
    <2>1. CASE i < n
      <3>1. g[i] = IF i = 0 THEN Start0(start) ELSE step(g, i)
        <4>1. i \in 0 .. n - 1
          BY <1>5, <2>1
        <4>2. QED
          BY <1>7, <4>1 DEF IsChoice
      <3>2. h[i] = g[i] /\ (i # 0 => h[i - 1] = g[i - 1])
        BY <1>5, <2>1
      <3> HIDE DEF h
      <3>3. QED
        BY <3>1, <3>2
    <2>2. CASE i = n
      <3>1. h[n] = step(g, n) /\ n \in 0 .. n
        BY <1>5
      <3>2. h[n - 1] = g[n - 1]
        <4>1. n - 1 \in 0 .. n /\ n - 1 < n
          BY <1>5, <1>6
        <4>2. QED
          BY <4>1
      <3> HIDE DEF h
      <3>3. h[n] = step(h, n)
        BY <3>1, <3>2
      <3>4. QED
        BY <1>6, <2>2, <3>3
    <2>3. QED
      BY <1>5, <2>1, <2>2
  <1>9. h = [i \in 0 .. n |-> IF i = 0 THEN Start0(start) ELSE step(h, i)]
    <2> DEFINE q == [i \in 0 .. n |-> IF i = 0 THEN Start0(start) ELSE step(h, i)]
    <2>1. /\ DOMAIN h = 0 .. n /\ h = [i \in DOMAIN h |-> h[i]]
          /\ DOMAIN q = 0 .. n /\ q = [i \in DOMAIN q |-> q[i]]
      OBVIOUS
    <2>2. \A i \in 0 .. n : q[i] = IF i = 0 THEN Start0(start) ELSE step(h, i)
      OBVIOUS
    <2>3. \A i \in 0 .. n : h[i] = q[i]
      <3> HIDE DEF h, q
      <3>1. QED
        BY <1>8, <2>2
    <2>4. h = q
      <3> HIDE DEF h, q
      <3>1. QED
        BY <2>1, <2>3
    <2>5. QED
      BY <2>4
  <1>10. IsChoice(h, seq, budget, limit, start, n)
    <2> HIDE DEF h
    <2>1. QED
      BY <1>9 DEF IsChoice
  <1>11. QED
    BY <1>2, <1>10

LEMMA GreedyIsChoice ==
    ASSUME NEW seq, NEW n \in Nat, n = Len(seq), NEW budget, NEW limit, NEW start
    PROVE  \E g : /\ IsChoice(g, seq, budget, limit, start, n)
                  /\ Context!Greedy(seq, budget, limit, start) = g[n]
  <1>1. PICK h : IsChoice(h, seq, budget, limit, start, n)
    BY ChoiceExists
  <1>2. QED
    BY <1>1 DEF IsChoice, Start0, Context!Greedy

Costs(D) == [d \in D |-> d.cost]
Prefix(seq, i) == {seq[j] : j \in 1 .. i}

(* Candidates D, each once in seq. *)
Candidates(seq, D) ==
    /\ IsFiniteSet(D) /\ \A d \in D : d.cost \in Nat
    /\ seq \in Seq(D)
    /\ \A i, j \in 1 .. Len(seq) : seq[i] = seq[j] => i = j

(* The members of t are members of seq up to i, in their order. *)
InOrder(t, seq, ix, i) ==
    /\ ix \in [1 .. Len(t) -> 1 .. i]
    /\ \A j \in 1 .. Len(t) : t[j] = seq[ix[j]]
    /\ \A j, k \in 1 .. Len(t) : j < k => ix[j] < ix[k]

AccHolds(acc, seq, D, budget, start, i) ==
    /\ acc.taken \in Seq(D) /\ Len(acc.taken) <= i
    /\ acc.spent \in Nat /\ acc.spent <= budget
    /\ acc.spent <= start + Sum(Costs(D), Prefix(seq, i))
    /\ \E ix : InOrder(acc.taken, seq, ix, i)

Took(t, d) == \E j \in 1 .. Len(t) : t[j] = d
KeepsAll(t2, t) == \A d : Took(t, d) => Took(t2, d)

(* d was taken, or there was no place or no room for it. *)
Decided(acc, t, d, budget, limit) ==
    Took(t, d) \/ Len(acc.taken) >= limit \/ acc.spent + d.cost > budget

LEMMA PrefixSums ==
    ASSUME NEW seq, NEW D, Candidates(seq, D), NEW i \in Nat, i + 1 <= Len(seq)
    PROVE  /\ Sum(Costs(D), Prefix(seq, i)) \in Nat
           /\ Sum(Costs(D), Prefix(seq, i + 1)) = seq[i + 1].cost + Sum(Costs(D), Prefix(seq, i))
           /\ seq[i + 1] \in D /\ seq[i + 1].cost \in Nat
  <1>1. PICK n \in Nat : n = Len(seq)
    BY DEF Candidates
  <1>2. seq \in Seq(D) /\ IsFiniteSet(D) /\ \A d \in D : d.cost \in Nat
    BY DEF Candidates
  <1>3. i + 1 \in 1 .. n /\ \A j \in 1 .. i : j \in 1 .. n /\ j # i + 1
    BY <1>1
  <1>4. seq[i + 1] \in D /\ \A j \in 1 .. i : seq[j] \in D
    BY <1>1, <1>2, <1>3
  <1>5. PICK S : S = Prefix(seq, i)
    OBVIOUS
  <1>6. PICK x : x = seq[i + 1]
    OBVIOUS
  <1>7. S \subseteq D /\ x \in D
    BY <1>4, <1>5, <1>6 DEF Prefix
  <1>8. x \notin S
    <2>1. \A j \in 1 .. i : seq[j] # seq[i + 1]
      BY <1>1, <1>3 DEF Candidates
    <2>2. QED
      BY <1>5, <1>6, <2>1 DEF Prefix
  <1>9. Prefix(seq, i + 1) = S \cup {x}
    <2>1. \A j \in 1 .. (i + 1) : j \in 1 .. i \/ j = i + 1
      OBVIOUS
    <2>2. i + 1 \in 1 .. (i + 1) /\ \A j \in 1 .. i : j \in 1 .. (i + 1)
      OBVIOUS
    <2>3. QED
      BY <1>5, <1>6, <2>1, <2>2 DEF Prefix
  <1>10. PICK f : f = Costs(D)
    OBVIOUS
  <1>11. \A d \in D : f[d] = d.cost /\ f[d] \in Nat
    BY <1>2, <1>10 DEF Costs
  <1>12. Numeric(f, S) /\ IsFiniteSet(S)
    BY <1>2, <1>7, <1>11, FS_Subset DEF Numeric
  <1>13. Sum(f, S) \in Nat
    BY <1>2, <1>7, <1>11, SumGrows
  <1>14. Sum(f, S \cup {x}) = f[x] + Sum(f, S)
    BY <1>7, <1>8, <1>11, <1>12, SumAdds
  <1>15. QED
    BY <1>5, <1>6, <1>7, <1>9, <1>10, <1>11, <1>13, <1>14

LEMMA OrderGrows ==
    ASSUME NEW D, NEW t \in Seq(D), NEW seq, NEW ix, NEW i \in Nat, InOrder(t, seq, ix, i), seq[i + 1] \in D
    PROVE  /\ \E f : InOrder(Append(t, seq[i + 1]), seq, f, i + 1)
           /\ \E f : InOrder(t, seq, f, i + 1)
  <1>1. PICK m \in Nat : m = Len(t)
    OBVIOUS
  <1>2. PICK w : w = Append(t, seq[i + 1])
    OBVIOUS
  <1>3. Len(w) = m + 1 /\ w[m + 1] = seq[i + 1] /\ \A j \in 1 .. m : w[j] = t[j]
    BY <1>1, <1>2
  <1>4. \A j \in 1 .. m : ix[j] \in 1 .. i /\ ix[j] \in 1 .. (i + 1) /\ ix[j] < i + 1
    <2>1. \A j \in 1 .. m : ix[j] \in 1 .. i
      BY <1>1 DEF InOrder
    <2>2. QED
      BY <2>1
  <1> DEFINE f == [j \in 1 .. (m + 1) |-> IF j = m + 1 THEN i + 1 ELSE ix[j]]
  <1>5. \A j \in 1 .. m : f[j] = ix[j]
    <2>1. \A j \in 1 .. m : j \in 1 .. (m + 1) /\ j # m + 1
      OBVIOUS
    <2>2. QED
      BY <2>1
  <1>6. f[m + 1] = i + 1 /\ i + 1 \in 1 .. (i + 1)
    OBVIOUS
  <1>7. \A j \in 1 .. (m + 1) : j \in 1 .. m \/ j = m + 1
    OBVIOUS
  <1>8. DOMAIN f = 1 .. (m + 1) /\ f = [j \in DOMAIN f |-> f[j]]
    OBVIOUS
  <1> HIDE DEF f
  <1>9. f \in [1 .. (m + 1) -> 1 .. (i + 1)]
    BY <1>4, <1>5, <1>6, <1>7, <1>8
  <1>10. \A j \in 1 .. (m + 1) : w[j] = seq[f[j]]
    <2>1. \A j \in 1 .. m : t[j] = seq[ix[j]]
      BY <1>1 DEF InOrder
    <2>2. QED
      BY <1>3, <1>5, <1>6, <1>7, <2>1
  <1>11. ASSUME NEW j \in 1 .. (m + 1), NEW k \in 1 .. (m + 1), j < k PROVE f[j] < f[k]
    <2>1. j \in 1 .. m
      BY <1>11
    <2>2. CASE k = m + 1
      BY <1>4, <1>5, <1>6, <2>1, <2>2
    <2>3. CASE k \in 1 .. m
      <3>1. ix[j] < ix[k]
        BY <1>1, <1>11, <2>1, <2>3 DEF InOrder
      <3>2. QED
        BY <1>5, <2>1, <2>3, <3>1
    <2>4. QED
      BY <1>7, <2>2, <2>3
  <1>12. InOrder(w, seq, f, i + 1)
    BY <1>3, <1>9, <1>10, <1>11 DEF InOrder
  <1>13. InOrder(t, seq, ix, i + 1)
    <2>1. ix \in [1 .. m -> 1 .. (i + 1)]
      <3>1. DOMAIN ix = 1 .. m /\ ix = [j \in DOMAIN ix |-> ix[j]]
        BY <1>1 DEF InOrder
      <3>2. QED
        BY <1>4, <3>1
    <2>2. QED
      BY <1>1, <2>1 DEF InOrder
  <1>14. QED
    BY <1>2, <1>12, <1>13

LEMMA TakesStep ==
    ASSUME NEW seq, NEW D, Candidates(seq, D), NEW i \in Nat, i + 1 <= Len(seq), NEW budget \in Nat,
           NEW limit \in Nat, NEW start \in Nat, NEW acc, AccHolds(acc, seq, D, budget, start, i),
           NEW a2, a2 = Context!Takes(acc, seq[i + 1], budget, limit)
    PROVE  /\ AccHolds(a2, seq, D, budget, start, i + 1)
           /\ acc.spent <= a2.spent /\ KeepsAll(a2.taken, acc.taken)
           /\ Decided(acc, a2.taken, seq[i + 1], budget, limit)
  <1>1. PICK d : d = seq[i + 1]
    OBVIOUS
  <1>2. PICK x \in Nat : x = Sum(Costs(D), Prefix(seq, i))
    BY PrefixSums
  <1>3. Sum(Costs(D), Prefix(seq, i + 1)) = d.cost + x /\ d \in D /\ d.cost \in Nat
    BY <1>1, <1>2, PrefixSums
  <1>4. PICK t \in Seq(D) : t = acc.taken
    BY DEF AccHolds
  <1>5. PICK m \in Nat : m = Len(t)
    BY <1>4
  <1>6. PICK c \in Nat : c = d.cost
    BY <1>3
  <1>7. PICK y \in Nat : y = acc.spent
    BY DEF AccHolds
  <1>8. m <= i /\ y <= budget /\ y <= start + x
    BY <1>2, <1>4, <1>5, <1>7 DEF AccHolds
  <1>9. PICK ix : InOrder(t, seq, ix, i)
    BY <1>4 DEF AccHolds
  <1>10. /\ \E f : InOrder(Append(t, d), seq, f, i + 1)
         /\ \E f : InOrder(t, seq, f, i + 1)
    BY <1>1, <1>3, <1>4, <1>9, OrderGrows
  <1>11. Sum(Costs(D), Prefix(seq, i + 1)) = c + x
    BY <1>3, <1>6
  <1>12. CASE m >= limit \/ y + c > budget
    <2>1. a2 = acc
      BY <1>1, <1>4, <1>5, <1>6, <1>7, <1>12 DEF Context!Takes
    <2>2. AccHolds(acc, seq, D, budget, start, i + 1)
      <3>1. m <= i + 1 /\ y <= start + (c + x)
        BY <1>8
      <3>2. QED
        BY <1>4, <1>5, <1>7, <1>8, <1>10, <1>11, <3>1 DEF AccHolds
    <2>3. Decided(acc, acc.taken, d, budget, limit)
      BY <1>4, <1>5, <1>6, <1>7, <1>12 DEF Decided
    <2>4. KeepsAll(acc.taken, acc.taken)
      BY DEF KeepsAll
    <2>5. QED
      BY <1>1, <1>7, <2>1, <2>2, <2>3, <2>4
  <1>13. CASE ~(m >= limit \/ y + c > budget)
    <2>1. a2 = [taken |-> Append(t, d), spent |-> y + c]
      BY <1>1, <1>4, <1>5, <1>6, <1>7, <1>13 DEF Context!Takes
    <2>2. PICK w : w = Append(t, d)
      OBVIOUS
    <2>3. w \in Seq(D) /\ Len(w) = m + 1 /\ w[m + 1] = d /\ \A j \in 1 .. m : w[j] = t[j]
      BY <1>3, <1>4, <1>5, <2>2
    <2>4. a2.taken = w /\ a2.spent = y + c
      BY <2>1, <2>2
    <2>5. AccHolds(a2, seq, D, budget, start, i + 1)
      <3>1. m + 1 <= i + 1 /\ y + c \in Nat /\ y + c <= budget /\ y + c <= start + (c + x)
        BY <1>8, <1>13
      <3>2. \E f : InOrder(w, seq, f, i + 1)
        BY <1>10, <2>2
      <3>3. QED
        BY <1>11, <2>3, <2>4, <3>1, <3>2 DEF AccHolds
    <2>6. Took(w, d)
      <3>1. m + 1 \in 1 .. (m + 1)
        OBVIOUS
      <3>2. QED
        BY <2>3, <3>1 DEF Took
    <2>7. ASSUME NEW q, Took(t, q) PROVE Took(w, q)
      <3>1. PICK j \in 1 .. m : t[j] = q
        BY <1>5, <2>7 DEF Took
      <3>2. j \in 1 .. (m + 1)
        OBVIOUS
      <3>3. QED
        BY <2>3, <3>1, <3>2 DEF Took
    <2>8. y <= y + c
      OBVIOUS
    <2>9. KeepsAll(w, t)
      BY <2>7 DEF KeepsAll
    <2>10. QED
      BY <1>1, <1>4, <1>7, <2>4, <2>5, <2>6, <2>8, <2>9 DEF Decided
  <1>14. QED
    BY <1>12, <1>13

(* There was no place for seq[k], or no room, when it was looked at. *)
Short(spent, seq, D, budget, limit, start, k) ==
    \E m, y \in Nat :
        /\ m <= k - 1 /\ y <= start + Sum(Costs(D), Prefix(seq, k - 1)) /\ y <= spent
        /\ m >= limit \/ y + seq[k].cost > budget

Looked(acc, seq, D, budget, limit, start, i) ==
    /\ AccHolds(acc, seq, D, budget, start, i)
    /\ \A k \in 1 .. i : Took(acc.taken, seq[k]) \/ Short(acc.spent, seq, D, budget, limit, start, k)

LEMMA LookedFurther ==
    ASSUME NEW seq, NEW D, Candidates(seq, D), NEW i \in Nat, i + 1 <= Len(seq), NEW budget \in Nat,
           NEW limit \in Nat, NEW start \in Nat, NEW acc, Looked(acc, seq, D, budget, limit, start, i)
    PROVE  Looked(Context!Takes(acc, seq[i + 1], budget, limit), seq, D, budget, limit, start, i + 1)
  <1>1. PICK a2 : a2 = Context!Takes(acc, seq[i + 1], budget, limit)
    OBVIOUS
  <1>2. AccHolds(acc, seq, D, budget, start, i)
    BY DEF Looked
  <1>3. /\ AccHolds(a2, seq, D, budget, start, i + 1)
        /\ acc.spent <= a2.spent /\ KeepsAll(a2.taken, acc.taken)
        /\ Decided(acc, a2.taken, seq[i + 1], budget, limit)
    BY <1>1, <1>2, TakesStep
  <1>4. PICK y \in Nat : y = acc.spent
    BY <1>2 DEF AccHolds
  <1>5. PICK z \in Nat : z = a2.spent
    BY <1>3 DEF AccHolds
  <1>6. y <= z
    BY <1>3, <1>4, <1>5
  <1>7. ASSUME NEW k \in 1 .. i
        PROVE  Took(a2.taken, seq[k]) \/ Short(a2.spent, seq, D, budget, limit, start, k)
    <2>1. CASE Took(acc.taken, seq[k])
      BY <1>3, <2>1 DEF KeepsAll
    <2>2. CASE Short(y, seq, D, budget, limit, start, k)
      <3>1. PICK m \in Nat, v \in Nat :
                /\ m <= k - 1 /\ v <= start + Sum(Costs(D), Prefix(seq, k - 1)) /\ v <= y
                /\ m >= limit \/ v + seq[k].cost > budget
        BY <2>2 DEF Short
      <3>2. v <= z
        BY <1>6, <3>1
      <3>3. Short(z, seq, D, budget, limit, start, k)
        BY <3>1, <3>2 DEF Short
      <3>4. QED
        BY <1>5, <3>3
    <2>3. QED
      BY <1>4, <2>1, <2>2 DEF Looked
  <1>8. Took(a2.taken, seq[i + 1]) \/ Short(a2.spent, seq, D, budget, limit, start, i + 1)
    <2>1. PICK m \in Nat : m = Len(acc.taken)
      BY <1>2 DEF AccHolds
    <2>2. m <= i /\ y <= start + Sum(Costs(D), Prefix(seq, i))
      BY <1>2, <1>4, <2>1 DEF AccHolds
    <2>3. (i + 1) - 1 = i
      OBVIOUS
    <2>4. ASSUME m >= limit \/ y + seq[i + 1].cost > budget
          PROVE  Short(z, seq, D, budget, limit, start, i + 1)
      BY <1>6, <2>2, <2>3, <2>4 DEF Short
    <2>5. QED
      BY <1>3, <1>4, <1>5, <2>1, <2>4 DEF Decided
  <1>9. \A k \in 1 .. (i + 1) : k \in 1 .. i \/ k = i + 1
    OBVIOUS
  <1>10. Looked(a2, seq, D, budget, limit, start, i + 1)
    BY <1>3, <1>7, <1>8, <1>9 DEF Looked
  <1>11. QED
    BY <1>1, <1>10

LEMMA GreedyResult ==
    ASSUME NEW seq, NEW D, Candidates(seq, D), NEW n \in Nat, n = Len(seq), NEW budget \in Nat,
           NEW limit \in Nat, NEW start \in Nat, start <= budget
    PROVE  Looked(Context!Greedy(seq, budget, limit, start), seq, D, budget, limit, start, n)
  <1>1. PICK g : /\ IsChoice(g, seq, budget, limit, start, n)
                 /\ Context!Greedy(seq, budget, limit, start) = g[n]
    BY GreedyIsChoice
  <1>2. g[0] = Start0(start)
    BY <1>1 DEF IsChoice
  <1>3. ASSUME NEW i \in Nat, i + 1 <= n
        PROVE  g[i + 1] = Context!Takes(g[i], seq[i + 1], budget, limit)
    <2>1. i + 1 \in 0 .. n /\ i + 1 # 0 /\ (i + 1) - 1 = i
      BY <1>3
    <2>2. QED
      BY <1>1, <2>1 DEF IsChoice
  <1>4. Looked(g[0], seq, D, budget, limit, start, 0)
    <2>1. g[0].taken = <<>> /\ g[0].spent = start
      BY <1>2 DEF Start0
    <2>2. Prefix(seq, 0) = {}
      BY DEF Prefix
    <2>3. Sum(Costs(D), {}) = 0
      BY SumEmpty
    <2>4. start <= start + Sum(Costs(D), Prefix(seq, 0))
      <3>1. PICK z : z = Sum(Costs(D), Prefix(seq, 0))
        OBVIOUS
      <3>2. z = 0
        BY <2>2, <2>3, <3>1
      <3>3. start <= start + z
        BY <3>2
      <3>4. QED
        BY <3>1, <3>3
    <2>5. InOrder(<<>>, seq, [j \in 1 .. 0 |-> 0], 0)
      BY DEF InOrder
    <2>6. AccHolds(g[0], seq, D, budget, start, 0)
      BY <2>1, <2>4, <2>5 DEF AccHolds
    <2>7. QED
      BY <2>6 DEF Looked
  <1> DEFINE B == {i \in Nat : i <= n /\ ~Looked(g[i], seq, D, budget, limit, start, i)}
  <1>5. ASSUME B # {} PROVE FALSE
    <2>1. B \subseteq Nat
      OBVIOUS
    <2>2. PICK i \in B : \A k \in B : i <= k
      <3> HIDE DEF B
      <3> QED BY <1>5, <2>1, LeastNumber
    <2>3. i \in Nat /\ i <= n /\ ~Looked(g[i], seq, D, budget, limit, start, i)
      BY <2>2
    <2>4. i # 0
      BY <1>4, <2>3
    <2>5. PICK h \in Nat : i = h + 1
      <3>1. i - 1 \in Nat /\ i = (i - 1) + 1
        BY <2>3, <2>4
      <3>2. QED
        BY <3>1
    <2>6. h \notin B
      <3> HIDE DEF B
      <3> QED BY <2>2, <2>3, <2>5
    <2>7. Looked(g[h], seq, D, budget, limit, start, h)
      BY <2>3, <2>5, <2>6
    <2>8. g[i] = Context!Takes(g[h], seq[h + 1], budget, limit)
      BY <1>3, <2>3, <2>5
    <2>9. Looked(g[i], seq, D, budget, limit, start, h + 1)
      BY <2>3, <2>5, <2>7, <2>8, LookedFurther
    <2>10. QED
      BY <2>3, <2>5, <2>9
  <1>6. Looked(g[n], seq, D, budget, limit, start, n)
    BY <1>5
  <1>7. QED
    BY <1>1, <1>6

(* seq is S in the order R. *)
Sorted(seq, S, R) ==
    /\ seq \in Seq(S) /\ Len(seq) = Cardinality(S) /\ \A x \in S : Took(seq, x)
    /\ \A i \in 1 .. Len(seq) : Cardinality(Before(S, R, seq[i])) = i - 1

LEMMA Listed ==
    ASSUME NEW n \in Nat, NEW S, NEW s \in [1 .. n -> S]
    PROVE  s \in Seq(S) /\ Len(s) = n
  OBVIOUS

LEMMA SortedIs ==
    ASSUME NEW S, IsFiniteSet(S), NEW R, TotalOrder(S, R), NEW n \in Nat, n = Cardinality(S),
           NEW seq, seq = [i \in 1 .. n |-> seq[i]],
           \A i \in 1 .. n : seq[i] \in S /\ Cardinality(Before(S, R, seq[i])) = i - 1
    PROVE  Sorted(seq, S, R)
  <1>1. /\ \A x \in S : Cardinality(Before(S, R, x)) \in 0 .. (n - 1)
        /\ \A x, y \in S : Cardinality(Before(S, R, x)) = Cardinality(Before(S, R, y)) => x = y
    BY RanksFill
  <1>2. seq \in Seq(S) /\ Len(seq) = n
    <2>1. seq \in [1 .. n -> S]
      OBVIOUS
    <2>2. QED
      BY <2>1, Listed
  <1>3. ASSUME NEW x \in S PROVE Took(seq, x)
    <2>1. PICK r \in 0 .. (n - 1) : r = Cardinality(Before(S, R, x))
      BY <1>1
    <2>2. PICK i \in 1 .. n : i - 1 = r
      <3>1. r + 1 \in 1 .. n /\ (r + 1) - 1 = r
        OBVIOUS
      <3>2. QED
        BY <3>1
    <2>3. seq[i] = x
      BY <1>1, <2>1, <2>2
    <2>4. QED
      BY <1>2, <2>3 DEF Took
  <1>4. QED
    BY <1>2, <1>3 DEF Sorted

LEMMA SortedFacts ==
    ASSUME NEW S, IsFiniteSet(S), NEW R, TotalOrder(S, R), NEW seq, Sorted(seq, S, R)
    PROVE  /\ \A i, j \in 1 .. Len(seq) : seq[i] = seq[j] => i = j
           /\ \A i, j \in 1 .. Len(seq) : i < j => <<seq[i], seq[j]>> \in R
  <1>1. PICK n \in Nat : n = Len(seq)
    BY DEF Sorted
  <1>2. \A i \in 1 .. n : seq[i] \in S /\ Cardinality(Before(S, R, seq[i])) = i - 1
    BY <1>1 DEF Sorted
  <1>3. ASSUME NEW i \in 1 .. n, NEW j \in 1 .. n, seq[i] = seq[j] PROVE i = j
    <2>1. i - 1 = j - 1
      BY <1>2, <1>3
    <2>2. QED
      BY <2>1
  <1>4. ASSUME NEW i \in 1 .. n, NEW j \in 1 .. n, i < j PROVE <<seq[i], seq[j]>> \in R
    <2>1. seq[i] # seq[j]
      BY <1>3, <1>4
    <2>2. ASSUME <<seq[j], seq[i]>> \in R PROVE FALSE
      <3>1. Cardinality(Before(S, R, seq[j])) < Cardinality(Before(S, R, seq[i]))
        BY <1>2, <2>2, RankGrows
      <3>2. QED
        BY <1>2, <1>4, <3>1
    <2>3. QED
      BY <1>2, <2>1, <2>2 DEF TotalOrder
  <1>5. QED
    BY <1>1, <1>3, <1>4

(* The candidates for the context: an id names one of them. *)
AreSkills(C) ==
    /\ IsFiniteSet(C)
    /\ \A d \in C : d.id \in Nat /\ d.cost \in Nat /\ d.length \in Nat /\ d.relevance \in Int
    /\ \A d, e \in C : d.id = e.id => d = e

BetterIn(C) == {p \in C \X C : Context!Better(p[1], p[2])}

LEMMA BetterOrders ==
    ASSUME NEW C, AreSkills(C)
    PROVE  /\ TotalOrder(C, BetterIn(C))
           /\ \A d \in C : Before(C, BetterIn(C), d) = {x \in C : Context!Better(x, d)}
  <1>1. \A d \in C : Context!Score(d) \in Int /\ d.id \in Nat
    BY DEF AreSkills, Context!Score
  <1>2. \A x, d \in C : <<x, d>> \in BetterIn(C) <=> Context!Better(x, d)
    BY DEF BetterIn
  <1>3. \A d \in C : ~Context!Better(d, d)
    BY <1>1 DEF Context!Better
  <1>4. \A x, y, z \in C : Context!Better(x, y) /\ Context!Better(y, z) => Context!Better(x, z)
    BY <1>1 DEF Context!Better
  <1>5. \A x, y \in C : x = y \/ Context!Better(x, y) \/ Context!Better(y, x)
    BY <1>1 DEF Context!Better, AreSkills
  <1>6. TotalOrder(C, BetterIn(C))
    BY <1>2, <1>3, <1>4, <1>5 DEF TotalOrder
  <1>7. ASSUME NEW d \in C PROVE Before(C, BetterIn(C), d) = {x \in C : Context!Better(x, d)}
    BY <1>2 DEF Before
  <1>8. QED
    BY <1>6, <1>7

LEMMA RankedSorted ==
    ASSUME NEW C, AreSkills(C)
    PROVE  Sorted(Context!Ranked(C), C, BetterIn(C))
  <1>1. PICK R : R = BetterIn(C)
    OBVIOUS
  <1>2. TotalOrder(C, R) /\ \A d \in C : Before(C, R, d) = {x \in C : Context!Better(x, d)}
    BY <1>1, BetterOrders
  <1>3. IsFiniteSet(C)
    BY DEF AreSkills
  <1>4. PICK n \in Nat : n = Cardinality(C)
    BY <1>3, FS_CardinalityType
  <1>5. n = Context!Cardinality(C)
    BY <1>4, ContextCardinality
  <1> DEFINE place(d) == Context!Cardinality({x \in C : Context!Better(x, d)})
             seq == [i \in 1 .. n |-> CHOOSE d \in C : place(d) = i - 1]
  <1>6. \A d \in C : place(d) = Cardinality(Before(C, R, d))
    BY <1>2, ContextCardinality
  <1>7. \A k \in 0 .. (n - 1) : \E d \in C : Cardinality(Before(C, R, d)) = k
    BY <1>2, <1>3, <1>4, RanksFill
  <1>8. Context!Ranked(C) = seq
    BY <1>5 DEF Context!Ranked
  <1> HIDE DEF place
  <1>9. ASSUME NEW i \in 1 .. n PROVE seq[i] \in C /\ Cardinality(Before(C, R, seq[i])) = i - 1
    <2>1. i - 1 \in 0 .. (n - 1)
      BY <1>4
    <2>2. \E d \in C : place(d) = i - 1
      BY <1>6, <1>7, <2>1
    <2>3. seq[i] \in C /\ place(seq[i]) = i - 1
      BY <2>2
    <2> HIDE DEF seq
    <2>4. QED
      BY <1>6, <2>3
  <1>10. seq = [i \in 1 .. n |-> seq[i]]
    OBVIOUS
  <1> HIDE DEF seq
  <1>11. Sorted(seq, C, R)
    BY <1>2, <1>3, <1>4, <1>9, <1>10, SortedIs
  <1>12. QED
    BY <1>1, <1>8, <1>11

(* The cost of a set of blocks is a sum over it. *)
LEMMA CostsAreSums ==
    ASSUME NEW D, IsFiniteSet(D), \A d \in D : d.cost \in Nat, NEW S \in SUBSET D
    PROVE  Context!MapThenSumSet(LAMBDA b : b.cost, S) = Sum(Costs(D), S)
  <1>1. PICK f : f = Costs(D)
    OBVIOUS
  <1>2. \A d \in D : f[d] = d.cost /\ f[d] \in Int
    BY <1>1 DEF Costs
  <1>3. IsFiniteSet(S) /\ Numeric(f, S)
    BY <1>2, FS_Subset DEF Numeric
  <1>4. PICK g : IsSum(g, f, S) /\ Sum(f, S) = g[S]
    BY <1>3, SumUnfolds
  <1>5. \A s \in SUBSET S : s # {} => f[Chosen(s)] = Chosen(s).cost
    BY <1>2, ChosenIn
  <1>6. g = [s \in SUBSET S |-> IF s = {} THEN 0 ELSE Chosen(s).cost + g[s \ {Chosen(s)}]]
    BY <1>4, <1>5 DEF IsSum
  <1>7. PICK k : /\ k = [s \in SUBSET S |-> IF s = {} THEN 0 ELSE Chosen(s).cost + k[s \ {Chosen(s)}]]
                 /\ Context!MapThenSumSet(LAMBDA b : b.cost, S) = k[S]
    BY <1>6 DEF Context!MapThenSumSet, Context!MapThenFoldSet, Chosen
  <1>8. IsSum(k, f, S)
    BY <1>5, <1>7 DEF IsSum
  <1>9. k[S] = g[S]
    BY <1>3, <1>4, <1>8, SumUnique
  <1> QED BY <1>1, <1>4, <1>7, <1>9

LEMMA SortedCandidates ==
    ASSUME NEW C, IsFiniteSet(C), \A d \in C : d.cost \in Nat, NEW R, TotalOrder(C, R),
           NEW seq, Sorted(seq, C, R)
    PROVE  /\ Candidates(seq, C)
           /\ \A k \in 1 .. Len(seq) : Prefix(seq, k - 1) \subseteq Before(C, R, seq[k])
  <1>1. PICK n \in Nat : n = Len(seq)
    BY DEF Sorted
  <1>2. \A i, j \in 1 .. n : seq[i] = seq[j] => i = j
    BY <1>1, SortedFacts
  <1>3. \A i, j \in 1 .. n : i < j => <<seq[i], seq[j]>> \in R
    BY <1>1, SortedFacts
  <1>4. Candidates(seq, C)
    BY <1>1, <1>2 DEF Candidates, Sorted
  <1>5. ASSUME NEW k \in 1 .. n, NEW j \in 1 .. (k - 1) PROVE seq[j] \in Before(C, R, seq[k])
    <2>1. j \in 1 .. n /\ j < k
      OBVIOUS
    <2>2. seq[j] \in C
      BY <1>1, <2>1 DEF Sorted
    <2>3. QED
      BY <1>3, <2>1, <2>2 DEF Before
  <1>6. QED
    BY <1>1, <1>4, <1>5 DEF Prefix

(* The blocks of the candidates: what their texts take. *)
Blocks(C) == {Context!SkillBlock(x) : x \in C}
BlocksOf(chosen) == [i \in DOMAIN chosen |-> Context!SkillBlock(chosen[i])]
BetterOnes(C, d) == {x \in C : Context!Better(x, d)}

LEMMA BlocksAre ==
    ASSUME NEW C, AreSkills(C)
    PROVE  /\ IsFiniteSet(Blocks(C)) /\ \A b \in Blocks(C) : b.cost \in Nat
           /\ \A d \in C : /\ Context!SkillBlock(d) \in Blocks(C)
                           /\ Context!SkillBlock(d).cost = d.length /\ Context!SkillBlock(d).id = d.id
           /\ \A d, e \in C : Context!SkillBlock(d) = Context!SkillBlock(e) => d = e
  <1>1. \A d \in C : Context!SkillBlock(d).cost = d.length /\ Context!SkillBlock(d).id = d.id
    BY DEF Context!SkillBlock
  <1>2. PICK f : f = [d \in C |-> Context!SkillBlock(d)]
    OBVIOUS
  <1>3. f \in Surjection(C, Blocks(C))
    BY <1>2 DEF Surjection, Blocks
  <1>4. IsFiniteSet(Blocks(C))
    BY <1>3, FS_Surjection DEF AreSkills
  <1>5. \A b \in Blocks(C) : b.cost \in Nat
    BY <1>1 DEF Blocks, AreSkills
  <1>6. \A d, e \in C : Context!SkillBlock(d) = Context!SkillBlock(e) => d = e
    BY <1>1 DEF AreSkills
  <1>7. QED
    BY <1>1, <1>4, <1>5, <1>6 DEF Blocks

(* Left out by the limit, by the declared costs or by the texts' lengths.   *)
Excused(C, d) ==
    \/ Cardinality(BetterOnes(C, d)) >= SelectionLimit
    \/ d.cost + Sum(Costs(C), BetterOnes(C, d)) > ContextBudget
    \/ InstructionCost + d.length + Sum(Costs(Blocks(C)), Blocks(BetterOnes(C, d))) > ContextBudget

(* What did not fit behind some of Q does not fit behind all of Q. *)
LEMMA FitsNoMore ==
    ASSUME NEW D, IsFiniteSet(D), \A d \in D : d.cost \in Nat, NEW Q, Q \subseteq D,
           NEW P, P \subseteq Q, NEW start \in Nat, NEW c \in Nat, NEW y \in Nat,
           y <= start + Sum(Costs(D), P), y + c > ContextBudget
    PROVE  start + c + Sum(Costs(D), Q) > ContextBudget
  <1>1. PICK f : f = Costs(D)
    OBVIOUS
  <1>2. IsFiniteSet(Q) /\ \A x \in Q : f[x] \in Nat
    BY <1>1, FS_Subset DEF Costs
  <1>3. Sum(f, P) <= Sum(f, Q) /\ Sum(f, P) \in Nat
    BY <1>2, SumGrows
  <1>4. Sum(f, Q) \in Nat
    BY <1>2, SumGrows
  <1>5. PICK u \in Nat : u = Sum(Costs(D), P)
    BY <1>1, <1>3
  <1>6. PICK v \in Nat : v = Sum(Costs(D), Q)
    BY <1>1, <1>4
  <1>7. u <= v
    BY <1>1, <1>3, <1>5, <1>6
  <1>8. y <= start + u
    BY <1>5
  <1>9. start + c + v > ContextBudget
    BY <1>7, <1>8, SkillsAssumption
  <1>10. QED
    BY <1>6, <1>9

LEMMA BlocksInOrder ==
    ASSUME NEW C, AreSkills(C), NEW m \in Nat, NEW chosen,
           NEW blocks, blocks \in Seq(Blocks(C)), Len(blocks) = m,
           \A j \in 1 .. m : chosen[j] \in C /\ blocks[j] = Context!SkillBlock(chosen[j]),
           \A j, k \in 1 .. m : chosen[j] = chosen[k] => j = k
    PROVE  Candidates(blocks, Blocks(C))
  <1>1. \A d, e \in C : Context!SkillBlock(d) = Context!SkillBlock(e) => d = e
    BY BlocksAre
  <1>2. \A j, k \in 1 .. m : blocks[j] = blocks[k] => chosen[j] = chosen[k]
    BY <1>1
  <1>3. IsFiniteSet(Blocks(C)) /\ \A b \in Blocks(C) : b.cost \in Nat
    BY BlocksAre
  <1>4. QED
    BY <1>2, <1>3 DEF Candidates

(* The selection takes by rank, the enrichment by what is left: whoever is  *)
(* left out had no place, or no room behind the better ones.                *)
LEMMA SelectionIsFair ==
    ASSUME NEW C, AreSkills(C), InstructionCost <= ContextBudget,
           NEW chosen, chosen = Context!Greedy(Context!Ranked(C), ContextBudget, SelectionLimit, 0).taken,
           NEW blocks, blocks = BlocksOf(chosen),
           NEW kept, kept = Context!Greedy(blocks, ContextBudget, Len(blocks), InstructionCost)
    PROVE  /\ kept.taken \in Seq(Blocks(C)) /\ kept.spent <= ContextBudget
           /\ \A d \in C : Took(kept.taken, Context!SkillBlock(d)) \/ Excused(C, d)
  <1>1. PICK seq : seq = Context!Ranked(C)
    OBVIOUS
  <1>2. PICK R : R = BetterIn(C)
    OBVIOUS
  <1>3. Sorted(seq, C, R)
    BY <1>1, <1>2, RankedSorted
  <1>4. TotalOrder(C, R) /\ \A d \in C : Before(C, R, d) = {x \in C : Context!Better(x, d)}
    BY <1>2, BetterOrders
  <1>5. IsFiniteSet(C) /\ \A d \in C : d.cost \in Nat
    BY DEF AreSkills
  <1>6. Candidates(seq, C) /\ \A k \in 1 .. Len(seq) : Prefix(seq, k - 1) \subseteq Before(C, R, seq[k])
    BY <1>3, <1>4, <1>5, SortedCandidates
  <1>7. PICK n \in Nat : n = Len(seq)
    BY <1>6 DEF Candidates
  <1>8. PICK g : g = Context!Greedy(seq, ContextBudget, SelectionLimit, 0)
    OBVIOUS
  <1>9. Looked(g, seq, C, ContextBudget, SelectionLimit, 0, n)
    BY <1>6, <1>7, <1>8, SkillsAssumption, GreedyResult
  <1>10. chosen = g.taken /\ chosen \in Seq(C)
    BY <1>1, <1>8, <1>9 DEF Looked, AccHolds
  <1>11. PICK m \in Nat : m = Len(chosen)
    BY <1>10
  <1>12. PICK ix : InOrder(chosen, seq, ix, n)
    BY <1>9, <1>10 DEF Looked, AccHolds
  <1>13. \A j \in 1 .. m : ix[j] \in 1 .. n /\ chosen[j] = seq[ix[j]]
    BY <1>11, <1>12 DEF InOrder
  <1>14. \A j, k \in 1 .. m : j < k => ix[j] < ix[k]
    BY <1>11, <1>12 DEF InOrder
  <1>15. \A j, k \in 1 .. m : j < k => <<chosen[j], chosen[k]>> \in R
    <2>1. \A i, j \in 1 .. n : i < j => <<seq[i], seq[j]>> \in R
      BY <1>3, <1>4, <1>5, <1>7, SortedFacts
    <2>2. QED
      BY <1>13, <1>14, <2>1
  <1>16. \A j, k \in 1 .. m : chosen[j] = chosen[k] => j = k
    <2>1. ASSUME NEW j \in 1 .. m, NEW k \in 1 .. m, chosen[j] = chosen[k], j < k PROVE FALSE
      <3>1. <<chosen[j], chosen[k]>> \in R /\ chosen[j] \in C
        BY <1>10, <1>11, <1>15, <2>1
      <3>2. QED
        BY <1>4, <2>1, <3>1 DEF TotalOrder
    <2>2. \A j, k \in 1 .. m : j = k \/ j < k \/ k < j
      OBVIOUS
    <2>3. QED
      BY <2>1, <2>2
  <1>17. PICK B : B = Blocks(C)
    OBVIOUS
  <1>18. /\ IsFiniteSet(B) /\ \A b \in B : b.cost \in Nat
         /\ \A d \in C : Context!SkillBlock(d) \in B /\ Context!SkillBlock(d).cost = d.length
         /\ \A d, e \in C : Context!SkillBlock(d) = Context!SkillBlock(e) => d = e
    BY <1>17, BlocksAre
  <1>19. /\ blocks \in Seq(B) /\ Len(blocks) = m
         /\ \A j \in 1 .. m : chosen[j] \in C /\ blocks[j] = Context!SkillBlock(chosen[j])
    <2>1. DOMAIN chosen = 1 .. m /\ \A j \in 1 .. m : chosen[j] \in C
      BY <1>10, <1>11
    <2>2. blocks = [j \in 1 .. m |-> Context!SkillBlock(chosen[j])]
      BY <2>1 DEF BlocksOf
    <2>3. blocks \in [1 .. m -> B]
      BY <1>18, <2>1, <2>2
    <2>4. blocks \in Seq(B) /\ Len(blocks) = m
      BY <2>3, Listed
    <2>5. QED
      BY <2>1, <2>2, <2>4
  <1>20. Candidates(blocks, B)
    BY <1>16, <1>17, <1>19, BlocksInOrder
  <1>21. Looked(kept, blocks, B, ContextBudget, m, InstructionCost, m)
    BY <1>19, <1>20, SkillsAssumption, GreedyResult
  <1>22. kept.taken \in Seq(B) /\ kept.spent <= ContextBudget
    BY <1>21 DEF Looked, AccHolds
  <1>23. ASSUME NEW d \in C, ~Took(chosen, d) PROVE Excused(C, d)
    <2>1. PICK k \in 1 .. n : seq[k] = d
      BY <1>3, <1>7 DEF Sorted, Took
    <2>2. Short(g.spent, seq, C, ContextBudget, SelectionLimit, 0, k)
      BY <1>9, <1>10, <1>23, <2>1 DEF Looked
    <2>3. PICK a \in Nat, y \in Nat :
              /\ a <= k - 1 /\ y <= 0 + Sum(Costs(C), Prefix(seq, k - 1))
              /\ a >= SelectionLimit \/ y + seq[k].cost > ContextBudget
      BY <2>2 DEF Short
    <2>4. PICK P : P = Prefix(seq, k - 1)
      OBVIOUS
    <2>5. P \subseteq BetterOnes(C, d) /\ BetterOnes(C, d) \subseteq C
      BY <1>4, <1>6, <1>7, <2>1, <2>4 DEF BetterOnes
    <2>6. Cardinality(BetterOnes(C, d)) = k - 1
      BY <1>3, <1>4, <1>7, <2>1 DEF Sorted, BetterOnes
    <2>7. CASE a >= SelectionLimit
      <3>1. k - 1 >= SelectionLimit
        BY <2>3, <2>7, SkillsAssumption
      <3>2. QED
        BY <2>6, <3>1 DEF Excused
    <2>8. CASE y + d.cost > ContextBudget
      <3>1. PICK c \in Nat : c = d.cost
        BY <1>5
      <3>2. y <= 0 + Sum(Costs(C), P) /\ y + c > ContextBudget
        BY <2>3, <2>4, <2>8, <3>1
      <3>3. PICK Q : Q = BetterOnes(C, d)
        OBVIOUS
      <3>4. 0 + c + Sum(Costs(C), Q) > ContextBudget
        BY <1>5, <2>5, <3>2, <3>3, FitsNoMore
      <3>5. 0 + c = c
        OBVIOUS
      <3>6. c + Sum(Costs(C), Q) > ContextBudget
        BY <3>4, <3>5
      <3>7. QED
        BY <3>1, <3>3, <3>6 DEF Excused
    <2>9. QED
      BY <2>1, <2>3, <2>7, <2>8
  <1>24. ASSUME NEW d \in C, Took(chosen, d), ~Took(kept.taken, Context!SkillBlock(d)) PROVE Excused(C, d)
    <2>1. PICK k \in 1 .. m : chosen[k] = d
      BY <1>11, <1>24 DEF Took
    <2>2. blocks[k] = Context!SkillBlock(d) /\ blocks[k].cost = d.length
      BY <1>18, <1>19, <2>1
    <2>3. Short(kept.spent, blocks, B, ContextBudget, m, InstructionCost, k)
      BY <1>21, <1>24, <2>2 DEF Looked
    <2>4. PICK a \in Nat, y \in Nat :
              /\ a <= k - 1 /\ y <= InstructionCost + Sum(Costs(B), Prefix(blocks, k - 1))
              /\ a >= m \/ y + blocks[k].cost > ContextBudget
      BY <2>3 DEF Short
    <2>5. PICK P : P = Prefix(blocks, k - 1)
      OBVIOUS
    <2>6. PICK Q : Q = Blocks(BetterOnes(C, d))
      OBVIOUS
    <2>7. P \subseteq Q /\ Q \subseteq B
      <3>1. ASSUME NEW j \in 1 .. (k - 1) PROVE blocks[j] \in Q
        <4>1. j \in 1 .. m /\ j < k
          BY <1>11
        <4>2. chosen[j] \in C /\ blocks[j] = Context!SkillBlock(chosen[j])
          BY <1>19, <4>1
        <4>3. chosen[j] \in Before(C, R, d)
          BY <1>15, <2>1, <4>1, <4>2 DEF Before
        <4>4. chosen[j] \in BetterOnes(C, d)
          BY <1>4, <4>3 DEF BetterOnes
        <4>5. QED
          BY <2>6, <4>2, <4>4 DEF Blocks
      <3>2. Q \subseteq B
        BY <1>17, <2>6 DEF Blocks, BetterOnes
      <3>3. QED
        BY <2>5, <3>1, <3>2 DEF Prefix
    <2>8. PICK c \in Nat : c = d.length
      BY DEF AreSkills
    <2>9. y + c > ContextBudget
      <3>1. ~(a >= m)
        BY <1>11, <2>4
      <3>2. QED
        BY <2>2, <2>4, <2>8, <3>1
    <2>10. y <= InstructionCost + Sum(Costs(B), P)
      BY <2>4, <2>5
    <2>11. InstructionCost + c + Sum(Costs(B), Q) > ContextBudget
      BY <1>18, <2>7, <2>9, <2>10, SkillsAssumption, FitsNoMore
    <2>12. QED
      BY <1>17, <2>6, <2>8, <2>11 DEF Excused
  <1>25. QED
    BY <1>17, <1>22, <1>23, <1>24

(* The skills a preparation may select. *)
Visible(dis) == {d \in offered : ~Context!Hidden(d, dis) /\ Context!Relevant(d)}

FairPrep(p) ==
    /\ p.bytes <= ContextBudget
    /\ \A d \in Visible(p.disabled) :
           d.id \in Context!ToSet(p.skills) \/ Excused(Visible(p.disabled), d)

PrepHolds(p) ==
    /\ "stage" \in DOMAIN p
    /\ p.stage = "discovered" => p.chosen = Context!SelectCapabilities(p.disabled)
    /\ p.stage = "enriched" => FairPrep(p)

ChoiceInv ==
    /\ offered \in SkillSets
    /\ prep = [a \in Attempts |-> prep[a]] /\ \A a \in Attempts : PrepHolds(prep[a])

LEMMA ChoiceStart == ASSUME Context!ContextInit PROVE ChoiceInv
  <1>1. offered \in SkillSets /\ prep = [a \in Attempts |-> Context!NoPrep]
    BY DEF Context!ContextInit
  <1>2. PrepHolds(Context!NoPrep)
    BY DEF PrepHolds, Context!NoPrep
  <1>3. QED
    BY <1>1, <1>2 DEF ChoiceInv

LEMMA ChoiceRests == ASSUME ChoiceInv, UNCHANGED <<offered, prep>> PROVE ChoiceInv'
  BY DEF ChoiceInv, PrepHolds, FairPrep, Visible, Context!SelectCapabilities

LEMMA ContextPartRests == ASSUME ChoiceInv, UNCHANGED contextPart PROVE ChoiceInv'
  BY ChoiceRests DEF contextPart

LEMMA ChoicePrep ==
    ASSUME ChoiceInv, UNCHANGED offered, NEW a \in Attempts, NEW r,
           prep' = [prep EXCEPT ![a] = r], PrepHolds(r)
    PROVE  ChoiceInv'
  <1>1. prep' = [b \in Attempts |-> prep'[b]] /\ prep'[a] = r /\ \A b \in Attempts \ {a} : prep'[b] = prep[b]
    BY DEF ChoiceInv
  <1>2. \A b \in Attempts : PrepHolds(prep'[b])
    BY <1>1 DEF ChoiceInv
  <1>3. \A b \in Attempts : PrepHolds(prep[b])'
    BY <1>2 DEF PrepHolds, FairPrep, Visible, Context!SelectCapabilities
  <1>4. QED
    BY <1>1, <1>3 DEF ChoiceInv

LEMMA VisibleAreSkills ==
    ASSUME ChoiceInv, NEW dis PROVE AreSkills(Visible(dis))
  <1>1. PICK C : C = Visible(dis)
    OBVIOUS
  <1>2. C \subseteq offered
    BY <1>1 DEF Visible
  <1>3. /\ IsFiniteSet(offered)
        /\ \A d \in offered : /\ d.id \in Nat /\ d.cost \in Nat /\ d.length \in Nat
                               /\ d.relevance \in Int
        /\ \A d, e \in offered : d.id = e.id => d = e
    BY SkillsAssumption DEF ChoiceInv
  <1>4. IsFiniteSet(C)
    BY <1>2, <1>3, FS_Subset
  <1>5. QED
    BY <1>1, <1>2, <1>3, <1>4 DEF AreSkills

LEMMA EnrichStep ==
    ASSUME ChoiceInv, NEW a \in Attempts, Context!Enrich(a)
    PROVE  ChoiceInv'
  <1>1. PICK dis : dis = prep[a].disabled
    OBVIOUS
  <1>2. PICK C : C = Visible(dis)
    OBVIOUS
  <1>3. PICK chosen : chosen = Context!Greedy(Context!Ranked(C), ContextBudget, SelectionLimit, 0).taken
    OBVIOUS
  <1>4. PICK blocks : blocks = BlocksOf(chosen)
    OBVIOUS
  <1>0. PICK kept : kept = Context!Greedy(blocks, ContextBudget, Len(blocks), InstructionCost)
    OBVIOUS
  <1>5. prep[a].chosen = chosen
    <2>1. prep[a].stage = "discovered"
      BY DEF Context!Enrich
    <2>2. prep[a].chosen = Context!SelectCapabilities(prep[a].disabled)
      BY <2>1 DEF ChoiceInv, PrepHolds
    <2>3. QED
      BY <1>1, <1>2, <1>3, <2>2 DEF Context!SelectCapabilities, Visible
  <1>6. PICK skills : skills = [i \in DOMAIN kept.taken |-> kept.taken[i].id]
    OBVIOUS
  <1>7. PICK r : r = IF InstructionCost > ContextBudget THEN [stage |-> "refused"]
                     ELSE [stage |-> "enriched", disabled |-> dis, skills |-> skills, bytes |-> kept.spent]
    OBVIOUS
  <1>8. prep' = [prep EXCEPT ![a] = r] /\ UNCHANGED offered
    BY <1>0, <1>1, <1>4, <1>5, <1>6, <1>7 DEF Context!Enrich, BlocksOf
  <1>9. PrepHolds(r)
    <2>1. CASE InstructionCost > ContextBudget
      <3>1. r = [stage |-> "refused"]
        BY <1>7, <2>1
      <3>2. QED
        BY <3>1 DEF PrepHolds
    <2>2. CASE ~(InstructionCost > ContextBudget)
      <3>1. r = [stage |-> "enriched", disabled |-> dis, skills |-> skills, bytes |-> kept.spent]
        BY <1>7, <2>2
      <3>2. r.stage = "enriched" /\ r.disabled = dis /\ r.skills = skills /\ r.bytes = kept.spent
            /\ "stage" \in DOMAIN r
        BY <3>1
      <3>3. InstructionCost <= ContextBudget
        BY <2>2, SkillsAssumption
      <3>4. AreSkills(C)
        BY <1>2, VisibleAreSkills
      <3>5. /\ kept.taken \in Seq(Blocks(C)) /\ kept.spent <= ContextBudget
            /\ \A d \in C : Took(kept.taken, Context!SkillBlock(d)) \/ Excused(C, d)
        BY <1>0, <1>3, <1>4, <3>3, <3>4, SelectionIsFair
      <3>6. ASSUME NEW d \in C, Took(kept.taken, Context!SkillBlock(d))
            PROVE  d.id \in Context!ToSet(skills)
        <4>0. Context!SkillBlock(d).id = d.id
          BY <3>4, BlocksAre
        <4>1. PICK t : t = kept.taken
          OBVIOUS
        <4>2. PICK j \in 1 .. Len(t) : t[j] = Context!SkillBlock(d)
          BY <3>6, <4>1 DEF Took
        <4>3. j \in DOMAIN t
          BY <3>5, <4>1, <4>2
        <4>4. j \in DOMAIN skills /\ skills[j] = d.id
          BY <1>6, <4>0, <4>1, <4>2, <4>3
        <4>5. QED
          BY <4>4 DEF Context!ToSet
      <3>7. FairPrep(r)
        BY <1>2, <3>2, <3>5, <3>6 DEF FairPrep
      <3>8. QED
        BY <3>2, <3>7 DEF PrepHolds
    <2>3. QED
      BY <2>1, <2>2
  <1>10. QED
    BY <1>8, <1>9, ChoicePrep

LEMMA SelectionStep ==
    ASSUME ChoiceInv, NEW a \in Attempts, Context!Discover(a) \/ Context!EnrichFails(a)
    PROVE  ChoiceInv'
  <1>1. CASE Context!Discover(a)
    <2>1. PICK dis : dis = prep[a].disabled
      OBVIOUS
    <2>2. PICK r : r = [stage |-> "discovered", disabled |-> dis,
                        chosen |-> Context!SelectCapabilities(dis)]
      OBVIOUS
    <2>3. prep' = [prep EXCEPT ![a] = r] /\ UNCHANGED offered
      BY <1>1, <2>1, <2>2 DEF Context!Discover
    <2>4. /\ r.stage = "discovered" /\ r.disabled = dis /\ "stage" \in DOMAIN r
          /\ r.chosen = Context!SelectCapabilities(dis)
      BY <2>2
    <2>5. PrepHolds(r)
      BY <2>4 DEF PrepHolds
    <2>6. QED
      BY <2>3, <2>5, ChoicePrep
  <1>2. CASE Context!EnrichFails(a)
    <2>1. PICK r : r = [stage |-> "refused"]
      OBVIOUS
    <2>2. prep' = [prep EXCEPT ![a] = r] /\ UNCHANGED offered
      BY <1>2, <2>1 DEF Context!EnrichFails
    <2>3. PrepHolds(r)
      BY <2>1 DEF PrepHolds
    <2>4. QED
      BY <2>2, <2>3, ChoicePrep
  <1>3. QED
    BY <1>1, <1>2

LEMMA OtherPrepSteps ==
    ASSUME ChoiceInv, NEW a \in Attempts,
           \/ Context!ReadScopePolicy(a) \/ Context!AssembleMessages(a) \/ Context!CompactContext(a)
           \/ Context!RecordSnapshot(a)
    PROVE  ChoiceInv'
  <1>1. "stage" \in DOMAIN prep[a] /\ a \in DOMAIN prep
    BY DEF ChoiceInv, PrepHolds
  <1>2. ASSUME NEW r, "stage" \in DOMAIN r, r.stage \notin {"discovered", "enriched"}
        PROVE  PrepHolds(r)
    BY <1>2 DEF PrepHolds
  <1>3. CASE Context!ReadScopePolicy(a)
    <2>1. PICK r : r = [stage |-> "scoped", disabled |-> disabledIds]
      OBVIOUS
    <2>2. prep' = [prep EXCEPT ![a] = r] /\ UNCHANGED offered
      BY <1>3, <2>1 DEF Context!ReadScopePolicy
    <2>3. QED
      BY <1>2, <2>1, <2>2, ChoicePrep
  <1>4. CASE Context!AssembleMessages(a)
    <2>1. PICK r : r = IF asked \notin Context!ToSet(Context!Window) THEN [stage |-> "refused"]
                       ELSE [stage |-> "assembled", skills |-> prep[a].skills, bytes |-> prep[a].bytes,
                             selected |-> Context!Window, summarized |-> <<>>]
      OBVIOUS
    <2>2. prep' = [prep EXCEPT ![a] = r] /\ UNCHANGED offered
      BY <1>4, <2>1 DEF Context!AssembleMessages
    <2>3. "stage" \in DOMAIN r /\ r.stage \notin {"discovered", "enriched"}
      BY <2>1
    <2>4. QED
      BY <1>2, <2>2, <2>3, ChoicePrep
  <1>5. CASE Context!CompactContext(a)
    <2>1. \E x, y : prep' = [prep EXCEPT ![a].stage = "compacted", ![a].selected = x, ![a].summarized = y]
      BY <1>5 DEF Context!CompactContext
    <2>2. PICK x, y : prep' = [prep EXCEPT ![a].stage = "compacted", ![a].selected = x, ![a].summarized = y]
      BY <2>1
    <2>3. PICK r1 : r1 = [prep[a] EXCEPT !.stage = "compacted"]
      OBVIOUS
    <2>4. PICK r2 : r2 = [r1 EXCEPT !.selected = x]
      OBVIOUS
    <2>5. PICK r : r = [r2 EXCEPT !.summarized = y]
      OBVIOUS
    <2>6. "stage" \in DOMAIN r /\ r.stage = "compacted"
      BY <1>1, <2>3, <2>4, <2>5
    <2>7. prep' = [prep EXCEPT ![a] = r]
      BY <1>1, <2>2, <2>3, <2>4, <2>5
    <2>8. UNCHANGED offered
      BY <1>5 DEF Context!CompactContext
    <2>9. QED
      BY <1>2, <2>6, <2>7, <2>8, ChoicePrep
  <1>6. CASE Context!RecordSnapshot(a)
    <2>1. PICK x : x = IF Context!Manifest(prep[a]) \in recorded' THEN "ready" ELSE "conflict"
      OBVIOUS
    <2>2. prep' = [prep EXCEPT ![a].stage = x] /\ UNCHANGED offered
      BY <1>6, <2>1 DEF Context!RecordSnapshot
    <2>3. PICK r : r = [prep[a] EXCEPT !.stage = x]
      OBVIOUS
    <2>4. "stage" \in DOMAIN r /\ r.stage = x /\ x \notin {"discovered", "enriched"}
      BY <1>1, <2>1, <2>3
    <2>5. prep' = [prep EXCEPT ![a] = r]
      BY <2>2, <2>3
    <2>6. QED
      BY <1>2, <2>2, <2>4, <2>5, ChoicePrep
  <1>7. QED
    BY <1>3, <1>4, <1>5, <1>6

LEMMA ChoiceNextStep == ASSUME ChoiceInv, Context!ContextNext PROVE ChoiceInv'
  <1>1. ASSUME NEW a \in Attempts,
               \/ Context!ReadScopePolicy(a) \/ Context!Discover(a) \/ Context!Enrich(a)
               \/ Context!EnrichFails(a) \/ Context!AssembleMessages(a)
               \/ Context!CompactContext(a) \/ Context!RecordSnapshot(a)
        PROVE  ChoiceInv'
    BY <1>1, SelectionStep, EnrichStep, OtherPrepSteps
  <1>2. ASSUME NEW id, NEW on, Context!SetPreference(id, on) PROVE ChoiceInv'
    BY <1>2, ChoiceRests DEF Context!SetPreference
  <1>3. CASE Context!MessageArrives
    BY <1>3, ChoiceRests DEF Context!MessageArrives
  <1>4. QED
    BY <1>1, <1>2, <1>3 DEF Context!ContextNext

LEMMA ChoicePromise == ASSUME ChoiceInv PROVE Context!BudgetsAreUsedFairly
  <1>1. ASSUME NEW a \in Attempts, prep[a].stage = "enriched"
        PROVE  prep[a].bytes <= ContextBudget
    BY <1>1 DEF ChoiceInv, PrepHolds, FairPrep
  <1>2. ASSUME NEW a \in Attempts, prep[a].stage = "enriched", NEW d \in offered,
               NEW better, better = {x \in offered : /\ ~Context!Hidden(x, prep[a].disabled)
                                                     /\ Context!Relevant(x) /\ Context!Better(x, d)},
               ~Context!Hidden(d, prep[a].disabled), Context!Relevant(d),
               d.id \notin Context!ToSet(prep[a].skills)
        PROVE  \/ Context!Cardinality(better) >= SelectionLimit
               \/ d.cost + Context!MapThenSumSet(LAMBDA x : x.cost, better) > ContextBudget
               \/ InstructionCost + d.length
                      + Context!MapThenSumSet(LAMBDA x : x.cost, {Context!SkillBlock(x) : x \in better})
                      > ContextBudget
    <2>1. PICK C : C = Visible(prep[a].disabled)
      OBVIOUS
    <2>2. d \in C /\ better = BetterOnes(C, d) /\ better \in SUBSET C
      BY <1>2, <2>1 DEF Visible, BetterOnes
    <2>3. Excused(C, d)
      BY <1>2, <2>1, <2>2 DEF ChoiceInv, PrepHolds, FairPrep
    <2>4. AreSkills(C)
      BY <2>1, VisibleAreSkills
    <2>5. Context!MapThenSumSet(LAMBDA x : x.cost, better) = Sum(Costs(C), better)
      <3>1. IsFiniteSet(C) /\ \A x \in C : x.cost \in Nat
        BY <2>4 DEF AreSkills
      <3>2. QED
        BY <2>2, <3>1, CostsAreSums
    <2>6. PICK Q : Q = {Context!SkillBlock(x) : x \in better}
      OBVIOUS
    <2>7. Q \in SUBSET Blocks(C) /\ Q = Blocks(BetterOnes(C, d))
      BY <2>2, <2>6 DEF Blocks
    <2>8. Context!MapThenSumSet(LAMBDA x : x.cost, Q) = Sum(Costs(Blocks(C)), Q)
      <3>1. PICK B : B = Blocks(C)
        OBVIOUS
      <3>2. IsFiniteSet(B) /\ \A b \in B : b.cost \in Nat
        BY <2>4, <3>1, BlocksAre
      <3>3. Context!MapThenSumSet(LAMBDA x : x.cost, Q) = Sum(Costs(B), Q)
        BY <2>7, <3>1, <3>2, CostsAreSums
      <3>4. QED
        BY <3>1, <3>3
    <2>9. \/ Context!Cardinality(better) >= SelectionLimit
          \/ d.cost + Sum(Costs(C), better) > ContextBudget
          \/ InstructionCost + d.length + Sum(Costs(Blocks(C)), Q) > ContextBudget
      BY <2>2, <2>3, <2>7, ContextCardinality DEF Excused
    <2>10. QED
      BY <2>5, <2>6, <2>8, <2>9
  <1>3. QED
    BY <1>1, <1>2 DEF Context!BudgetsAreUsedFairly

-----------------------------------------------------------------------------
(* The limits together. *)

LimitsInv == SharedInv /\ LocalInv /\ DocumentInv /\ ClientInv /\ MemoryInv /\ ChoiceInv

LEMMA LimitedPartActs ==
    ASSUME Next
    PROVE  \/ Mcp!ClientNext /\ Rest("client")
           \/ Context!ContextNext /\ Rest("context")
           \/ Document!DocumentNext /\ Rest("documents")
           \/ Memory!MemoryNext /\ Rest("memory")
           \/ (Access!AccountsNext \/ Access!LocalNext \/ Access!SharedNext) /\ Rest("access")
           \/ \E part \in {"ledger", "chat", "mcp", "skills", "instructions", "proposals",
                           "evaluations", "exports", "queries", "conversations", "sessions"} : Rest(part)
  <1>1. CASE ClientStep \/ ContextStep \/ DocumentsStep \/ MemoryStep
    BY <1>1 DEF ClientStep, ContextStep, DocumentsStep, MemoryStep
  <1>2. CASE AccountsStep \/ LocalStep \/ SharedStep
    BY <1>2 DEF AccountsStep, LocalStep, SharedStep
  <1>3. CASE LedgerStep \/ ChatStep \/ McpStep \/ SkillsStep \/ InstructionsStep \/ ProposalsStep
    BY <1>3 DEF LedgerStep, ChatStep, McpStep, SkillsStep, InstructionsStep, ProposalsStep
  <1>4. CASE EvaluationsStep \/ ExportsStep \/ QueriesStep \/ ConversationsStep \/ SessionsStep
    BY <1>4 DEF EvaluationsStep, ExportsStep, QueriesStep, ConversationsStep, SessionsStep
  <1>5. QED
    BY <1>1, <1>2, <1>3, <1>4 DEF Next

LEMMA LimitedRest ==
    ASSUME NEW part, Rest(part)
    PROVE  /\ part # "client" => UNCHANGED clientPart
           /\ part # "context" => UNCHANGED contextPart
           /\ part # "documents" => UNCHANGED documentsPart
           /\ part # "memory" => UNCHANGED memoryPart
           /\ part # "access" => UNCHANGED accessPart
  BY DEF Rest

LEMMA LocalPartRests == ASSUME LocalInv, UNCHANGED accessPart PROVE LocalInv'
  BY LocalRests DEF accessPart

LEMMA LimitsNextStep == ASSUME LimitsInv, Next PROVE LimitsInv'
  <1>1. SharedInv'
    BY LimitedPartActs, LimitedRest, SharedPartRests, SharedOthers, SharedRests, SharedNextStep
       DEF LimitsInv
  <1>2. LocalInv'
    BY LimitedPartActs, LimitedRest, LocalPartRests, LocalNextStep DEF LimitsInv
  <1>3. DocumentInv'
    BY LimitedPartActs, LimitedRest, DocumentsRest, DocumentNextStep DEF LimitsInv
  <1>4. ClientInv'
    BY LimitedPartActs, LimitedRest, ClientRests, ClientNextStep DEF LimitsInv
  <1>5. MemoryInv'
    BY LimitedPartActs, LimitedRest, MemoryRests, MemoryNextStep DEF LimitsInv
  <1>6. ChoiceInv'
    BY LimitedPartActs, LimitedRest, ContextPartRests, ChoiceNextStep DEF LimitsInv
  <1>7. QED
    BY <1>1, <1>2, <1>3, <1>4, <1>5, <1>6 DEF LimitsInv

LEMMA LimitsRest == ASSUME LimitsInv, UNCHANGED vars PROVE LimitsInv'
  <1>1. /\ UNCHANGED clientPart /\ UNCHANGED contextPart /\ UNCHANGED documentsPart
        /\ UNCHANGED memoryPart /\ UNCHANGED accessPart
    BY DEF vars
  <1>2. QED
    BY <1>1, SharedPartRests, LocalPartRests, DocumentsRest, ClientRests, MemoryRests,
       ContextPartRests DEF LimitsInv

(* Whichever part acts, every admission of the local limiter still counted  *)
(* has an entry stamped with its time and the shared bucket is within the   *)
(* limit; no scope holds more documents than its quota and a process has    *)
(* one upload at most waiting for its model; the pages of an MCP listing    *)
(* were asked for by cursors of their own and each wait doubled the         *)
(* one before; a scope's counter is the sum of its facts' characters and no *)
(* fact is older than its scope's rotation; a skill that was passed over    *)
(* had no room beside the better ones (rate_limiter.py, documents.py,       *)
(* mcp/client.py, memory/scoped.py, capabilities/selector.py).              *)
THEOREM LimitsInvariant == Spec => []LimitsInv
  <1>1. Init => LimitsInv
    BY SharedStart, LocalStart, DocumentStart, ClientStart, MemoryStart, ChoiceStart
       DEF Init, LimitsInv
  <1>2. LimitsInv /\ [Next]_vars => LimitsInv'
    BY LimitsNextStep, LimitsRest
  <1>3. QED
    BY <1>1, <1>2, PTL DEF Spec

(* Limits hold over all who share them: no window of the rate limiter       *)
(* admits more than the limit and a refused caller who waits as told finds  *)
(* room, no scope stores more documents or characters than its quota, a     *)
(* listing and its reconnects are bounded, a context stays within its       *)
(* budget and omits only what does not fit; a search answers from its own   *)
(* scope, and no retired key encrypts a fact (rate_limiter.py,              *)
(* documents.py, sql_json_vector_store.py, memory/scoped.py, mcp/client.py, *)
(* capabilities/selector.py).                                               *)
THEOREM Limits == Spec => []LimitsAndScopesHold
  <1>1. LimitsInv => LimitsAndScopesHold
    BY SharedPromise, LocalPromise, DocumentPromise, ClientPromise, MemoryPromise, ChoicePromise
       DEF LimitsInv, LimitsAndScopesHold
  <1>2. QED
    BY <1>1, LimitsInvariant, PTL
=============================================================================
