----------------------------- MODULE DocumentIndex -----------------------------
(***************************************************************************)
(* Documents and their chunks (services/documents.py, chunker.py,          *)
(* sql_json_vector_store.py, routes/documents.py).  An upload checks the   *)
(* quota, chunks and embeds outside any transaction, then stores document  *)
(* and chunks in one transaction that checks the quota again.  Uploads of  *)
(* one process and scope are serialised by an asyncio lock, those of       *)
(* several processes by an advisory lock of the database.  A text is a     *)
(* sequence of words and separators; an embedding is the text it is of.    *)
(***************************************************************************)
EXTENDS Integers, Sequences, FiniteSets, SequencesExt

CONSTANTS
    Uploads,        \* requests of POST /upload
    Scopes,         \* (owner, project) pairs
    Texts,          \* contents a request may carry
    Separators,     \* SEPARATORS without the empty one, in order of preference
    ChunkSize, ChunkOverlap, MaxCharacters, MaxDocuments, MaxChunks,
    TopK            \* top_k of a query

VARIABLES
    docRows,        \* [Uploads -> the document the upload stored, or NoDocument]
    upload,         \* [Uploads -> where it stands, its scope, text, process and chunks]
    scopeLock,      \* _scope_locks: (process, scope) pairs held
    localModel,     \* the embedding model of each process; "loading" while its lock is held
    docQuery        \* POST /query: where it stands, and what it has read

documentVars == <<docRows, upload, scopeLock, localModel, docQuery>>

(* A request as it reaches a process. *)
Requested(process) ==
    [pc |-> "new", scope |-> "none", text |-> <<>>, process |-> process,
     chunks |-> <<>>, vectors |-> <<>>]

NoDocument == [scope |-> "none", text |-> <<>>, chunks |-> <<>>]
IdleQuery == [pc |-> "idle", scope |-> "none", wanted |-> "none", owned |-> {}, found |-> <<>>]

IsSeparator(w) == w \in ToSet(Separators)

(* text.split(separator) *)
Parts(text, sep) ==
    LET cut(acc, w) == IF w = sep THEN Append(acc, <<>>)
                       ELSE [acc EXCEPT ![Len(acc)] = Append(@, w)]
    IN FoldLeft(cut, <<<<>>>>, text)

(* The forced split at chunk_size. *)
Slices(text) ==
    [i \in 1..((Len(text) + ChunkSize - 1) \div ChunkSize) |->
        SubSeq(text, (i - 1) * ChunkSize + 1,
               IF i * ChunkSize < Len(text) THEN i * ChunkSize ELSE Len(text))]

(* The loop of _split_text(): the parts grow a chunk until it is full; one  *)
(* that is too long by itself is replaced by its split, inner[part].        *)
Grow(text, sep, inner) ==
    LET add(acc, part) ==
            LET candidate == IF acc.current # <<>> THEN acc.current \o <<sep>> \o part ELSE part
                flushed == IF acc.current # <<>> THEN Append(acc.result, acc.current) ELSE acc.result
            IN IF Len(candidate) <= ChunkSize THEN [acc EXCEPT !.current = candidate]
               ELSE IF Len(part) > ChunkSize
                    THEN [result |-> flushed \o inner[part], current |-> <<>>]
                    ELSE [result |-> flushed, current |-> part]
        end == FoldLeft(add, [result |-> <<>>, current |-> <<>>], Parts(text, sep))
    IN IF end.current # <<>> THEN Append(end.result, end.current) ELSE end.result

(* _split_text(): the first separator that occurs, else a forced split. *)
SplitText(text, level) ==
    LET split[k \in 1..(Len(Separators) + 1), t \in SubSeqs(text)] ==
            LET usable == {j \in k..Len(Separators) : Separators[j] \in ToSet(t)}
                best == CHOOSE j \in usable : \A i \in usable : j <= i
                sep == Separators[best]
            IN IF Len(t) <= ChunkSize THEN <<t>>
               ELSE IF usable = {} THEN Slices(t)
                    ELSE Grow(t, sep, [p \in ToSet(Parts(t, sep)) |-> split[best + 1, p]])
    IN split[level, text]

(* strip() *)
Strip(text) ==
    LET words == {i \in DOMAIN text : ~IsSeparator(text[i])}
        first == CHOOSE i \in words : \A j \in words : i <= j
        last == CHOOSE i \in words : \A j \in words : j <= i
    IN IF words = {} THEN <<>> ELSE SubSeq(text, first, last)

(* _merge_with_overlap(): the tail of the chunk before, and a blank. *)
MergeWithOverlap(chunks) ==
    LET tail(c) == IF Len(c) <= ChunkOverlap THEN c ELSE SubSeq(c, Len(c) - ChunkOverlap + 1, Len(c))
    IN IF Len(chunks) <= 1 THEN chunks
       ELSE [i \in DOMAIN chunks |->
                Strip(IF i > 1 /\ ChunkOverlap > 0
                      THEN tail(chunks[i - 1]) \o <<Separators[Len(Separators)]>> \o chunks[i]
                      ELSE chunks[i])]

(* RecursiveChunker.chunk() *)
Chunk(text) ==
    LET stripped == Strip(text)
    IN IF stripped = <<>> THEN <<>> ELSE MergeWithOverlap(SplitText(stripped, 1))

(* What the provider may answer for n inputs: items with their index in any *)
(* order, items without one in the order of the inputs, or one index twice. *)
Responses(n) ==
    {[i \in 1..n |-> [index |-> p[i], of |-> p[i]]] : p \in SetToSeqs(1..n)}
        \union {[i \in 1..n |-> [index |-> 0, of |-> i]], [i \in 1..n |-> [index |-> 1, of |-> i]]}

Position(r, i) == IF r[i].index = 0 THEN i ELSE r[i].index

(* _openai_embed(): an item without index has its position; after sorting   *)
(* the indexes must be 1..n (the code counts from 0).                       *)
InOrder(n, r) == {Position(r, i) : i \in 1..n} = 1..n

(* The embeddings of texts out of a response in order. *)
Sorted(texts, r) ==
    [k \in DOMAIN texts |-> texts[r[CHOOSE i \in DOMAIN texts : Position(r, i) = k].of]]

DocumentInit ==
    /\ docRows = [u \in Uploads |-> NoDocument]
    /\ \E process \in {p \in [Uploads -> {1, 2}] : \E u \in Uploads : p[u] = 1} :
           upload = [u \in Uploads |-> Requested(process[u])]
    /\ scopeLock = {} /\ localModel = [p \in 1..2 |-> "absent"] /\ docQuery = IdleQuery

Stored(scope) == {u \in Uploads : docRows[u].scope = scope}
LockOf(u) == <<upload[u].process, upload[u].scope>>

(* The request leaves _ingest_unlocked(), and the lock with it; what it had *)
(* in hand is forgotten.                                                    *)
LeaveUpload(u, pc) ==
    /\ upload' = [upload EXCEPT ![u] = [Requested(1) EXCEPT !.pc = pc]]
    /\ scopeLock' = scopeLock \ {LockOf(u)}

(* upload_document() up to the scope's lock. *)
UploadDocument(u) ==
    /\ upload[u].pc = "new"
    /\ \E s \in Scopes, t \in Texts :
           upload' = [upload EXCEPT ![u].pc = "queued", ![u].scope = s, ![u].text = t]
    /\ UNCHANGED <<docRows, scopeLock, localModel, docQuery>>

(* The lock is taken, the length and the quota are looked at, and the text  *)
(* is chunked; a refusal is answered with 413.                              *)
Preflight(u) ==
    /\ upload[u].pc = "queued" /\ LockOf(u) \notin scopeLock
    /\ LET text == upload[u].text
           chunks == Chunk(text)
       IN IF Len(text) > MaxCharacters \/ Cardinality(Stored(upload[u].scope)) >= MaxDocuments
              \/ Len(chunks) > MaxChunks
          THEN LeaveUpload(u, "refused")
          ELSE /\ upload' = [upload EXCEPT ![u].pc = "embed", ![u].chunks = chunks]
               /\ scopeLock' = scopeLock \union {LockOf(u)}
    /\ UNCHANGED <<docRows, localModel, docQuery>>

(* embed_batch() of a remote provider. *)
OpenaiEmbed(u) ==
    /\ upload[u].pc = "embed"
    /\ LET n == Len(upload[u].chunks)
       IN \E r \in Responses(n) :
              IF InOrder(n, r)
              THEN /\ upload' = [upload EXCEPT ![u].pc = "store",
                                               ![u].vectors = Sorted(upload[u].chunks, r)]
                   /\ UNCHANGED scopeLock
              ELSE LeaveUpload(u, "failed")
    /\ UNCHANGED <<docRows, localModel, docQuery>>

(* _ensure_local_model() with its lock held: another upload of the process  *)
(* may have loaded the model.                                               *)
Loads(u) == localModel[upload[u].process] = "absent"

(* embed_batch() of the local provider: the load waits in a thread, and     *)
(* the process's other uploads wait for the lock.                           *)
EnsureLocalModel(u) ==
    /\ upload[u].pc = "embed" /\ localModel[upload[u].process] # "loading"
    /\ localModel' = IF Loads(u) THEN [localModel EXCEPT ![upload[u].process] = "loading"] ELSE localModel
    /\ upload' = [upload EXCEPT ![u].pc = IF Loads(u) THEN "loading" ELSE "encode"]
    /\ UNCHANGED <<docRows, scopeLock, docQuery>>

ModelLoaded(u) ==
    /\ upload[u].pc = "loading"
    /\ localModel' = [localModel EXCEPT ![upload[u].process] = "loaded"]
    /\ upload' = [upload EXCEPT ![u].pc = "encode"]
    /\ UNCHANGED <<docRows, scopeLock, docQuery>>

(* TextEmbedding() raises, or the request is cancelled while it waits: the  *)
(* lock is given back, and the next upload loads anew.                      *)
ModelLoadFails(u) ==
    /\ upload[u].pc = "loading"
    /\ localModel' = [localModel EXCEPT ![upload[u].process] = "absent"]
    /\ LeaveUpload(u, "failed")
    /\ UNCHANGED <<docRows, docQuery>>

(* The local model answers in order, or its answer is refused. *)
LocalEmbed(u) ==
    /\ upload[u].pc = "encode"
    /\ \/ /\ upload' = [upload EXCEPT ![u].pc = "store", ![u].vectors = upload[u].chunks]
          /\ UNCHANGED scopeLock
       \/ LeaveUpload(u, "failed")
    /\ UNCHANGED <<docRows, localModel, docQuery>>

(* Mutant: the preflight's count is taken as still true. *)
QuotaFreeSincePreflight(u) == TRUE

(* The quota, counted again behind the advisory lock and the row locks. *)
QuotaFree(u) == Cardinality(Stored(upload[u].scope)) < MaxDocuments

(* SqlJsonVectorStore.add_chunks(): each with its embedding and its hash. *)
AddChunks(u) ==
    [i \in DOMAIN upload[u].chunks |->
        [content |-> upload[u].chunks[i], vector |-> upload[u].vectors[i], sound |-> TRUE]]

(* The transaction of _ingest_unlocked(): document and chunks, or nothing. *)
StoreDocument(u) ==
    /\ upload[u].pc = "store"
    /\ \/ /\ QuotaFree(u)
          /\ docRows' = [docRows EXCEPT ![u] =
                 [scope |-> upload[u].scope, text |-> upload[u].text,
                  chunks |-> AddChunks(u)]]
          /\ LeaveUpload(u, "stored")
       \/ ~QuotaFree(u) /\ LeaveUpload(u, "refused") /\ UNCHANGED docRows
       \/ LeaveUpload(u, "failed") /\ UNCHANGED docRows
    /\ UNCHANGED <<localModel, docQuery>>

(* A row is damaged outside the program: its hash no longer fits. *)
Damage(u) ==
    /\ docRows[u].chunks # <<>> /\ docRows[u].chunks[1].sound
    /\ docRows' = [docRows EXCEPT ![u].chunks[1].sound = FALSE]
    /\ UNCHANGED <<upload, scopeLock, localModel, docQuery>>

(* delete_document(): the chunks and the row, in one transaction. *)
DeleteDocument(u, scope) ==
    /\ docRows[u].scope = scope
    /\ docRows' = [docRows EXCEPT ![u] = NoDocument]
    /\ UNCHANGED <<upload, scopeLock, localModel, docQuery>>

(* query_documents() with get() of the document it names, if it names one. *)
QueryDocuments(scope, wanted) ==
    /\ docQuery.pc = "idle"
    /\ wanted # "none" => docRows[wanted].scope = scope
    /\ docQuery' = [IdleQuery EXCEPT !.pc = "owned", !.scope = scope, !.wanted = wanted]
    /\ UNCHANGED <<docRows, upload, scopeLock, localModel>>

(* owned_ids(), read before the question is embedded. *)
OwnedIds ==
    /\ docQuery.pc = "owned"
    /\ docQuery' = [docQuery EXCEPT !.pc = "search", !.owned = Stored(docQuery.scope)]
    /\ UNCHANGED <<docRows, upload, scopeLock, localModel>>

(* SqlJsonVectorStore.search() up to the scores: the rows of the scope, of  *)
(* the owned documents, whose hash, vector and metadata are sound.          *)
CandidateRows ==
    {c \in UNION {{u} \X DOMAIN docRows[u].chunks : u \in Uploads} :
        /\ docRows[c[1]].scope = docQuery.scope /\ c[1] \in docQuery.owned
        /\ docQuery.wanted \in {"none", c[1]} /\ docRows[c[1]].chunks[c[2]].sound}

(* The scores order the rows in some way; the first top_k are returned. *)
Search ==
    /\ docQuery.pc = "search"
    /\ \E found \in SetToSeqs(CandidateRows) :
           docQuery' = [docQuery EXCEPT !.pc = "answer",
               !.found = [i \in {j \in DOMAIN found : j <= TopK} |->
                   [doc |-> found[i][1], chunk |-> docRows[found[i][1]].chunks[found[i][2]],
                    scope |-> docRows[found[i][1]].scope]]]
    /\ UNCHANGED <<docRows, upload, scopeLock, localModel>>

QueryEnds ==
    /\ docQuery.pc = "answer" /\ docQuery' = IdleQuery
    /\ UNCHANGED <<docRows, upload, scopeLock, localModel>>

DocumentNext ==
    \/ \E u \in Uploads :
           \/ UploadDocument(u) \/ Preflight(u) \/ OpenaiEmbed(u) \/ EnsureLocalModel(u)
           \/ ModelLoaded(u) \/ ModelLoadFails(u) \/ LocalEmbed(u) \/ StoreDocument(u) \/ Damage(u)
           \/ \E s \in Scopes : DeleteDocument(u, s)
    \/ \E s \in Scopes, w \in Uploads \union {"none"} : QueryDocuments(s, w)
    \/ OwnedIds \/ Search \/ QueryEnds

-----------------------------------------------------------------------------
(* However the uploads of two processes interleave between the preflight    *)
(* count and the transaction, a scope never holds more documents than its   *)
(* quota; in a process one upload at a time waits for the model, and none   *)
(* encodes without it, though a load may fail or be cancelled               *)
(* (_ingest_unlocked(), _ensure_local_model()).                             *)
QuotaHolds ==
    /\ \A s \in Scopes : Cardinality(Stored(s)) <= MaxDocuments
    /\ \A u, v \in Uploads :
           upload[u].pc = "loading" /\ upload[v].pc = "loading" /\ upload[u].process = upload[v].process
               => u = v
    /\ \A u \in Uploads : upload[u].pc = "encode" => localModel[upload[u].process] = "loaded"

(* The stored chunks are the document: every word of the text, in order,    *)
(* with nothing but repetition of the chunk before in between, no chunk     *)
(* longer than a chunk with its overlap, each with the embedding of its own *)
(* content (_split_text(), _merge_with_overlap(), _openai_embed()).         *)
ChunksAreTheDocument ==
    \A u \in Uploads :
        LET row == docRows[u]
            words(t) == SelectSeq(t, LAMBDA w : ~IsSeparator(w))
            contents == [i \in DOMAIN row.chunks |-> words(row.chunks[i].content)]
            drop(s, n) == SubSeq(s, n + 1, Len(s))
            overlaps == [DOMAIN row.chunks -> 0..ChunkOverlap]
        IN row.scope # "none" =>
             /\ \A i \in DOMAIN row.chunks :
                    /\ row.chunks[i].vector = row.chunks[i].content
                    /\ Len(row.chunks[i].content) <= ChunkSize + ChunkOverlap + 1
             /\ \E o \in overlaps :
                    FlattenSeq([i \in DOMAIN contents |-> drop(contents[i], o[i])])
                        = words(row.text)

(* A query answers with sound chunks of documents that its own scope owned  *)
(* when it asked, whatever is uploaded, deleted or damaged meanwhile.       *)
AnswersStayInScope ==
    \A i \in DOMAIN docQuery.found :
        LET f == docQuery.found[i]
        IN /\ f.scope = docQuery.scope /\ f.chunk.sound /\ f.doc \in docQuery.owned
           /\ docQuery.wanted \in {"none", f.doc}
=============================================================================
