---------------------------- MODULE Conversations ----------------------------
(***************************************************************************)
(* What was said: the stored conversations of users, and the session trees *)
(* with their compaction.  The two share no state; each has its own        *)
(* variables, initial states and next-state relation.                      *)
(***************************************************************************)
EXTENDS Integers, Sequences, FiniteSets, SequencesExt

CONSTANTS
    ConvUsers, ConvIds,
    Posts, Deletions,   \* requests that store a message and that delete
    HistoryWindow,      \* limit of the retrieve operations
    ContentKinds,       \* messages that a client adds: [role, tool, text]
    LongTexts,           \* texts over max_content_length
    Keeps,               \* values of /compact keep=
    MaxCompactionCycles,
    MaxNodes, MaxSaid, MaxCommands   \* bounds: nodes, messages, commands

VARIABLES
    convOwner,   \* conversation -> its user_id, or "none" when there is no row
    stored,      \* the committed rows of messages
    lastId,      \* last id of messages that was handed out
    post,        \* post -> its transaction
    deletion,    \* deletion -> its transaction
    erased,      \* conversations that were deleted at some time
    heap,      \* the lists of messages, by cell
    nodes,     \* the nodes of the tree: [parent, fork, cell]
    active,    \* _active_node_id, 0 for none
    held,      \* the client's list: its cell, and all that was ever in it
    said,      \* messages that were added to the tree
    commands   \* commands that were given, and lists that were opened

-----------------------------------------------------------------------------
(***************************************************************************)
(* Conversations and their messages.  A message that is stored creates its *)
(* conversation when there is none: the row is loaded, the changes are     *)
(* flushed, the transaction commits.  A deletion loads the row, deletes    *)
(* the messages it can see, deletes the row and commits.  No foreign key   *)
(* ties a message to its conversation, so the order of these steps is all  *)
(* that does.  The database is PostgreSQL at READ COMMITTED: a statement   *)
(* sees what is committed and waits for a transaction that holds a row it  *)
(* writes.                                                                 *)
(***************************************************************************)

convVars == <<convOwner, stored, lastId, post, deletion, erased>>

(* What a transaction that has not begun holds. *)
NoPost ==
    [at |-> "idle", user |-> "none", conv |-> "none", new |-> FALSE, id |-> 0,
     time |-> 0, after |-> {}]
NoDeletion ==
    [at |-> "idle", user |-> "none", conv |-> "none", before |-> {}, doomed |-> {},
     hit |-> FALSE]

ConversationInit ==
    /\ convOwner = [c \in ConvIds |-> "none"]
    /\ stored = {} /\ lastId = 0
    /\ post = [p \in Posts |-> NoPost]
    /\ deletion = [d \in Deletions |-> NoDeletion]
    /\ erased = {}

(* A transaction that wrote a conversation's row holds it until it ends; a *)
(* row that it inserted is not there for a DELETE to wait for.             *)
RowIsChanged(c) ==
    \/ \E p \in Posts : post[p].at = "flushed" /\ post[p].conv = c /\ ~post[p].new
    \/ \E d \in Deletions :
        deletion[d].at = "flushed" /\ deletion[d].conv = c /\ deletion[d].hit
RowIsInserted(c) ==
    \E p \in Posts : post[p].at = "flushed" /\ post[p].conv = c /\ post[p].new
RowIsHeld(c) == RowIsChanged(c) \/ RowIsInserted(c)

MessagesOf(c) == {m \in stored : m.conv = c}

(* create_conversation(): the row is one INSERT, under an id nobody has. *)
CreateConversation(u, c) ==
    /\ convOwner[c] = "none" /\ c \notin erased /\ ~RowIsHeld(c)
    /\ \A p \in Posts : post[p].conv # c
    /\ convOwner' = [convOwner EXCEPT ![c] = u]
    /\ UNCHANGED <<stored, lastId, post, deletion, erased>>

(* datetime.now(): the clock of a process may be behind the others'. *)
Now == 1..Cardinality({q \in Posts : post[q].at # "idle"}) + 1

(* store_message() loads the row: a row of somebody else ends the call     *)
(* without a message, and the time is taken.                               *)
LoadConversation(p, u, c, now) ==
    /\ post[p].at = "idle"
    /\ post' = [post EXCEPT ![p] =
           [at |-> IF convOwner[c] \in {"none", u} THEN "loaded" ELSE "refused",
            user |-> u, conv |-> c, new |-> convOwner[c] = "none", id |-> 0,
            time |-> now, after |-> {q \in Posts : post[q].at = "done"}]]
    /\ UNCHANGED <<convOwner, stored, lastId, deletion, erased>>

(* The flush meets the row it expects: an INSERT no row of that id, an     *)
(* UPDATE one.  Otherwise IntegrityError or StaleDataError ends the call.  *)
RowFits(p) == post[p].new <=> convOwner[post[p].conv] = "none"

(* session.flush(): waits for the row, and hands out the message's id. *)
Flush(p) ==
    /\ post[p].at = "loaded" /\ ~RowIsHeld(post[p].conv)
    /\ IF RowFits(p)
       THEN /\ lastId' = lastId + 1
            /\ post' = [post EXCEPT ![p].at = "flushed", ![p].id = lastId + 1]
       ELSE /\ post' = [post EXCEPT ![p].at = "failed"]
            /\ UNCHANGED lastId
    /\ UNCHANGED <<convOwner, stored, deletion, erased>>

(* The commit shows the row and the message together. *)
CommitPost(p) ==
    /\ post[p].at = "flushed"
    /\ post' = [post EXCEPT ![p].at = "done"]
    /\ convOwner' = IF post[p].new /\ convOwner[post[p].conv] = "none"
                    THEN [convOwner EXCEPT ![post[p].conv] = post[p].user]
                    ELSE convOwner
    /\ stored' = stored \cup
           {[id |-> post[p].id, conv |-> post[p].conv, post |-> p,
             author |-> post[p].user, time |-> post[p].time]}
    /\ UNCHANGED <<lastId, deletion, erased>>

(* A request that is cancelled, or whose server stops, rolls back. *)
AbandonPost(p) ==
    /\ post[p].at \in {"loaded", "flushed"}
    /\ post' = [post EXCEPT ![p].at = "failed"]
    /\ UNCHANGED <<convOwner, stored, lastId, deletion, erased>>

(* delete_conversation() finds the row of this user, or answers False. *)
FindConversation(d, u, c) ==
    /\ deletion[d].at = "idle"
    /\ deletion' = [deletion EXCEPT ![d] =
           [at |-> IF convOwner[c] = u THEN "found" ELSE "missing",
            user |-> u, conv |-> c, before |-> MessagesOf(c), doomed |-> {},
            hit |-> FALSE]]
    /\ UNCHANGED <<convOwner, stored, lastId, post, erased>>

(* Mutant: the messages are left to a cascade that the tables do not have. *)
DoomedNone(d) == {}

(* The rows that the DELETE of a deletion matches. *)
Doomed(d) == MessagesOf(deletion[d].conv)

(* The messages go first; another deletion of them is waited for. *)
DeleteMessages(d) ==
    /\ deletion[d].at = "found"
    /\ \A o \in Deletions \ {d} :
        deletion[o].at \in {"emptied", "flushed"} => deletion[o].doomed \cap Doomed(d) = {}
    /\ deletion' = [deletion EXCEPT ![d].at = "emptied", ![d].doomed = Doomed(d)]
    /\ UNCHANGED <<convOwner, stored, lastId, post, erased>>

(* The row is deleted by its id, whoever's it is by then; that there is    *)
(* none any more is only a warning.                                        *)
DeleteRow(d) ==
    /\ deletion[d].at = "emptied" /\ ~RowIsChanged(deletion[d].conv)
    /\ deletion' = [deletion EXCEPT ![d].at = "flushed",
                                   ![d].hit = convOwner[deletion[d].conv] # "none"]
    /\ UNCHANGED <<convOwner, stored, lastId, post, erased>>

CommitDeletion(d) ==
    /\ deletion[d].at = "flushed"
    /\ deletion' = [deletion EXCEPT ![d].at = "done"]
    /\ convOwner' = IF deletion[d].hit
                    THEN [convOwner EXCEPT ![deletion[d].conv] = "none"] ELSE convOwner
    /\ stored' = stored \ deletion[d].doomed
    /\ erased' = erased \cup {deletion[d].conv}
    /\ UNCHANGED <<lastId, post>>

AbandonDeletion(d) ==
    /\ deletion[d].at \in {"found", "emptied", "flushed"}
    /\ deletion' = [deletion EXCEPT ![d].at = "failed"]
    /\ UNCHANGED <<convOwner, stored, lastId, post, erased>>

ConversationNext ==
    \/ \E u \in ConvUsers, c \in ConvIds :
        \/ CreateConversation(u, c)
        \/ \E p \in Posts, now \in Now : LoadConversation(p, u, c, now)
        \/ \E d \in Deletions : FindConversation(d, u, c)
    \/ \E p \in Posts : Flush(p) \/ CommitPost(p) \/ AbandonPost(p)
    \/ \E d \in Deletions :
        DeleteMessages(d) \/ DeleteRow(d) \/ CommitDeletion(d) \/ AbandonDeletion(d)

(* The rows a user's query joins: those of a conversation that is theirs. *)
OwnMessages(u, c) == {m \in MessagesOf(c) : convOwner[c] = u}

ById(a, b) == a.id < b.id
ByTime(a, b) == a.time < b.time \/ (a.time = b.time /\ a.id < b.id)

First(s) == SubSeq(s, 1, IF Len(s) < HistoryWindow THEN Len(s) ELSE HistoryWindow)

(* retrieve(): the oldest messages. *)
Retrieve(u, c) == First(SetToSortSeq(OwnMessages(u, c), ById))

(* retrieve_with_metadata(): the newest messages, oldest first. *)
RetrieveWithMetadata(u, c) ==
    Reverse(First(Reverse(SetToSortSeq(OwnMessages(u, c), ById))))

(* retrieve_through(): the oldest messages up to a time. *)
RetrieveThrough(u, c, through) ==
    First(SetToSortSeq({m \in OwnMessages(u, c) : m.time <= through}, ByTime))

-----------------------------------------------------------------------------
(* What a deletion that was acknowledged found does not come back, not     *)
(* even with a conversation that a later message creates under the same    *)
(* id, and whatever other deletions and posts were under way.              *)
DeletedStaysDeleted ==
    \A d \in Deletions : deletion[d].at = "done" => deletion[d].before \cap stored = {}

(* Two users whose first messages race for one id do not end up in one     *)
(* conversation: as long as nobody has deleted it, a conversation holds    *)
(* messages of its owner only, and none without an owner.                  *)
ConversationsAreOneUsers ==
    \A m \in stored : m.conv \notin erased => m.author = convOwner[m.conv]

(* A message whose request began after another was acknowledged stands     *)
(* after it in both listings by id, and in the listing by time unless the  *)
(* clock that stamped it was behind, although the time is taken before the *)
(* row is locked and the id after.                                         *)
TranscriptsKeepTheTurns ==
    \A u \in ConvUsers, c \in ConvIds :
        LET Turned(s) == {p \in (1..Len(s)) \X (1..Len(s)) :
                              p[1] < p[2] /\ s[p[2]].post \in post[s[p[1]].post].after}
        IN  /\ Turned(Retrieve(u, c)) = {} /\ Turned(RetrieveWithMetadata(u, c)) = {}
            /\ \A t \in Now :
                   LET s == RetrieveThrough(u, c, t)
                   IN  \A p \in Turned(s) : s[p[1]].time < s[p[2]].time

-----------------------------------------------------------------------------
(***************************************************************************)
(* The session tree and the chat commands /resume, /clear and /compact,    *)
(* with the compaction pipeline behind /compact.  A node of the tree owns  *)
(* a list of messages; Python lists are references, so the lists are kept  *)
(* in a heap and a node, or the client's chat, names its cell.  A command  *)
(* gives the client the list it returns and leaves the tree's lists alone, *)
(* but for /resume, which returns the very list of the node it creates.    *)
(***************************************************************************)

sessionVars == <<heap, nodes, active, held, said, commands>>

(* A message, numbered n among those added: what it says, the content its  *)
(* recovery pointer is the hash of, and the messages a summary stands for. *)
Content(kind, of, cuts) == [kind |-> kind, of |-> of, cuts |-> cuts]
NoContent == Content("none", "", 0)
Message(n, home, k) ==
    [n |-> n, home |-> home, role |-> k.role, tool |-> k.tool,
     content |-> Content("text", k.text, 0), points |-> NoContent, covers |-> {}]

SessionInit ==
    /\ heap = <<>> /\ nodes = <<>> /\ active = 0
    /\ held = [cell |-> 0, given |-> {}]
    /\ said = 0 /\ commands = 0

ListOf(node) == heap[nodes[node].cell]
ChatList == IF held.cell = 0 THEN <<>> ELSE heap[held.cell]
Numbers(list) == {list[i].n : i \in 1..Len(list)}

(* A root with no messages becomes the active node. *)
CreateRoot ==
    /\ Len(nodes) < MaxNodes
    /\ heap' = Append(heap, <<>>)
    /\ nodes' = Append(nodes, [parent |-> 0, fork |-> 0, cell |-> Len(heap) + 1])
    /\ active' = Len(nodes) + 1
    /\ UNCHANGED <<held, said, commands>>

(* The lists after a fork: a copy of the parent's first messages. *)
Fork(node, index) == Append(heap, SubSeq(ListOf(node), 1, index))

(* The new node's cell is the last one, or the one a fork shared. *)
Branched(node, index) ==
    /\ Len(nodes) < MaxNodes
    /\ heap' = Fork(node, index)
    /\ nodes' = Append(nodes,
           [parent |-> node, fork |-> index,
            cell |-> IF Len(heap') > Len(heap) THEN Len(heap') ELSE nodes[node].cell])

(* branch(): an index beyond the node's messages is refused. *)
Branch(node, index) ==
    /\ index <= Len(ListOf(node))
    /\ Branched(node, index)
    /\ UNCHANGED <<active, held, said, commands>>

SwitchTo(node) ==
    /\ active # node
    /\ active' = node
    /\ UNCHANGED <<heap, nodes, held, said, commands>>

(* add_message() to a node, the active one or another; a client that looks *)
(* at the list of that node sees it.                                       *)
AddMessage(node, kind) ==
    LET cell == nodes[node].cell
    IN  /\ said < MaxSaid
        /\ said' = said + 1
        /\ heap' = [heap EXCEPT ![cell] = Append(@, Message(said + 1, node, kind))]
        /\ held' = [held EXCEPT !.given =
                         IF held.cell = cell THEN @ \cup {said + 1} ELSE @]
        /\ UNCHANGED <<nodes, active, commands>>

(* What a client does with its list is counted. *)
Commanded == commands < MaxCommands /\ commands' = commands + 1

(* A client opens the active node's messages. *)
OpenActive ==
    /\ active # 0 /\ held.cell # nodes[active].cell
    /\ Commanded
    /\ held' = [cell |-> nodes[active].cell, given |-> Numbers(ListOf(active))]
    /\ UNCHANGED <<heap, nodes, active, said>>

(* /resume branches from all of the node, switches to the branch and gives *)
(* the client its list.                                                    *)
Resume(node) ==
    /\ Commanded
    /\ Branched(node, Len(ListOf(node)))
    /\ active' = Len(nodes) + 1
    /\ held' = [cell |-> nodes'[Len(nodes')].cell, given |-> Numbers(ListOf(node))]
    /\ UNCHANGED said

(* /resume of a node that is not there gives the client a list of its own  *)
(* with nothing in it, as before it opened one.                            *)
ResumeUnknown ==
    /\ held' = [cell |-> 0, given |-> {}]
    /\ UNCHANGED <<heap, nodes, active, said, commands>>

(* A command that returns a new list. *)
Returns(list, given) ==
    /\ Commanded /\ held.cell # 0
    /\ heap' = Append(heap, list)
    /\ held' = [cell |-> Len(heap) + 1, given |-> given]
    /\ UNCHANGED <<nodes, active, said>>

IsSystem(m) == m.role = "system"
IsConversation(m) == m.role # "system"

(* /clear keeps the system messages, and with them the summaries. *)
Clear ==
    LET kept == SelectSeq(ChatList, IsSystem)
    IN  Returns(kept, {n \in held.given :
            \E i \in 1..Len(kept) : n = kept[i].n \/ n \in kept[i].covers})

-----------------------------------------------------------------------------
(* The compaction pipeline.  /compact sets the threshold to zero, so every *)
(* list with a message is above it and each layer runs.                    *)

IsBlankAnswer(m) == m.role = "assistant" /\ m.content.of = ""

(* A tool result whose tool and content came before becomes a pointer. *)
IsRepeated(list, i) ==
    /\ list[i].role = "tool"
    /\ \E j \in 1..i - 1 :
        /\ list[j].role = "tool"
        /\ list[j].tool = list[i].tool /\ list[j].content = list[i].content
Pruned(list, i) ==
    IF IsRepeated(list, i)
    THEN [list[i] EXCEPT !.content = Content("duplicate", list[i].tool, 0),
                         !.points = list[i].content]
    ELSE list[i]
NotBlank(m) == ~IsBlankAnswer(m)
LosslessPrune(list) == SelectSeq([i \in 1..Len(list) |-> Pruned(list, i)], NotBlank)

(* A long content is cut in its middle, and is still long. *)
Distilled(m) ==
    IF m.content.kind = "text" /\ m.content.of \in LongTexts
    THEN [m EXCEPT !.content.cuts = @ + 1, !.points = m.content]
    ELSE m
StructuredDistill(list) == [i \in 1..Len(list) |-> Distilled(list[i])]

Smaller(a, b) == IF a < b THEN a ELSE b

(* The summary of the older messages: a system message with a recovery     *)
(* pointer for each of them.                                               *)
Summary(old) ==
    [n |-> 0, home |-> 0, role |-> "system", tool |-> "",
     content |-> Content("summary", "", 0), points |-> NoContent,
     covers |-> Numbers(old)]

(* What a summary leaves alone. *)
SystemPart(list) == SelectSeq(list, IsSystem)

(* How many messages are summarized: the slice [:-keep] of n messages,     *)
(* which for zero is empty and for a negative keep counts from the front.  *)
OldCount(n, keep) == IF keep > 0 THEN n - keep ELSE Smaller(-keep, n)

(* lossy_summarize(): the list, and whether there was something to do. *)
LossySummarize(list, keep) ==
    LET conv == SelectSeq(list, IsConversation)
        old == OldCount(Len(conv), keep)
    IN  IF Len(conv) <= keep THEN [list |-> list, more |-> FALSE]
        ELSE [list |-> SystemPart(list) \o <<Summary(SubSeq(conv, 1, old))>>
                           \o SubSeq(conv, old + 1, Len(conv)),
              more |-> old > 0]

(* multi_layer_compact(): summaries are made while there is something to   *)
(* summarize, for at most MaxCompactionCycles rounds.                      *)
MultiLayerCompact(list, keep) ==
    LET distilled == StructuredDistill(LosslessPrune(list))
        Round[i \in 0..MaxCompactionCycles] ==
            IF i = 0 THEN [list |-> distilled, more |-> TRUE]
            ELSE IF Round[i - 1].more THEN LossySummarize(Round[i - 1].list, keep)
            ELSE Round[i - 1]
    IN  IF distilled = <<>> THEN <<>> ELSE Round[MaxCompactionCycles].list

Compact(keep) == Returns(MultiLayerCompact(ChatList, keep), held.given)

SessionNext ==
    \/ CreateRoot \/ OpenActive \/ ResumeUnknown \/ Clear
    \/ \E node \in 1..Len(nodes) :
        \/ SwitchTo(node) \/ Resume(node)
        \/ \E index \in 0..MaxSaid : Branch(node, index)
        \/ \E kind \in ContentKinds : AddMessage(node, kind)
    \/ \E keep \in Keeps : Compact(keep)

-----------------------------------------------------------------------------
(* Branches share the past and nothing else: up to its fork a node has the *)
(* messages of its parent, whatever either of them did since, and after it *)
(* only messages that were added to this node.                             *)
BranchesShareOnlyThePast ==
    \A b \in 1..Len(nodes) :
        LET own == ListOf(b)
            k == nodes[b].fork
        IN  /\ nodes[b].parent # 0 =>
                   /\ nodes[b].parent < b
                   /\ k <= Len(ListOf(nodes[b].parent)) /\ k <= Len(own)
                   /\ SubSeq(own, 1, k) = SubSeq(ListOf(nodes[b].parent), 1, k)
            /\ \A i \in k + 1..Len(own) : own[i].home = b

(* However often a client compacts and with whatever keep, every message   *)
(* that was in the list is still there, whole, cut or as a pointer, or is  *)
(* covered by one of the summaries, each message by one; only empty        *)
(* answers are gone.                                                       *)
CompactionAccountsForAll ==
    LET list == ChatList
        Holders(n) == {i \in 1..Len(list) : list[i].n = n \/ n \in list[i].covers}
        IsBlank(n) == \E c \in 1..Len(heap) : \E i \in 1..Len(heap[c]) :
                          heap[c][i].n = n /\ IsBlankAnswer(heap[c][i])
    IN  \A n \in held.given : Cardinality(Holders(n)) = 1 \/ (Holders(n) = {} /\ IsBlank(n))

(* A compaction that keeps a positive number of messages leaves that many  *)
(* of the conversation, or all there are, at the end and in their order,   *)
(* and a second one with the same number changes no message's place.       *)
RecentMessagesStay ==
    held.cell # 0 =>
        \A keep \in {k \in Keeps : k > 0} :
            LET conv == SelectSeq(SelectSeq(ChatList, NotBlank), IsConversation)
                once == MultiLayerCompact(ChatList, keep)
                twice == MultiLayerCompact(once, keep)
                N(list) == [i \in 1..Len(list) |-> list[i].n]
                Newest(list, k) == SubSeq(list, Len(list) - k + 1, Len(list))
                left == Smaller(keep, Len(conv))
            IN  /\ N(SelectSeq(once, IsConversation)) = N(Newest(conv, left))
                /\ N(twice) = N(once)

=============================================================================
