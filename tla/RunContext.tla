----------------------------- MODULE RunContext -----------------------------
(***************************************************************************)
(* What a run sends to the model: its history, the compaction and archive  *)
(* of old messages, packing and evidence (context/), session memory        *)
(* (turn_memory.py), offloaded text (artifacts.py), skills, and the files  *)
(* attached to a run (runtime/attachments.py).                             *)
(***************************************************************************)
EXTENDS Integers, Sequences, FiniteSets, SequencesExt, FiniteSetsExt

CONSTANTS
    MaxSaid, MaxTurns,         \* messages of one turn; turns of the session
    MaxContext,                \* max_estimated_tokens
    Trigger, KeepRecent,       \* compaction_trigger_tokens, _keep_recent_groups
    InputLimit,                \* compaction_max_input_tokens
    ArchivePrefix,             \* archive_compacted_history
    ShortenOld,                \* shorten_older_tool_results
    Documents, MaxEvidence,    \* costs of the documents found; max_retrieval_tokens
    MaxRepairs, MemoryItems,   \* verification repairs; memory_policy.max_items
    MaxMemory,                 \* bound of the messages a session's memory holds
    Texts, PageSize,           \* lengths of offloaded texts; MAX_READ_CHARS
    Readers_, ArtifactUntil,   \* callers of the read tool; the clock's bound
    Files, GivenFiles,              \* artifacts by id; the attachments of the request
    FileTypes, FileCount, FileBytes,
    Skills, AgentVersions,     \* skills by name; successive agent definitions
    Missing

ASSUME RunContextAssumption ==
    /\ KeepRecent \in Nat \ {0} /\ MaxContext \in Nat \ {0} /\ PageSize \in Nat \ {0}
    /\ ArchivePrefix \in BOOLEAN /\ ShortenOld \in BOOLEAN

VARIABLES
    ctx,          \* the drive's RunState
    kept,         \* its last checkpoint
    archives,     \* the artifacts of compacted history
    memory,       \* the session's messages
    shelf,        \* [text -> its artifact]: offloaded tool results
    reader,       \* a caller paging through an offloaded text
    shelfClock,
    files_,       \* [artifact id -> its status now]
    attached,     \* the attachments of a run, from request to model call
    skillset      \* a run's loaded skills and the agent definition in force
historyVars == <<ctx, kept, archives, memory>>
shelfVars == <<shelf, reader, shelfClock>>
contextVars == <<historyVars, shelfVars, files_, attached, skillset>>

-----------------------------------------------------------------------------
(* Messages. A tool-call message names its calls, a result the call it answers. *)

CostOf == [system |-> 1, user |-> 1, repair |-> 1, assistant |-> 1, tool |-> 2]

Said(turn, n, role, calls, of) ==
    [id |-> <<turn, n>>, role |-> role, calls |-> calls, of |-> of, docs |-> {}, cost |-> CostOf[role]]
Instructions == Said(0, 0, "system", {}, Missing)
SummaryMessage == [Instructions EXCEPT !.id = <<0, 1>>, !.role = "summary"]

FromUser(m) == m.role \in {"user", "repair"}
CostAt(ms, at) == MapThenSumSet(LAMBDA i : ms[i].cost, at)
Cost(ms) == CostAt(ms, DOMAIN ms)

\* message_groups: a tool-call message with the results that follow it.
Heads(ms) == {i \in DOMAIN ms : ms[i].role # "tool"}
HeadOf(ms, i) == CHOOSE h \in 1..i : /\ ms[h].role # "tool"
                                     /\ \A x \in h + 1..i : ms[x].role = "tool"
GroupOf(ms, h) == {i \in h..Len(ms) : \A x \in h + 1..i : ms[x].role = "tool"}

Picked(ms, at) ==
    LET places == SelectSeq([i \in 1..Len(ms) |-> i], LAMBDA i : i \in at)
    IN [k \in DOMAIN places |-> ms[places[k]]]

-----------------------------------------------------------------------------
(* The active view of the history and its packing. *)

Project(c) ==
    IF c.compaction = Missing THEN c.hist
    ELSE LET through == c.compaction.through - c.offset
             earlier == c.pinned \o SubSeq(c.hist, 1, through)
             tail == SubSeq(c.hist, through + 1, Len(c.hist))
             users == SelectSeq(earlier, LAMBDA m : m.role = "user")
             user == IF (\E i \in DOMAIN tail : FromUser(tail[i])) \/ users = <<>> THEN <<>>
                     ELSE <<Last(users)>>
         IN SelectSeq(earlier, LAMBDA m : m.role = "system") \o user \o <<SummaryMessage>> \o tail

AssembleContext(c) == <<Instructions>> \o SelectSeq(Project(c), LAMBDA m : m # Instructions)

\* What pack_messages may never drop: system messages, the summary, the last
\* group and the last message of the user.
Protected(ms) ==
    {h \in Heads(ms) : \/ ms[h].role \in {"system", "summary"}
                       \/ h = Max(Heads(ms))
                       \/ FromUser(ms[h]) /\ ~\E x \in Heads(ms) : x > h /\ FromUser(ms[x])}

\* The other groups from the newest on, while they fit, shortened if need be.
Taking(ms, others, budget) ==
    LET Whole(h) == CostAt(ms, GroupOf(ms, h))
        Short(h) == Cardinality(GroupOf(ms, h))
        taken[i \in 1..Len(ms) + 1] ==
            IF i = Len(ms) + 1 THEN [left |-> budget, whole |-> {}, short |-> {}, open |-> TRUE]
            ELSE LET b == taken[i + 1] IN
                 IF i \notin others \/ ~b.open THEN b
                 ELSE IF Whole(i) <= b.left
                 THEN [b EXCEPT !.whole = @ \cup {i}, !.left = @ - Whole(i)]
                 ELSE IF ShortenOld /\ ms[i].calls # {} /\ Short(i) < Whole(i) /\ Short(i) <= b.left
                 THEN [b EXCEPT !.short = @ \cup {i}, !.left = @ - Short(i)]
                 ELSE [b EXCEPT !.open = FALSE]
    IN taken[1]

PackMessages(ms) ==
    LET must == Protected(ms)
        head == [i \in DOMAIN ms |-> HeadOf(ms, i)]
        budget == MaxContext - CostAt(ms, {i \in DOMAIN ms : head[i] \in must})
        t == Taking(ms, Heads(ms) \ must, budget)
        cut == [i \in DOMAIN ms |-> IF head[i] \in t.short THEN [ms[i] EXCEPT !.cost = 1] ELSE ms[i]]
    IN IF budget < 0 THEN Missing
       ELSE Picked(cut, {i \in DOMAIN ms : head[i] \in must \cup t.whole \cup t.short})

\* Documents in their rank, each one that still fits the evidence's allowance;
\* then the lowest ranked are dropped until the whole block fits.
SelectedDocuments ==
    LET chosen[k \in 0..Len(Documents)] ==
            IF k = 0 THEN <<>>
            ELSE LET got == chosen[k - 1]
                     spent == MapThenSumSet(LAMBDA i : Documents[got[i]], DOMAIN got)
                 IN IF spent + Documents[k] <= MaxEvidence THEN Append(got, k) ELSE got
    IN chosen[Len(Documents)]

EvidenceMessage(docs) ==
    [Instructions EXCEPT !.id = <<0, 2>>, !.docs = ToSet(docs),
                         !.cost = 1 + MapThenSumSet(LAMBDA i : Documents[docs[i]], DOMAIN docs)]

WithEvidence(ms, n) ==
    IF n = 0 THEN ms
    ELSE <<Head(ms), EvidenceMessage(SubSeq(SelectedDocuments, 1, n))>> \o Tail(ms)

FittingDocuments(ms) ==
    Max({0} \cup {n \in 1..Len(SelectedDocuments) : PackMessages(WithEvidence(ms, n)) # Missing})

-----------------------------------------------------------------------------
(* Session memory. *)

\* whole_tool_exchanges: from the first user message on, calls that have
\* every result and results that have their call.
WholeExchanges(ms) ==
    LET users == {i \in DOMAIN ms : FromUser(ms[i])}
        rest == SubSeq(ms, Min(users), Len(ms))
        answered == {rest[i].of : i \in {j \in DOMAIN rest : rest[j].role = "tool"}}
        asking == {i \in DOMAIN rest : rest[i].calls # {} /\ rest[i].calls \subseteq answered}
        asked == UNION {rest[i].calls : i \in asking}
    IN IF users = {} THEN <<>>
       ELSE Picked(rest, {i \in DOMAIN rest :
                             /\ rest[i].calls # {} => i \in asking
                             /\ rest[i].role = "tool" => rest[i].of \in asked})

\* turn_messages: the question, the tool steps after it, the answer. A
\* question that was archived is not found in the retained history.
TurnMessages(c) ==
    LET question == Said(c.turn, 1, "user", {}, Missing)
        starts == {i \in DOMAIN c.hist : c.hist[i] = question}
        steps == IF starts = {} THEN <<>> ELSE SubSeq(c.hist, Max(starts) + 1, Len(c.hist))
        stays == SelectSeq(steps, LAMBDA m : m.calls # {} \/ m.role \in {"tool", "user"})
    IN WholeExchanges(<<question>> \o stays \o <<Said(c.turn, c.said + 1, "assistant", {}, Missing)>>)

MemoryWindow == SubSeq(memory, Max({1, Len(memory) - MemoryItems + 1}), Len(memory))

\* initialize_history: instructions, whole turns of the memory, the question.
FirstHistory(turn) ==
    <<Instructions>> \o WholeExchanges(MemoryWindow) \o <<Said(turn, 1, "user", {}, Missing)>>

NewContext(turn) ==
    LET first == FirstHistory(turn) IN
    [turn |-> turn, at |-> "building", said |-> 1, hist |-> first, all |-> first, offset |-> 0,
     pinned |-> <<>>, compaction |-> Missing, plan |-> Missing, messages |-> <<>>, cited |-> <<>>,
     pending |-> {}, repairs |-> 0]

-----------------------------------------------------------------------------
(* Compaction. *)

\* assess_compaction: groups before the recent ones, with every result, whose
\* text fits the summary's input; the cursor stops after the last such group.
Compactable(ms) == {h \in Heads(ms) : Cardinality({x \in Heads(ms) : x > h}) >= KeepRecent}

\* Mutant: a cut may divide a call from its results.
CutsAnywhere(ms) == 1..Max({0} \cup UNION {GroupOf(ms, h) : h \in Compactable(ms)})

Cuts(ms) == {Max(GroupOf(ms, h)) : h \in Compactable(ms)}

Summarizable(ms, e) ==
    LET source == {i \in 1..e : ms[i].role # "system"} IN
    /\ source # {} /\ CostAt(ms, source) <= InputLimit
    /\ \A h \in Heads(ms) : h <= e =>
          ms[h].calls = {ms[i].of : i \in GroupOf(ms, h) \ {h}}

CompactionPlan(c) ==
    LET start == IF c.compaction = Missing THEN 0 ELSE c.compaction.through
        ms == SubSeq(c.hist, start - c.offset + 1, Len(c.hist))
        ends == {e \in Cuts(ms) : Summarizable(ms, e)}
    IN IF c.pending # {} \/ Cost(Project(c)) <= Trigger \/ ends = {} THEN Missing
       ELSE [start |-> start, through |-> start + Max(ends)]

Checkpoints(c) == ctx' = c /\ kept' = c
Fails(c) == Checkpoints([c EXCEPT !.at = "failed", !.plan = Missing])

AssessCompaction ==
    /\ ctx.at = "building"
    /\ ctx' = [ctx EXCEPT !.plan = CompactionPlan(ctx),
                          !.at = IF CompactionPlan(ctx) = Missing THEN "assembling" ELSE "summarizing"]
    /\ UNCHANGED <<kept, archives, memory>>

\* The summary's usage is saved before the summary is checked; one that does
\* not shrink the view, or is cut or empty, fails the run.
Summarize ==
    /\ ctx.at = "summarizing"
    /\ LET candidate == [ctx EXCEPT !.compaction = [through |-> ctx.plan.through, archive |-> Missing]] IN
       \/ /\ Cost(Project(candidate)) < Cost(Project(ctx))
          /\ ctx' = [ctx EXCEPT !.at = "archiving"]
          /\ kept' = [ctx EXCEPT !.at = "building", !.plan = Missing]
       \/ Fails(ctx)
    /\ UNCHANGED <<archives, memory>>

ArchiveIdOf(plan) == <<ctx.turn, plan.start, plan.through>>
PreviousArchive(c) == IF c.compaction = Missing THEN Missing ELSE c.compaction.archive

LinkOf(c) == PreviousArchive(c)

\* offload with a key of the run and the range: a second put finds the first.
ArchiveHistory ==
    /\ ctx.at = "archiving"
    /\ \/ /\ archives' = archives \cup
                 {[id |-> ArchiveIdOf(ctx.plan), previous |-> LinkOf(ctx),
                   messages |-> SubSeq(ctx.hist, ctx.plan.start - ctx.offset + 1,
                                       ctx.plan.through - ctx.offset)]}
          /\ ctx' = [ctx EXCEPT !.at = "committing"] /\ UNCHANGED kept
       \/ Fails(ctx) /\ UNCHANGED archives
    /\ UNCHANGED memory

\* archive_compacted_prefix, after which the view must be the same.
DropPrefix(c) ==
    LET tail == SubSeq(c.hist, c.compaction.through - c.offset + 1, Len(c.hist))
        view == Project(c)
    IN [c EXCEPT !.pinned = SubSeq(view, 1, Len(view) - Len(tail) - 1), !.hist = tail,
                 !.offset = c.compaction.through, !.messages = view]

CommitCompaction ==
    /\ ctx.at = "committing"
    /\ LET done == [ctx EXCEPT !.at = "assembling", !.plan = Missing,
                       !.compaction = [through |-> ctx.plan.through, archive |-> ArchiveIdOf(ctx.plan)]]
           c == IF ArchivePrefix THEN DropPrefix(done) ELSE done
       IN ctx' = c /\ kept' = [c EXCEPT !.at = "building"]
    /\ UNCHANGED <<archives, memory>>

\* builder.build, with evidence, then the transition to planning.
BuildContext ==
    /\ ctx.at = "assembling"
    /\ LET ms == AssembleContext(ctx)
           n == FittingDocuments(ms)
           packed == PackMessages(WithEvidence(ms, n))
       IN IF packed = Missing THEN Fails(ctx)
          ELSE Checkpoints([ctx EXCEPT !.messages = packed, !.cited = SubSeq(SelectedDocuments, 1, n),
                                       !.at = "planning"])
    /\ UNCHANGED <<archives, memory>>

-----------------------------------------------------------------------------
(* The turns of a session. *)

AppendMessage(c, m) ==
    [c EXCEPT !.hist = Append(@, m), !.all = Append(@, m), !.messages = Append(@, m), !.said = @ + 1]

ModelReplies ==
    /\ ctx.at = "planning" /\ ctx.pending = {} /\ ctx.said < MaxSaid
    /\ \E n \in 0..2 :
          LET calls == {<<ctx.turn, ctx.said + 1, k>> : k \in 1..n}
              c == AppendMessage(ctx, Said(ctx.turn, ctx.said + 1, "assistant", calls, Missing))
          IN ctx' = [c EXCEPT !.pending = calls, !.at = IF n = 0 THEN "verifying" ELSE "planning"]
    /\ UNCHANGED <<kept, archives, memory>>

\* One result, recorded with its checkpoint; the context is built again.
RecordToolCall ==
    /\ ctx.at = "planning" /\ ctx.pending # {}
    /\ LET id == CHOOSE x \in ctx.pending : \A y \in ctx.pending : x[3] <= y[3]
           c == AppendMessage(ctx, Said(ctx.turn, ctx.said + 1, "tool", {}, id))
       IN Checkpoints([c EXCEPT !.pending = @ \ {id}, !.at = "building"])
    /\ UNCHANGED <<archives, memory>>

RequestRepair ==
    /\ ctx.at = "verifying" /\ ctx.repairs < MaxRepairs
    /\ Checkpoints([AppendMessage(ctx, Said(ctx.turn, ctx.said + 1, "repair", {}, Missing))
                       EXCEPT !.repairs = @ + 1, !.at = "planning"])
    /\ UNCHANGED <<archives, memory>>

\* The turn is written to the memory before the run is saved as completed: a
\* crash between the two repeats the turn.
AppendMemory ==
    /\ ctx.at = "verifying" /\ Len(memory) < MaxMemory
    /\ memory' = memory \o TurnMessages(ctx)
    /\ ctx' = [ctx EXCEPT !.at = "composed"]
    /\ UNCHANGED <<kept, archives>>

FinishTurn ==
    /\ ctx.at = "composed"
    /\ Checkpoints([ctx EXCEPT !.at = "over"])
    /\ UNCHANGED <<archives, memory>>

NextTurn ==
    /\ ctx.at = "over" /\ ctx.turn < MaxTurns
    /\ Checkpoints(NewContext(ctx.turn + 1))
    /\ UNCHANGED <<archives, memory>>

\* The process dies; recovery goes on from the last checkpoint.
RunCrashes == ctx # kept /\ ctx' = kept /\ UNCHANGED <<kept, archives, memory>>

HistoryNext ==
    /\ UNCHANGED <<shelfVars, files_, attached, skillset>>
    /\ \/ AssessCompaction \/ Summarize \/ ArchiveHistory \/ CommitCompaction \/ BuildContext
       \/ ModelReplies \/ RecordToolCall \/ RequestRepair \/ AppendMemory \/ FinishTurn
       \/ NextTurn \/ RunCrashes

-----------------------------------------------------------------------------
(* Offloaded text: stored once for its run and user, read in pages. *)

Offload(t) ==
    /\ t \notin DOMAIN shelf /\ shelfClock < Texts[t].retention
    /\ shelf' = [x \in DOMAIN shelf \cup {t} |->
                    IF x = t THEN [owner |-> Texts[t].owner, status |-> "available",
                                   expires |-> Texts[t].retention]
                    ELSE shelf[x]]
    /\ UNCHANGED <<reader, shelfClock>>

\* _authorize: the run and user it was stored for, available and not expired.
Authorize(who, t) == /\ t \in DOMAIN shelf /\ shelf[t].owner = who
                     /\ shelf[t].status = "available" /\ shelf[t].expires > shelfClock

NoPage == [by |-> Missing, text |-> Missing, at |-> "idle", next |-> 0, got |-> <<>>]

StartReading(who, t) ==
    /\ reader.at = "idle"
    /\ reader' = [NoPage EXCEPT !.by = who, !.text = t, !.at = "describe"]
    /\ UNCHANGED <<shelf, shelfClock>>

DescribePage ==
    /\ reader.at = "describe"
    /\ reader' = IF Authorize(reader.by, reader.text) THEN [reader EXCEPT !.at = "get"]
                 ELSE [NoPage EXCEPT !.at = "denied"]
    /\ UNCHANGED <<shelf, shelfClock>>

PageEnd(offset, length) == Min({offset + PageSize, length})

\* The bytes, authorized again: the artifact may be gone since it was described.
GetPage ==
    /\ reader.at = "get"
    /\ LET length == Texts[reader.text].length
           end == PageEnd(reader.next, length)
           more == end < length
       IN reader' = IF ~Authorize(reader.by, reader.text) THEN [NoPage EXCEPT !.at = "denied"]
                    ELSE [reader EXCEPT !.got = @ \o [i \in 1..(end - reader.next) |-> reader.next + i],
                                        !.next = end, !.at = IF more THEN "describe" ELSE "read"]
    /\ UNCHANGED <<shelf, shelfClock>>

StopReading == reader.at \in {"read", "denied"} /\ reader' = NoPage /\ UNCHANGED <<shelf, shelfClock>>

\* Deleted, quarantined or swept by retention.
ShelfLoses(t) ==
    /\ t \in DOMAIN shelf /\ shelf[t].status = "available"
    /\ shelf' = [shelf EXCEPT ![t].status = "gone"]
    /\ UNCHANGED <<reader, shelfClock>>

ShelfTick == shelfClock < ArtifactUntil /\ shelfClock' = shelfClock + 1 /\ UNCHANGED <<shelf, reader>>

ShelfNext ==
    /\ UNCHANGED <<historyVars, files_, attached, skillset>>
    /\ \/ \E t \in DOMAIN Texts : \/ Offload(t)
                                  \/ ShelfLoses(t)
                                  \/ \E who \in Readers_ : StartReading(who, t)
       \/ DescribePage \/ GetPage \/ StopReading \/ ShelfTick

-----------------------------------------------------------------------------
(* Files attached to a run: checked once, held by reference, loaded at a call. *)

Needed(type) == IF type = "pdf" THEN "files" ELSE "images"

\* validate, for one attachment: the tenant's own, available, of an allowed
\* type by its bytes, as declared, well-formed.
Acceptable(a) ==
    /\ a.id \in DOMAIN Files /\ Files[a.id].tenant = GivenFiles.tenant
    /\ files_[a.id] = "available"
    /\ Files[a.id].type \in FileTypes
    /\ a.declared \in {"", Files[a.id].type}
    /\ ~Files[a.id].broken

GivenIds == {GivenFiles.attachments[i].id : i \in DOMAIN GivenFiles.attachments}

\* All of them or none; then a policy may drop files, and some model must be
\* able to read what is left.
ValidateAttachments ==
    /\ attached.at = "new"
    /\ LET size == MapThenSumSet(LAMBDA id : Files[id].bytes, GivenIds \cap DOMAIN Files)
           fits == /\ Len(GivenFiles.attachments) <= FileCount
                   /\ Cardinality(GivenIds) = Len(GivenFiles.attachments)
                   /\ \A i \in DOMAIN GivenFiles.attachments : Acceptable(GivenFiles.attachments[i])
                   /\ size <= FileBytes
       IN IF ~fits THEN attached' = [attached EXCEPT !.at = "refused"]
          ELSE \E keeps \in SUBSET GivenIds :
                  attached' = IF \E caps \in GivenFiles.models : {Needed(Files[id].type) : id \in keeps} \subseteq caps
                              THEN [attached EXCEPT !.at = "accepted", !.files = keeps]
                              ELSE [attached EXCEPT !.at = "refused"]
    /\ UNCHANGED files_

\* with_capabilities: a fallback that cannot read the files is skipped.
AbleModels(ids) == {caps \in GivenFiles.models : {Needed(Files[id].type) : id \in ids} \subseteq caps}

\* resolve: what has expired or been withheld since is a note.
Loadable(ids) == {id \in ids : files_[id] = "available"}

DispatchFiles ==
    /\ attached.at = "accepted"
    /\ \E caps \in AbleModels(attached.files) :
          attached' = [attached EXCEPT !.sent = [ids |-> Loadable(attached.files), caps |-> caps]]
    /\ UNCHANGED files_

\* retire, with retention "turn": the memory of the turn holds notes.
RetireFiles ==
    /\ attached.at = "accepted"
    /\ attached' = [attached EXCEPT !.at = "retired", !.files = {}, !.sent = Missing]
    /\ UNCHANGED files_

FileWithheld(id) ==
    /\ files_[id] = "available"
    /\ files_' = [files_ EXCEPT ![id] = "gone"]
    /\ UNCHANGED attached

FilesAttachedNext ==
    /\ UNCHANGED <<historyVars, shelfVars, skillset>>
    /\ \/ ValidateAttachments \/ DispatchFiles \/ RetireFiles
       \/ \E id \in DOMAIN Files : FileWithheld(id)

-----------------------------------------------------------------------------
(* Skills: loaded by a tool call, kept with the run, checked at every use. *)

AgentNow == AgentVersions[skillset.agent]

AuthorizedSkills(agent) ==
    {name \in DOMAIN agent.skills : agent.skills[name].needs \subseteq agent.permissions}

\* validate_loaded_skills: the run's copy against the definition in force.
ValidLoaded(agent) ==
    \A s \in skillset.loaded :
        s.name \in AuthorizedSkills(agent) /\ agent.skills[s.name].version = s.version

LoadSkills(names) ==
    /\ skillset.at = "running"
    /\ skillset' = IF names \subseteq AuthorizedSkills(AgentNow)
                   THEN [skillset EXCEPT !.loaded = {[name |-> n, version |-> AgentNow.skills[n].version] : n \in names}]
                   ELSE skillset

\* A paused or crashed run goes on under the definition deployed meanwhile.
AgentRedeployed ==
    /\ skillset.agent < Len(AgentVersions)
    /\ skillset' = [skillset EXCEPT !.agent = @ + 1]

SendSkills ==
    /\ skillset.at = "running"
    /\ skillset' = IF ValidLoaded(AgentNow) THEN [skillset EXCEPT !.sent = skillset.loaded]
                   ELSE [skillset EXCEPT !.at = "failed"]

SkillsNext ==
    /\ UNCHANGED <<historyVars, shelfVars, files_, attached>>
    /\ \/ \E names \in SUBSET Skills : LoadSkills(names)
       \/ AgentRedeployed
       \/ SendSkills

-----------------------------------------------------------------------------

ContextInit ==
    /\ archives = {} /\ memory = <<>>
    /\ ctx = NewContext(1) /\ kept = ctx
    /\ shelf = [t \in {} |-> Missing] /\ reader = NoPage /\ shelfClock = 0
    /\ files_ = [id \in DOMAIN Files |-> "available"]
    /\ attached = [at |-> "new", files |-> {}, sent |-> Missing]
    /\ skillset = [loaded |-> {}, agent |-> 1, sent |-> {}, at |-> "running"]

ContextTypeOK ==
    /\ ctx.offset \in 0..Len(ctx.all) /\ ctx.pending \subseteq UNION {m.calls : m \in ToSet(ctx.all)}
    /\ shelfClock \in 0..ArtifactUntil
    /\ DOMAIN shelf \subseteq DOMAIN Texts
    /\ attached.files \subseteq DOMAIN Files
    /\ {s.name : s \in skillset.loaded} \subseteq Skills

\* The archives a context_read can follow from the one the summary names.
Chain(c) ==
    LET links[n \in 0..Cardinality(archives)] ==
            IF n = 0 THEN {a \in archives : a.id = PreviousArchive(c)}
            ELSE LET found == links[n - 1]
                 IN found \cup {a \in archives : \E b \in found : b.previous = a.id}
    IN links[Cardinality(archives)]

(***************************************************************************)
(* Nothing said is lost: every message of the run is in the history it     *)
(* retains or in an archive on the chain its summary names, after several  *)
(* compactions and a crash at any step of one (assess_compaction,          *)
(* _compact_context, archive_compacted_prefix).                            *)
(***************************************************************************)
HistoryRecoverable ==
    \A c \in {ctx, kept} :
        ToSet(c.all) \subseteq ToSet(c.hist) \cup UNION {ToSet(a.messages) : a \in Chain(c)}

(***************************************************************************)
(* What a model reads is a valid exchange within the budget: every result  *)
(* follows its call, every call has all its results, whatever compaction,  *)
(* packing, shortening, a window of the memory or evidence has cut.        *)
(***************************************************************************)
ExchangesWhole ==
    ctx.at = "planning" /\ ctx.pending = {} =>
        LET ms == ctx.messages IN
        /\ \A i \in DOMAIN ms : ms[i].role = "tool" => \E j \in 1..i - 1 : ms[i].of \in ms[j].calls
        /\ \A j \in Heads(ms) : ms[j].role = "assistant" =>
              \A call \in ms[j].calls : \E i \in j + 1..Len(ms) : ms[i].of = call

(***************************************************************************)
(* A built context starts with the instructions, fits its budget, and the  *)
(* documents the run cites are exactly the ones whose text is in it.       *)
(***************************************************************************)
ContextFits ==
    ctx.at = "assembling" /\ ctx'.at = "planning" =>
       LET shown == SelectSeq(ctx'.messages, LAMBDA m : m.role = "system") IN
       /\ Head(ctx'.messages) = Instructions
       /\ Cost(ctx'.messages) <= MaxContext
       /\ UNION {m.docs : m \in ToSet(shown)} = ToSet(ctx'.cited)

(***************************************************************************)
(* Dropping an archived prefix changes nothing the model sees, now or at a *)
(* later compaction (archive_compacted_prefix: "retaining the identical    *)
(* active view"), in a turn without a repair request.                      *)
(***************************************************************************)
ViewKept ==
    ctx.repairs = 0 =>
        Project(ctx) = Project([ctx EXCEPT !.hist = ctx.all, !.offset = 0, !.pinned = <<>>])

(***************************************************************************)
(* docs/artifacts.md:216: "System messages and the latest user message     *)
(* remain available verbatim" when history is compacted.                   *)
(***************************************************************************)
QuestionVerbatim ==
    ctx.at = "planning" /\ ctx.compaction # Missing =>
        Said(ctx.turn, 1, "user", {}, Missing) \in ToSet(ctx.messages)

(***************************************************************************)
(* Following next_offset yields the text without a gap or an overlap, and  *)
(* only to the run and user it was stored for.                             *)
(***************************************************************************)
PagesWhole ==
    /\ reader.got = [i \in 1..Len(reader.got) |-> i]
    /\ reader.at = "read" => Len(reader.got) = Texts[reader.text].length
    /\ reader.got # <<>> => Texts[reader.text].owner = reader.by

(***************************************************************************)
(* The bytes that leave with a model call are files the request named, the *)
(* tenant's own, of an allowed type and still available at that call, and  *)
(* they go to a model that reads them.                                     *)
(***************************************************************************)
FilesVetted ==
    attached'.sent \notin {Missing, attached.sent} =>
       \A id \in attached'.sent.ids :
           /\ id \in GivenIds /\ Files[id].tenant = GivenFiles.tenant
           /\ files_[id] = "available"
           /\ Needed(Files[id].type) \in attached'.sent.caps

(***************************************************************************)
(* Guidance sent to a model is of a skill the agent in force still has, in *)
(* that version and with the permissions it needs, also when the run was   *)
(* resumed under another definition.                                       *)
(***************************************************************************)
SkillsCurrent ==
    skillset'.sent # skillset.sent =>
       \A s \in skillset'.sent :
           /\ s.name \in DOMAIN AgentNow.skills
           /\ AgentNow.skills[s.name].version = s.version
           /\ AgentNow.skills[s.name].needs \subseteq AgentNow.permissions

\* What a model is sent is whole and allowed: nothing said is lost over compactions and crashes, exchanges
\* are complete and fit, and text, files and skills are the run's own and current.
ContextSafe ==
    /\ [](ContextTypeOK /\ HistoryRecoverable /\ ExchangesWhole /\ ViewKept /\ PagesWhole)
    /\ [][ContextFits]_contextVars
    /\ [][FilesVetted]_contextVars
    /\ [][SkillsCurrent]_contextVars
=============================================================================
