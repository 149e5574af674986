---------------------------- MODULE ProviderWire ----------------------------
(***************************************************************************)
(* What a model provider makes of names and streams: tool names on the     *)
(* wire, a streamed reply put together from its chunks, and the filter     *)
(* that holds back leaked reasoning (models/providers/).                   *)
(*                                                                         *)
(* Text is a sequence of pieces; of a name only its readable form, whether *)
(* a provider accepts it and what is left without a hash suffix matter.    *)
(***************************************************************************)
EXTENDS OrderedTable

CONSTANTS WireNames,      \* runtime tool names
          Readable,       \* [name -> the name with its dots replaced]
          Accepted,       \* names a provider accepts
          StemOf,         \* [name -> the hashed alias without its suffix]
          Indexes,        \* indexes of tool calls in a reply
          ChunkPieces,    \* pieces of text or of arguments
          MaxChunks       \* chunks of a stream

NoHash == ""
ASSUME WireAssumption == NoHash \notin WireNames /\ Indexes \subseteq Nat /\ IsFiniteSet(Indexes)

VARIABLES wireOf, runtimeOf,   \* the two tables of a provider instance
          said,                \* the chunks the server has sent
          got,                 \* what the client has put together
          strand,              \* what the behaviour is about, and how it ended
          filter,              \* [held, passing, trim, all]; all: the request has tools
          shown                \* what the filter let through
wireVars == <<wireOf, runtimeOf, said, got, strand, filter, shown>>

Empty == [x \in {} |-> x]
WireInit ==
    /\ wireOf = Empty /\ runtimeOf = Empty
    /\ said = <<>> /\ got = [text |-> <<>>, parts |-> Empty, finish |-> "stop", usage |-> 0] /\ strand = "idle"
    /\ filter \in [held : {<<>>}, passing : {FALSE}, trim : {FALSE}, all : BOOLEAN] /\ shown = <<>>

-----------------------------------------------------------------------------
(* Tool names. *)
Plain(name) == <<name, NoHash>>
Hashed(name) == <<StemOf[name], name>>
Taken(alias) == alias \in DOMAIN runtimeOf

\* _wire_tool_name: the name itself, its readable form or a hashed one, the first that is free.
Alias(name) ==
    IF name \in Accepted /\ (Taken(Plain(name)) => runtimeOf[Plain(name)] = name) THEN Plain(name)
    ELSE IF Readable[name] \in Accepted /\ ~Taken(Plain(Readable[name])) THEN Plain(Readable[name])
    ELSE Hashed(name)
Collides(name) == Taken(Alias(name)) /\ runtimeOf[Alias(name)] # name
SendTool(name) ==
    /\ strand \in {"idle", "names"} /\ strand' = "names"
    /\ name \notin DOMAIN wireOf /\ ~Collides(name)
    /\ wireOf' = [n \in DOMAIN wireOf \cup {name} |-> IF n = name THEN Alias(name) ELSE wireOf[n]]
    /\ runtimeOf' = [a \in DOMAIN runtimeOf \cup {Alias(name)} |-> IF a = Alias(name) THEN name ELSE runtimeOf[a]]
    /\ UNCHANGED <<said, got, filter, shown>>
\* _runtime_tool_name: the alias, else the one tool it abbreviates, else the name as written.
Abbreviates(written) ==
    {runtimeOf[a] : a \in {x \in DOMAIN runtimeOf : Plain(runtimeOf[x]) = written
                             \/ (\E n \in WireNames : x = Hashed(n) /\ Plain(StemOf[n]) = written)}}
RuntimeName(written) ==
    IF Taken(written) THEN runtimeOf[written]
    ELSE IF Cardinality(Abbreviates(written)) = 1 THEN CHOOSE n \in Abbreviates(written) : TRUE
    ELSE written[1]

-----------------------------------------------------------------------------
(* A streamed reply. *)
Chunks == [kind : {"text"}, piece : ChunkPieces] \cup [kind : {"call"}, index : Indexes, piece : ChunkPieces]
          \cup [kind : {"finish"}, reason : {"stop", "length"}] \cup [kind : {"usage"}, tokens : {1}]

\* stream: calls are put together by their index, whatever the order of the chunks.
Take(g, chunk) ==
    CASE chunk.kind = "text" -> [g EXCEPT !.text = Append(@, chunk.piece)]
      [] chunk.kind = "call" ->
           [g EXCEPT !.parts = [i \in DOMAIN @ \cup {chunk.index} |->
                                  IF i # chunk.index THEN @[i]
                                  ELSE IF i \in DOMAIN @ THEN Append(@[i], chunk.piece) ELSE <<chunk.piece>>]]
      [] chunk.kind = "finish" -> [g EXCEPT !.finish = chunk.reason]
      [] OTHER -> [g EXCEPT !.usage = chunk.tokens]
StreamChunk(chunk) ==
    /\ strand \in {"idle", "chunks"} /\ strand' = "chunks" /\ Len(said) < MaxChunks
    /\ said' = Append(said, chunk) /\ got' = Take(got, chunk)
    /\ UNCHANGED <<wireOf, runtimeOf, filter, shown>>
\* The completed event; a timeout or a broken transport raises instead.
StreamDone(broken) ==
    /\ strand = "chunks" /\ strand' = IF broken THEN "broken" ELSE "done"
    /\ UNCHANGED <<wireOf, runtimeOf, said, got, filter, shown>>
CallsOf(g) == LET order == Ordered(DOMAIN g.parts)
              IN  [k \in DOMAIN order |-> g.parts[order[k]]]
Response(g) == [text |-> g.text, calls |-> CallsOf(g), usage |-> g.usage,
                finish |-> IF DOMAIN g.parts # {} THEN "tool_calls" ELSE g.finish]
KindAt(q, kind) == {n \in DOMAIN q : q[n].kind = kind}
CallAt(q, i) == {n \in KindAt(q, "call") : q[n].index = i}
PiecesAt(q, places) == LET at == Ordered(places) IN [k \in DOMAIN at |-> q[at[k]].piece]
\* _response: the reply read as a whole, here from everything the server sent.
WholeReply(q) ==
    LET order == Ordered({i \in Indexes : CallAt(q, i) # {}})
        ends == KindAt(q, "finish")
    IN  [text |-> PiecesAt(q, KindAt(q, "text")),
         calls |-> [k \in DOMAIN order |-> PiecesAt(q, CallAt(q, order[k]))],
         usage |-> IF KindAt(q, "usage") # {} THEN 1 ELSE 0,
         finish |-> IF order # <<>> THEN "tool_calls" ELSE IF ends = {} THEN "stop" ELSE q[Max(ends)].reason]

-----------------------------------------------------------------------------
(* Leaked reasoning.  The opening tag may arrive in two halves.            *)
Pieces == {"blank", "open1", "open2", "close", "word"}
Trimmed(q) == LET kept == {i \in DOMAIN q : q[i] # "blank"}
              IN  IF kept = {} THEN <<>> ELSE SubSeq(q, CHOOSE i \in kept : \A j \in kept : i <= j, Len(q))
OpensWith(q) == Len(q) >= 2 /\ q[1] = "open1" /\ q[2] = "open2"
Position(q, what) == CHOOSE i \in DOMAIN q : q[i] = what /\ \A j \in DOMAIN q : q[j] = what => i <= j
AfterClose(q) == SubSeq(q, Position(q, "close") + 1, Len(q))
ContainsOpen(q) == \E i \in DOMAIN q : OpensWith(SubSeq(q, i, Len(q)))
\* strip_leaked_reasoning
Stripped(q) ==
    IF OpensWith(Trimmed(q)) THEN IF Contains(Trimmed(q), "close") THEN Trimmed(AfterClose(Trimmed(q))) ELSE <<>>
    ELSE IF ~ContainsOpen(q) /\ Contains(q, "close") THEN Trimmed(AfterClose(q))
    ELSE q

\* Whether what is held may still turn out to be reasoning.
StillPrivate(head) ==
    \/ OpensWith(head) /\ ~Contains(head, "close")
    \/ ~OpensWith(head) /\ (filter.all \/ head = <<"open1">>)
\* feed
Feed(piece) ==
    /\ strand \in {"idle", "text"} /\ strand' = "text" /\ Len(said) < MaxChunks
    /\ said' = Append(said, [kind |-> "text", piece |-> piece])
    /\ LET held == Append(filter.held, piece)
           head == Trimmed(held)
           text == IF filter.passing THEN <<piece>> ELSE Stripped(held)
           trim == IF filter.passing THEN filter.trim ELSE OpensWith(head)
           out == IF trim THEN Trimmed(text) ELSE text
       IN  IF ~filter.passing /\ StillPrivate(head)
           THEN filter' = [filter EXCEPT !.held = held] /\ shown' = shown
           ELSE /\ filter' = [held |-> IF filter.passing THEN filter.held ELSE held, passing |-> TRUE,
                              trim |-> trim /\ out = <<>>, all |-> filter.all]
                /\ shown' = shown \o out
    /\ UNCHANGED <<wireOf, runtimeOf, got>>
\* finish
FinishFilter ==
    /\ strand = "text" /\ strand' = "shown"
    /\ shown' = IF filter.passing THEN shown ELSE shown \o Stripped(filter.held)
    /\ UNCHANGED <<wireOf, runtimeOf, said, got, filter>>

-----------------------------------------------------------------------------
(* A transcript as Anthropic takes it: the results of one reply in one turn. *)
Roles == {"system", "user", "assistant", "tool"}
Turn(role, items) == [role |-> role, items |-> items]

MergesResult(turns) ==
    /\ turns # <<>> /\ Last(turns).role = "user"
    /\ \A i \in DOMAIN Last(turns).items : Last(turns).items[i] = "result"
\* _payload: the system text aside, a turn for a message or one more result in the last turn.
TurnAdded(turns, m) ==
    CASE m.role = "system" -> turns
      [] m.role = "tool" /\ MergesResult(turns) -> [turns EXCEPT ![Len(turns)].items = Append(@, "result")]
      [] m.role = "tool" /\ ~MergesResult(turns) -> Append(turns, Turn("user", <<"result">>))
      [] OTHER -> Append(turns, Turn(m.role, <<"text">> \o [c \in 1..m.calls |-> "call"]))
Rendered(q) ==
    LET upTo[i \in 0..Len(q)] == IF i = 0 THEN <<>> ELSE TurnAdded(upTo[i - 1], q[i])
    IN  upTo[Len(q)]
\* The payload, a closing user turn added.
TurnsOf(q) ==
    LET all == Rendered(q)
    IN  IF all # <<>> /\ Last(all).role = "assistant" THEN Append(all, Turn("user", <<"text">>)) ELSE all
\* What the runtime puts in a transcript: the calls of a reply are answered before anything else.
OpenCalls(q) ==
    LET replies == {i \in DOMAIN q : q[i].role = "assistant"}
        at == CHOOSE i \in replies : \A j \in replies : j <= i
    IN  IF replies = {} THEN 0 ELSE q[at].calls - Cardinality({i \in at..Len(q) : q[i].role = "tool"})
AddMessage(role, calls) ==
    /\ strand \in {"idle", "script"} /\ strand' = "script" /\ Len(said) < MaxChunks + 2
    /\ calls > 0 => role = "assistant"
    /\ (role = "tool") = (OpenCalls(said) > 0)
    /\ said' = Append(said, [role |-> role, calls |-> calls])
    /\ UNCHANGED <<wireOf, runtimeOf, got, filter, shown>>

WireNext ==
    \/ \E name \in WireNames : SendTool(name)
    \/ \E chunk \in Chunks : StreamChunk(chunk)
    \/ \E broken \in BOOLEAN : StreamDone(broken)
    \/ \E piece \in Pieces : Feed(piece)
    \/ FinishFilter
    \/ \E role \in Roles, calls \in 0..2 : AddMessage(role, calls)
WireSpec == WireInit /\ [][WireNext]_wireVars

-----------------------------------------------------------------------------
(* Every tool can be sent and its name comes back, in whatever order names
   were first used: no alias stands for two tools. *)
AliasesInvert ==
    /\ \A name \in WireNames : ~Collides(name)
    /\ \A name \in DOMAIN wireOf : RuntimeName(wireOf[name]) = name

(* A streamed reply is the reply: text, calls in their order with all their
   arguments, usage and the reason it stopped. *)
StreamIsReply == strand = "done" => Response(got) = WholeReply(said)

(* Every turn with calls is followed by one turn with all their results, and
   the conversation ends with the user: what the provider demands. *)
ResultsInOneTurn ==
    (strand = "script" /\ OpenCalls(said) = 0) =>
        LET turns == TurnsOf(said)
            count(t, what) == Cardinality({i \in DOMAIN t.items : t.items[i] = what})
        IN  /\ turns # <<>> => Last(turns).role = "user"
            /\ \A i \in DOMAIN turns : count(turns[i], "call") > 0 =>
                 i < Len(turns) /\ count(turns[i + 1], "result") = count(turns[i], "call")

(* A leading reasoning block is never shown, wherever the chunks divide it,
   and what follows is shown whole; a blank first chunk is the exception. *)
ReasoningHeldBack ==
    strand \in {"text", "shown"} =>
        LET all == [i \in DOMAIN said |-> said[i].piece]
        IN  OpensWith(all) => IF strand = "shown" THEN shown = Stripped(all) ELSE IsPrefix(shown, Stripped(all))

\* What a provider is sent and what it streams back mean what the Runtime means: names, replies, hidden
\* reasoning and the order of turns.
WireSafe == AliasesInvert /\ StreamIsReply /\ ReasoningHeldBack /\ ResultsInOneTurn
=============================================================================
