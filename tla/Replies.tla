-------------------------------- MODULE Replies --------------------------------
(***************************************************************************)
(* What the adapters make of an upstream's answer (normalize_response,     *)
(* extract_usage, iter_stream of adapters/anthropic.py, gemini.py and      *)
(* openai.py, the SSE readers), and what a client makes of the chunks.     *)
(*                                                                         *)
(* The text of an answer, of its reasoning and of the arguments of a call  *)
(* is the sequence of its pieces, numbered as the upstream produced them.  *)
(***************************************************************************)
EXTENDS Integers, Sequences, FiniteSets, SequencesExt

CONSTANT MaxBlocks      \* blocks of an answer, numbered from 0

None == "none"
NoAudio == <<>>
NoUsage == [prompt |-> 0, completion |-> 0]

\* The chunks of a stream (openai_chunk).
Role == [kind |-> "role"]
Content(piece) == [kind |-> "content", piece |-> piece]
Reasoning(piece) == [kind |-> "reasoning", piece |-> piece]
CallStart(index, id, name, args) ==
    [kind |-> "call", index |-> index, id |-> id, name |-> name, args |-> args]
CallArgs(index, piece) == [kind |-> "args", index |-> index, piece |-> piece]
Media(kind, piece) == [kind |-> kind, piece |-> piece]
Finish(reason, usage) == [kind |-> "finish", reason |-> reason, usage |-> usage]
-----------------------------------------------------------------------------
(***************************************************************************)
(* The reader of named SSE (iter_named_sse): an event ends at a blank line *)
(* and at the end of the body.  A line is [kind] with a name or a payload. *)
(***************************************************************************)
NoFrame == [event |-> "", buffer |-> <<>>, out |-> <<>>]

\* The upstreams modelled here write a payload on one data line; two lines of one
\* frame, which the code joins, are no case of theirs.
Flush(rd) ==
    IF Len(rd.buffer) # 1 THEN <<>>
    ELSE <<[event |-> IF rd.event # "" THEN rd.event ELSE rd.buffer[1].type,
            data  |-> rd.buffer[1]]>>

ReadLine(rd, line) ==
    CASE line.kind = "comment" -> rd
      [] line.kind = "event"   -> [rd EXCEPT !.event = line.name]
      [] line.kind = "data"    -> [rd EXCEPT !.buffer = Append(@, line.payload)]
      [] line.kind = "blank"   ->
            IF rd.buffer = <<>> THEN rd
            ELSE [event |-> "", buffer |-> <<>>, out |-> rd.out \o Flush(rd)]

\* What the reader holds after the first lines, for each number of them.
Readings(lines) ==
    LET rd[i \in 0..Len(lines)] == IF i = 0 THEN NoFrame ELSE ReadLine(rd[i - 1], lines[i])
    IN  rd

Events(lines) ==
    LET rd == Readings(lines)[Len(lines)] IN rd.out \o Flush(rd)
-----------------------------------------------------------------------------
(* Anthropic *)

StopReason(reason) ==
    CASE reason = "max_tokens" -> "length"
      [] reason = "tool_use"   -> "tool_calls"
      [] OTHER                 -> "stop"    \* end_turn, stop_sequence, none given

\* The lists that a whole answer is gathered in.
NothingTold ==
    [content |-> <<>>, reasoning |-> <<>>, calls |-> <<>>, images |-> <<>>, audio |-> NoAudio]

AfterBlock(told, block) ==
    CASE block.type = "text"     -> [told EXCEPT !.content = @ \o block.pieces]
      [] block.type = "thinking" -> [told EXCEPT !.reasoning = @ \o block.pieces]
      [] block.type = "tool_use" ->
            [told EXCEPT !.calls = Append(@, [id |-> block.id, name |-> block.name,
                                              args |-> block.pieces])]

\* What the first blocks tell, for each number of them.
BlocksTold(blocks) ==
    LET told[i \in 0..Len(blocks)] ==
            IF i = 0 THEN NothingTold ELSE AfterBlock(told[i - 1], blocks[i])
    IN  told

Response(told, finish, usage) ==
    [content |-> told.content, reasoning |-> told.reasoning, calls |-> told.calls,
     images |-> told.images, audio |-> told.audio, finish |-> finish, usage |-> usage]

\* The input of a call is written out again, so a call without one has the
\* arguments "{}", which its stream leaves empty.
EmptyObject == <<0>>
WrittenOut(calls) ==
    [i \in DOMAIN calls |->
        [calls[i] EXCEPT !.args = IF calls[i].args = <<>> THEN EmptyObject ELSE calls[i].args]]

AnthropicResponse(answer) ==
    LET told == BlocksTold(answer.blocks)[Len(answer.blocks)] IN
    Response([told EXCEPT !.calls = WrittenOut(told.calls)], StopReason(answer.stop),
             [prompt |-> answer.usage.input + answer.usage.cached,
              completion |-> answer.usage.output])

\* The locals of iter_stream; index is tool_index, started the block's tool index.
AnthropicStart ==
    [role |-> FALSE, index |-> -1, started |-> [b \in 0..MaxBlocks - 1 |-> -1],
     prompt |-> 0, completion |-> 0, stop |-> None]

AtLeastZero(n) == IF n < 0 THEN 0 ELSE n

\* (mutant) a piece of arguments goes to the call that started last
NewestCall(ad, block) == AtLeastZero(ad.index)

CallOfBlock(ad, block) ==
    IF ad.started[block] >= 0 THEN ad.started[block] ELSE AtLeastZero(ad.index)

DeltaChunk(ad, data) ==
    CASE data.delta = "text_delta"       -> Content(data.piece)
      [] data.delta = "thinking_delta"   -> Reasoning(data.piece)
      [] data.delta = "input_json_delta" -> CallArgs(CallOfBlock(ad, data.index), data.piece)

\* -1 for a count that is absent.
PromptOnce(ad, usage) ==
    IF ad.prompt > 0 \/ usage.input = -1 THEN ad.prompt ELSE usage.input

\* One event: the locals after it and the chunks it yields.  (late serves upstreams
\* that leave out message_start.)
AnthropicEvent(ad, event, data) ==
    LET tool == event = "content_block_start" /\ data.block = "tool_use"
        late == /\ event = "content_block_start" /\ data.block = "thinking"
                /\ ~ad.role
        say  == event = "message_start" /\ ~ad.role
        stop == event = "message_delta"
    IN  [ad |-> [role |-> ad.role \/ say \/ late,
                 index |-> IF tool THEN ad.index + 1 ELSE ad.index,
                 started |-> IF tool THEN [ad.started EXCEPT ![data.index] = ad.index + 1]
                             ELSE ad.started,
                 prompt |-> IF event = "message_start" THEN data.usage.input + data.usage.cached
                            ELSE IF stop THEN PromptOnce(ad, data.usage) ELSE ad.prompt,
                 completion |-> IF stop /\ data.usage.output # -1 THEN data.usage.output
                                ELSE ad.completion,
                 stop |-> IF stop THEN data.stop ELSE ad.stop],
         chunks |-> IF say \/ late THEN <<Role>>
                    ELSE IF tool THEN <<CallStart(ad.index + 1, data.id, data.name, <<>>)>>
                    ELSE IF event = "content_block_delta" THEN <<DeltaChunk(ad, data)>>
                    ELSE <<>>]

\* The locals after the first events and the chunks yielded by them.
AfterEvent(run, e) ==
    LET next == AnthropicEvent(run.ad, e.event, e.data)
    IN  [ad |-> next.ad, chunks |-> run.chunks \o next.chunks]

AnthropicRun(ad, events) ==
    LET run[i \in 0..Len(events)] ==
            IF i = 0 THEN [ad |-> ad, chunks |-> <<>>] ELSE AfterEvent(run[i - 1], events[i])
    IN  run

\* An error event raises: nothing follows it.  Otherwise the body ends.
AnthropicFinish(ad) ==
    Finish(StopReason(ad.stop), [prompt |-> ad.prompt, completion |-> ad.completion])
-----------------------------------------------------------------------------
(* Gemini *)

FinishReason(reason) ==
    CASE reason = "MAX_TOKENS" -> "length"
      [] reason = "SAFETY"     -> "content_filter"
      [] reason = "MALFORMED_FUNCTION_CALL" -> "tool_calls"
      [] OTHER                 -> "stop"    \* STOP, OTHER, none given

WithCalls(reason, called) == IF called /\ reason = "stop" THEN "tool_calls" ELSE reason

\* The id of a call is made of its name and of its place among the calls.
CallOf(part, index) == [id |-> <<part.name, index>>, name |-> part.name, args |-> part.args]

\* Of several parts of audio the last is kept.
AfterPart(told, part) ==
    CASE part.kind = "text"    -> [told EXCEPT !.content = Append(@, part.piece)]
      [] part.kind = "thought" -> [told EXCEPT !.reasoning = Append(@, part.piece)]
      [] part.kind = "images"  -> [told EXCEPT !.images = Append(@, part.piece)]
      [] part.kind = "audio"   -> [told EXCEPT !.audio = <<part.piece>>]
      [] part.kind = "functionCall" ->
            [told EXCEPT !.calls = Append(@, CallOf(part, Len(told.calls)))]

\* What the first parts tell, for each number of them.
PartsTold(parts) ==
    LET told[i \in 0..Len(parts)] ==
            IF i = 0 THEN NothingTold ELSE AfterPart(told[i - 1], parts[i])
    IN  told

GeminiResponse(answer) ==
    LET told == PartsTold(answer.parts)[Len(answer.parts)]
    IN  Response(told, WithCalls(FinishReason(answer.finish), told.calls # <<>>), answer.usage)

GeminiStart == [role |-> FALSE, index |-> -1, finish |-> "stop", usage |-> NoUsage]

PartChunk(part, index) ==
    CASE part.kind = "text"         -> Content(part.piece)
      [] part.kind = "thought"      -> Reasoning(part.piece)
      [] part.kind = "functionCall" ->
            CallStart(index, CallOf(part, index).id, part.name, part.args)
      [] part.kind \in {"images", "audio"} -> Media(part.kind, part.piece)

\* The calls among the first n parts of a payload.
CallsBefore(parts, n) == Cardinality({i \in 1..n : parts[i].kind = "functionCall"})

\* (mutant) the index of a call is its place in the payload
PartChunksHere(ad, parts) ==
    [i \in DOMAIN parts |-> PartChunk(parts[i], CallsBefore(parts, i) - 1)]

PartChunks(ad, parts) ==
    [i \in DOMAIN parts |-> PartChunk(parts[i], ad.index + CallsBefore(parts, i))]

ReasonAfter(ad, payload, index) ==
    IF payload.finish = None THEN ad.finish
    ELSE WithCalls(FinishReason(payload.finish), index >= 0)

\* One payload: usage is taken even from a payload without a candidate.
GeminiPayload(ad, payload) ==
    LET usage == IF payload.usage = NoUsage THEN ad.usage ELSE payload.usage
        index == ad.index + CallsBefore(payload.parts, Len(payload.parts))
    IN  IF ~payload.candidate
        THEN [ad |-> [ad EXCEPT !.usage = usage], chunks |-> <<>>]
        ELSE [ad |-> [role |-> TRUE, index |-> index, usage |-> usage,
                      finish |-> ReasonAfter(ad, payload, index)],
              chunks |-> (IF ad.role THEN <<>> ELSE <<Role>>) \o PartChunks(ad, payload.parts)]

GeminiFinish(ad) == Finish(ad.finish, ad.usage)
-----------------------------------------------------------------------------
(* OpenAI: chunks pass through up to [DONE]; a line that is no JSON is skipped. *)

PassThrough(line) ==
    CASE line.kind = "chunk" -> <<line.chunk>>
      [] line.kind \in {"done", "noise"} -> <<>>
-----------------------------------------------------------------------------
(***************************************************************************)
(* The client: a call begins where a chunk brings a new index, its         *)
(* arguments are the pieces that follow with that index.                   *)
(***************************************************************************)
Unread == [content |-> <<>>, reasoning |-> <<>>, calls |-> <<>>, images |-> <<>>,
           audio |-> NoAudio, finish |-> <<>>, usage |-> NoUsage, roles |-> 0, sound |-> TRUE]

\* A chunk is out of place after the finish, before the role, for a call that
\* has not begun, or when it is a second role.
Placed(view, chunk) ==
    /\ view.finish = <<>>
    /\ chunk.kind = "role" => view.roles = 0
    /\ chunk.kind \notin {"role", "finish"} => view.roles = 1
    /\ chunk.kind = "call" => chunk.index = Len(view.calls)
    /\ chunk.kind = "args" => chunk.index < Len(view.calls)

Assemble(view, chunk) ==
    IF ~Placed(view, chunk) THEN [view EXCEPT !.sound = FALSE]
    ELSE CASE chunk.kind = "role"      -> [view EXCEPT !.roles = 1]
           [] chunk.kind = "content"   -> [view EXCEPT !.content = Append(@, chunk.piece)]
           [] chunk.kind = "reasoning" -> [view EXCEPT !.reasoning = Append(@, chunk.piece)]
           [] chunk.kind = "images"    -> [view EXCEPT !.images = Append(@, chunk.piece)]
           [] chunk.kind = "audio"     -> [view EXCEPT !.audio = Append(@, chunk.piece)]
           [] chunk.kind = "call"      ->
                 [view EXCEPT !.calls = Append(@, [id |-> chunk.id, name |-> chunk.name,
                                                   args |-> chunk.args])]
           [] chunk.kind = "args"      ->
                 [view EXCEPT !.calls[chunk.index + 1].args = Append(@, chunk.piece)]
           [] chunk.kind = "finish"    ->
                 [view EXCEPT !.finish = <<chunk.reason>>, !.usage = chunk.usage]
-----------------------------------------------------------------------------
(***************************************************************************)
(* Counting the tokens of a stream (TokenCounter) and of a text            *)
(* (estimate_tokens): one for a CJK character, a quarter for another.      *)
(* Piece n has n % 2 characters of the first kind and n of the second.     *)
(***************************************************************************)
Cjk(piece) == piece % 2
Other(piece) == piece
Quarters(n) == (n + 3) \div 4
NoTokens == [cjk |-> 0, other |-> 0]

\* (mutant) every piece is rounded up for itself
CountRounded(counter, piece) ==
    [cjk |-> counter.cjk + Cjk(piece), other |-> counter.other + 4 * Quarters(Other(piece))]

CountPiece(counter, piece) ==
    [cjk |-> counter.cjk + Cjk(piece), other |-> counter.other + Other(piece)]

Tokens(counter) == counter.cjk + Quarters(counter.other)

\* _delta_text: the content and the reasoning of a chunk are counted.
CountChunk(counter, chunk) ==
    IF chunk.kind \in {"content", "reasoning"} THEN CountPiece(counter, chunk.piece)
    ELSE counter

\* The sums of the first numbers, for each number of them.
SumsOf(numbers) ==
    LET sum[i \in 0..Len(numbers)] == IF i = 0 THEN 0 ELSE sum[i - 1] + numbers[i]
    IN  sum

SumOf(numbers) == SumsOf(numbers)[Len(numbers)]

EstimateTokens(pieces) ==
    SumOf([i \in DOMAIN pieces |-> Cjk(pieces[i])])
    + Quarters(SumOf([i \in DOMAIN pieces |-> Other(pieces[i])]))
-----------------------------------------------------------------------------
\* What the client has put together, and the tokens counted, after the first
\* chunks (iter_chunks counts a chunk and passes it on).
AfterChunk(taken, chunk) ==
    [view |-> Assemble(taken.view, chunk), counter |-> CountChunk(taken.counter, chunk)]

Takings(view, counter, chunks) ==
    LET took[i \in 0..Len(chunks)] ==
            IF i = 0 THEN [view |-> view, counter |-> counter]
            ELSE AfterChunk(took[i - 1], chunks[i])
    IN  took
=============================================================================
