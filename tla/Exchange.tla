------------------------------- MODULE Exchange -------------------------------
(***************************************************************************)
(* One request and its answer on their way through the adapters.  A client *)
(* writes a conversation; the candidates of the plan are tried with it one *)
(* after another (proxy.py); the one that accepts streams its answer,      *)
(* which the adapter turns into chunks event by event.  Or a client asks   *)
(* for media, and one adapter builds the call and reads the answer.        *)
(*                                                                         *)
(* Once a candidate has accepted, the request plays no further part and is *)
(* forgotten.  An answer that is not streamed is the same answer at once:  *)
(* StreamAgrees compares the two.                                          *)
(***************************************************************************)
EXTENDS Requests, Replies, Media, FiniteSets

CONSTANTS
    UserContents,   \* contents of a user's message, lists of [type, src, fmt]
    CallLists,      \* tool calls of an assistant's message
    Options,        \* options of a request
    MaxMessages,    \* messages of a conversation
    MaxPieces,      \* pieces of text of an answer
    MediaRequests,  \* requests for media
    MediaAnswers    \* answers to them

ItemTypes == {"text", "image_url", "image", "input_audio", "audio_url", "video_url", "file"}
Sources == {"data", "url", "none"}
ToolChoices == {"absent", "auto", "none", "required", "function"}

ASSUME ExchangeAssumption ==
    /\ UserContents \subseteq Seq([type : ItemTypes, src : Sources, fmt : STRING])
    /\ CallLists \subseteq Seq([id : CallId, name : ToolName, args : STRING])
    /\ \A calls \in CallLists : \A i, j \in DOMAIN calls :
          calls[i].id = calls[j].id => i = j
    /\ Options \subseteq [stream : BOOLEAN, usage : BOOLEAN, tools : BOOLEAN,
                          choice : ToolChoices, stops : Nat, tokens : Int]
    /\ MaxMessages \in Nat /\ MaxPieces \in Nat /\ MaxBlocks \in Nat
    /\ \A q \in MediaRequests : /\ q.kind \in {"speech", "transcription", "images"}
                                /\ q.tenths \in Nat /\ q.rate \in Nat /\ q.n \in Int
    /\ \A a \in MediaAnswers : a.json \in BOOLEAN /\ a.images \in Nat

Providers == {"anthropic", "gemini", "openai", "mimo"}

VARIABLES
    phase,      \* how far the exchange is
    msgs,       \* the messages the candidates share
    asked,      \* (history) the messages as the client sent them
    opts,       \* options of the request
    provider,   \* candidate tried last
    answer,     \* (history) what the upstream has answered so far
    ad,         \* locals of the adapter that translates the stream
    view,       \* what the client has put together
    counter,    \* the proxy's TokenCounter
    media       \* the exchange about media

request == <<msgs, asked, opts>>
stream  == <<answer, ad, view, counter>>
vars    == <<phase, request, provider, stream, media>>

NoOptions == [stream |-> FALSE, usage |-> FALSE, tools |-> FALSE, choice |-> "absent",
              stops |-> 0, tokens |-> 0]
NoMedia == [kind |-> "none"]

Init ==
    /\ phase = "compose"
    /\ msgs = <<>> /\ asked = <<>> /\ opts = NoOptions
    /\ provider = None
    /\ answer = <<>> /\ ad = <<>> /\ view = Unread /\ counter = NoTokens
    /\ media = NoMedia
-----------------------------------------------------------------------------
(* The client.  Every call of an assistant is answered before another       *)
(* message, as OpenAI's API demands.                                        *)

Stamp(items) == [i \in DOMAIN items |-> [type |-> items[i].type, src |-> items[i].src,
                                         fmt |-> items[i].fmt, id |-> Len(msgs) + 1]]
TextItem == [type |-> "text", src |-> "none", fmt |-> "none"]
Picture  == [type |-> "image_url", src |-> "url", fmt |-> "none"]
Said == Stamp(<<TextItem>>)

\* Messages after the last assistant's, which are answers as long as some are due.
LastAssistant ==
    LET at == {i \in DOMAIN msgs : msgs[i].role = "assistant"}
    IN  IF at = {} THEN 0 ELSE CHOOSE i \in at : \A j \in at : j <= i
Answered == {msgs[i].id : i \in {j \in DOMAIN msgs : j > LastAssistant /\ msgs[j].role = "tool"}}
Pending ==
    IF LastAssistant = 0 THEN {}
    ELSE {c \in {msgs[LastAssistant].calls[i] : i \in DOMAIN msgs[LastAssistant].calls} :
             c.id \notin Answered}

Write(m) ==
    /\ phase = "compose" /\ Len(msgs) < MaxMessages
    /\ msgs' = Append(msgs, m)
    /\ UNCHANGED <<phase, asked, opts, provider, stream, media>>

SystemSays ==
    Pending = {} /\ Write([role |-> "system", content |-> Said, calls |-> <<>>])

UserWrites(content) ==
    Pending = {} /\ Write([role |-> "user", content |-> Stamp(content), calls |-> <<>>])

AssistantSaid(text, calls) ==
    /\ Pending = {}
    /\ Write([role |-> "assistant", content |-> IF text THEN Said ELSE <<>>, calls |-> calls])

\* An answer may hold a picture; in an older form of the API it names its function.
ToolAnswers(call, pictured, named) ==
    /\ call \in Pending
    /\ Write([role |-> "tool", id |-> call.id, name |-> call.name, named |-> named,
              content |-> Stamp(<<TextItem>> \o IF pictured THEN <<Picture>> ELSE <<>>),
              calls |-> <<>>])

Ask(o) ==
    /\ phase = "compose" /\ msgs # <<>> /\ Pending = {}
    /\ phase' = "asked" /\ asked' = msgs /\ opts' = o
    /\ UNCHANGED <<msgs, provider, stream, media>>
-----------------------------------------------------------------------------
(* The candidates (ChatProxy.prepare).  A candidate that is not the last is  *)
(* one whose upstream failed; the next finds the messages as that one left   *)
(* them.                                                                     *)

Try(p) ==
    /\ phase \in {"asked", "sent"}
    /\ phase' = "sent" /\ provider' = p
    /\ msgs' = IF p = "mimo" THEN WithFormats(msgs) ELSE msgs
    /\ UNCHANGED <<asked, opts, stream, media>>

Call == BuildChatCall(provider, msgs, opts)

NoAnswer(p) ==
    CASE p = "anthropic" -> [begun |-> FALSE, blocks |-> <<>>, stop |-> None,
                             usage |-> [input |-> 0, cached |-> 0, output |-> 0], pieces |-> 0]
      [] p = "gemini"    -> [parts |-> <<>>, finish |-> None, usage |-> NoUsage, pieces |-> 0]
      [] OTHER           -> [view |-> Unread, pieces |-> 0]

Locals(p) == CASE p = "anthropic" -> AnthropicStart
               [] p = "gemini"    -> GeminiStart
               [] OTHER           -> <<>>

Accept ==
    /\ phase = "sent"
    /\ phase' = "streaming"
    /\ msgs' = <<>> /\ asked' = <<>> /\ opts' = NoOptions
    /\ answer' = NoAnswer(provider) /\ ad' = Locals(provider)
    /\ UNCHANGED <<provider, view, counter, media>>
-----------------------------------------------------------------------------
(* The stream.  Chunks go to the client and to the counter (iter_chunks).   *)

Deliver(chunks) ==
    LET all == Takings(view, counter, chunks)[Len(chunks)]
    IN  view' = all.view /\ counter' = all.counter

Streaming(p) == phase = "streaming" /\ provider = p
Fresh(n) == answer.pieces + n <= MaxPieces
Piece == answer.pieces + 1

\* A frame as the upstream writes it: named or not, with a comment before it or
\* not, ended by a blank line or by the end of the body.
Frame(data, named, comment, ended) ==
       (IF comment THEN <<[kind |-> "comment"]>> ELSE <<>>)
    \o (IF named THEN <<[kind |-> "event", name |-> data.type]>> ELSE <<>>)
    \o <<[kind |-> "data", payload |-> data]>>
    \o (IF ended THEN <<[kind |-> "blank"]>> ELSE <<>>)

AnthropicSends(data, after, ended) ==
    /\ Streaming("anthropic")
    /\ answer' = after
    /\ \E named, comment \in BOOLEAN :
          LET events == Events(Frame(data, named, comment, ended))
              all == AnthropicRun(ad, events)[Len(events)]
          IN  ad' = all.ad /\ Deliver(all.chunks)
    /\ phase' = IF ended THEN phase ELSE "eof"
    /\ UNCHANGED <<request, provider, media>>

\* The prompt is counted at the start, or at the end by some upstreams.
MessageStart(usage) ==
    /\ Streaming("anthropic") /\ ~answer.begun
    /\ AnthropicSends([type |-> "message_start", usage |-> usage],
                      [answer EXCEPT !.begun = TRUE, !.usage.input = usage.input,
                                     !.usage.cached = usage.cached], TRUE)

Unfinished == Streaming("anthropic") /\ answer.begun /\ answer.stop = None

BlockStart(type, name) ==
    /\ Unfinished /\ Len(answer.blocks) < MaxBlocks
    /\ LET n == Len(answer.blocks)
           block == [type |-> type, id |-> <<"toolu", n>>, name |-> name, pieces |-> <<>>]
       IN  AnthropicSends([type |-> "content_block_start", index |-> n, block |-> type,
                           id |-> block.id, name |-> name],
                          [answer EXCEPT !.blocks = Append(@, block)], TRUE)

DeltaOf(type) == CASE type = "text"     -> "text_delta"
                   [] type = "thinking" -> "thinking_delta"
                   [] type = "tool_use" -> "input_json_delta"

\* Text comes block after block; the arguments of calls may come side by side.
BlockDelta(b) ==
    /\ Unfinished /\ b \in DOMAIN answer.blocks /\ Fresh(1)
    /\ \A c \in b + 1..Len(answer.blocks) : answer.blocks[c].type # answer.blocks[b].type
          \/ answer.blocks[b].type = "tool_use"
    /\ AnthropicSends([type |-> "content_block_delta", index |-> b - 1,
                       delta |-> DeltaOf(answer.blocks[b].type), piece |-> Piece],
                      [answer EXCEPT !.blocks[b].pieces = Append(@, Piece), !.pieces = Piece],
                      TRUE)

MessageDelta(stop, input, ended) ==
    /\ Unfinished
    /\ input = -1 \/ input = answer.usage.input
       \/ answer.usage.input + answer.usage.cached = 0
    /\ AnthropicSends([type |-> "message_delta", stop |-> stop,
                       usage |-> [input |-> input, output |-> 1]],
                      [answer EXCEPT !.stop = stop, !.usage.output = 1,
                                     !.usage.input = IF input = -1 THEN @ ELSE input], ended)

\* The body ends; without a stop reason it was cut off, which the code cannot tell.
AnthropicEnds ==
    /\ provider = "anthropic" /\ phase \in {"streaming", "eof"}
    /\ answer.begun
    /\ Deliver(<<AnthropicFinish(ad)>>)
    /\ phase' = "ended"
    /\ UNCHANGED <<request, provider, answer, ad, media>>

Stamped(parts) ==
    [i \in DOMAIN parts |->
        [kind |-> parts[i].kind, name |-> parts[i].name, piece |-> answer.pieces + i,
         args |-> IF parts[i].kind = "functionCall" THEN <<answer.pieces + i>> ELSE <<>>]]

\* The last payload with a candidate gives the reason; usage grows to the last one.
GeminiSends(candidate, kinds, finish, usage) ==
    /\ Streaming("gemini") /\ Fresh(Len(kinds))
    /\ candidate => answer.finish = None
    /\ ~candidate => kinds = <<>> /\ finish = None /\ usage # NoUsage /\ usage # answer.usage
    /\ LET payload == [candidate |-> candidate, parts |-> Stamped(kinds), finish |-> finish,
                       usage |-> usage]
           step == GeminiPayload(ad, payload)
       IN  /\ answer' = [parts |-> answer.parts \o payload.parts,
                         finish |-> IF finish = None THEN answer.finish ELSE finish,
                         usage |-> IF usage = NoUsage THEN answer.usage ELSE usage,
                         pieces |-> answer.pieces + Len(kinds)]
           /\ ad' = step.ad
           /\ Deliver(step.chunks)
    /\ UNCHANGED <<phase, request, provider, media>>

GeminiEnds ==
    /\ Streaming("gemini")
    /\ Deliver(<<GeminiFinish(ad)>>)
    /\ phase' = "ended"
    /\ UNCHANGED <<request, provider, answer, ad, media>>

\* An upstream that speaks OpenAI's protocol sends sound chunks, and lines that
\* are no JSON, up to [DONE] or the end of the body.
OpenAISends(line) ==
    /\ line.kind = "chunk" =>
          Placed(answer.view, line.chunk) /\ (line.chunk.kind = "content" => Fresh(1))
    /\ answer' = IF line.kind = "chunk"
                 THEN [view |-> Assemble(answer.view, line.chunk),
                       pieces |-> answer.pieces + IF line.chunk.kind = "content" THEN 1 ELSE 0]
                 ELSE answer
    /\ Deliver(PassThrough(line))
    /\ phase' = IF line.kind = "done" THEN "ended" ELSE phase
    /\ UNCHANGED <<request, provider, ad, media>>

\* The upstream reports an error in its stream: the adapter raises.
StreamError ==
    /\ phase = "streaming" /\ provider \in {"anthropic", "gemini"}
    /\ phase' = "failed"
    /\ UNCHANGED <<request, provider, stream, media>>
-----------------------------------------------------------------------------
(* Media (MediaProxy.execute, one candidate). *)

MediaAsk(p, q) ==
    /\ phase = "compose" /\ msgs = <<>>
    /\ media' = [kind |-> q.kind, provider |-> p, request |-> q, call |-> BuildMediaCall(p, q)]
    /\ phase' = IF BuildMediaCall(p, q) = Refused THEN "refused" ELSE "media"
    /\ UNCHANGED <<request, provider, stream>>

MediaAnswered(a) ==
    /\ phase = "media"
    /\ phase' = "answered"
    /\ media' = [kind |-> media.kind, provider |-> media.provider, request |-> media.request,
                 call |-> media.call, answer |-> a,
                 result |-> NormalizeMedia(media.provider, media.request, a)]
    /\ UNCHANGED <<request, provider, stream>>
-----------------------------------------------------------------------------
Compose ==
    \/ SystemSays
    \/ \E content \in UserContents : UserWrites(content)
    \/ \E text \in BOOLEAN, calls \in CallLists : AssistantSaid(text, calls)
    \/ \E call \in Pending, pictured, named \in BOOLEAN : ToolAnswers(call, pictured, named)
    \/ \E o \in Options : Ask(o)

AnthropicStream ==
    \/ \E usage \in {[input |-> 0, cached |-> 0], [input |-> 2, cached |-> 1]} : MessageStart(usage)
    \/ \E type \in {"text", "thinking"} : BlockStart(type, "")
    \/ \E name \in ToolName : BlockStart("tool_use", name)
    \/ \E b \in 1..MaxBlocks : BlockDelta(b)
    \/ \E stop \in {"end_turn", "max_tokens", "tool_use"}, input \in {-1, 2}, ended \in BOOLEAN :
          MessageDelta(stop, input, ended)
    \/ AnthropicEnds

PartKinds == {[kind |-> k, name |-> ""] : k \in {"text", "thought", "images", "audio"}}
             \cup {[kind |-> "functionCall", name |-> n] : n \in ToolName}
PartLists == {<<>>} \cup {<<p>> : p \in PartKinds} \cup {<<p, q>> : p, q \in PartKinds}

GeminiStream ==
    \/ \E candidate \in BOOLEAN, kinds \in PartLists, finish \in {None, "STOP", "MAX_TOKENS"},
          usage \in {NoUsage, [prompt |-> 2, completion |-> 1]} :
             GeminiSends(candidate, kinds, finish, usage)
    \/ GeminiEnds

OpenAIStream ==
    /\ phase = "streaming" /\ provider \in {"openai", "mimo"}
    /\ \/ \E chunk \in {Role, Content(Piece), Finish("stop", NoUsage), Finish("length", NoUsage)} :
             OpenAISends([kind |-> "chunk", chunk |-> chunk])
       \/ \E kind \in {"noise", "done"} : OpenAISends([kind |-> kind])

Next ==
    \/ Compose
    \/ \E p \in Providers : Try(p)
    \/ Accept
    \/ AnthropicStream \/ GeminiStream \/ OpenAIStream \/ StreamError
    \/ \E p \in Providers, q \in MediaRequests : MediaAsk(p, q)
    \/ \E a \in MediaAnswers : MediaAnswered(a)

Spec == Init /\ [][Next]_vars
-----------------------------------------------------------------------------
(* Properties of the calls. *)

\* The exchange and the client's view keep their types.
ExchangeTypes ==
    /\ phase \in {"compose", "asked", "sent", "streaming", "eof", "ended", "failed",
                  "media", "refused", "answered"}
    /\ Len(msgs) \in 0..MaxMessages /\ Len(asked) \in {0, Len(msgs)}
    /\ provider \in Providers \cup {None}
    /\ phase \in {"streaming", "eof", "ended", "failed"} => answer.pieces \in 0..MaxPieces
    /\ view.roles \in {0, 1} /\ Len(view.finish) \in {0, 1}
    /\ \A i \in DOMAIN view.content : view.content[i] \in 1..MaxPieces

Kinds(content, type) ==
    Each(LAMBDA b : IF b.type = type THEN <<b>> ELSE <<>>, content)
IdsOf(blocks, field) == {blocks[i][field] : i \in DOMAIN blocks}

\* In a call to Anthropic the turns alternate, the user's first; the calls of a
\* turn are answered by the first blocks of the next, each once, and nothing else
\* is answered there.
AnthropicPaired(messages) ==
    /\ messages[1].role = "user"
    /\ \A i \in 1..Len(messages) - 1 : messages[i].role # messages[i + 1].role
    /\ \A i \in DOMAIN messages :
          LET before == IF i = 1 THEN <<>> ELSE Kinds(messages[i - 1].content, "tool_use")
              results == Kinds(messages[i].content, "tool_result")
          IN  /\ Len(results) = Len(before)
              /\ IdsOf(results, "tool_use_id") = IdsOf(before, "id")
              /\ \A j \in DOMAIN results : messages[i].content[j].type = "tool_result"
    /\ Kinds(Last(messages).content, "tool_use") = <<>>

Responses(parts) ==
    Each(LAMBDA p : IF p.kind = "functionResponse" THEN <<p>> ELSE <<>>, parts)

\* In a call to Gemini the k-th answer bears the name of the function that the
\* client answered with it, whatever ids were used again since.
GeminiPaired(contents) ==
    LET responses == Each(LAMBDA c : Responses(c.parts), contents)
        answers == Each(LAMBDA m : IF m.role = "tool" THEN <<m>> ELSE <<>>, asked)
    IN  /\ Len(responses) = Len(answers)
        /\ \A k \in DOMAIN answers : responses[k].name = answers[k].name

\* Tool calls and their answers still belong together in the upstream's form
\* (convert_messages, _merge_adjacent, convert_contents), though ids come back in
\* later turns and answers in any order.
ToolsPaired ==
    phase = "sent" =>
        CASE Call.protocol = "anthropic" -> AnthropicPaired(Call.messages)
          [] Call.protocol = "gemini"    -> GeminiPaired(Call.contents)
          [] OTHER                       -> TRUE

\* What a conversation says, item by item: words, pictures, media, calls, answers.
Tells(tag, id, what) == <<<<tag, id, what>>>>
MimeOf(item) ==
    CASE item.type \in {"image_url", "image"} -> "image"
      [] item.type = "input_audio" -> IF item.fmt = "none" THEN "wav" ELSE item.fmt
      [] item.type = "audio_url" -> "wav"
      [] item.type \in {"video_url", "file"} -> "mp4"

\* Anthropic takes no audio and no video: the adapter leaves them out.  Gemini's
\* leaves out an input_audio without its bytes.
Takes(p, item) ==
    /\ HasSource(item)
    /\ p = "anthropic" => item.type \in {"image_url", "image"}
    /\ p = "gemini" /\ item.type = "input_audio" => item.src = "data"

ItemTells(p, m, item) ==
    CASE item.type = "text"             -> Tells("text", item.id, "text")
      [] item.type # "text" /\ m.role = "tool" -> Tells("text", item.id, "[image]")
      [] item.type # "text" /\ m.role = "user" ->
            IF Takes(p, item) THEN Tells("media", item.id, MimeOf(item)) ELSE <<>>

MessageTells(p, m) ==
    IF m.role = "system" /\ p \in {"anthropic", "gemini"} THEN <<>>
    ELSE (IF m.role = "tool"
          THEN Tells("answer", IF p = "gemini" THEN 0 ELSE m.id,
                     IF p = "gemini" THEN m.name ELSE None)
          ELSE <<>>)
         \o Each(LAMBDA item : ItemTells(p, m, item), m.content)
         \o Each(LAMBDA c : Tells("call", IF p = "gemini" THEN 0 ELSE c.id, c.name)
                            \o Tells("args", 0, ParseJsonObject(c.args)), m.calls)

WordsTell(text) ==
    Each(LAMBDA w : IF w.id = 0 THEN <<>> ELSE Tells("text", w.id, w.word), text)

BlockTells(b) ==
    CASE b.type = "text"        -> WordsTell(b.text)
      [] b.type = "image"       -> Tells("media", b.id, "image")
      [] b.type = "tool_use"    -> Tells("call", b.id, b.name) \o Tells("args", 0, b.input)
      [] b.type = "tool_result" -> Tells("answer", b.tool_use_id, None) \o WordsTell(b.content)

PartTells(p) ==
    CASE p.kind = "text"             -> WordsTell(p.text)
      [] p.kind \in {"inlineData", "fileData"} -> Tells("media", p.id, p.mime)
      [] p.kind = "functionCall"     -> Tells("call", 0, p.name) \o Tells("args", 0, p.args)
      [] p.kind = "functionResponse" -> Tells("answer", 0, p.name) \o WordsTell(p.text)

CallTells ==
    CASE Call.protocol = "anthropic" -> Each(LAMBDA m : Each(BlockTells, m.content), Call.messages)
      [] Call.protocol = "gemini"    -> Each(LAMBDA c : Each(PartTells, c.parts), Call.contents)
      [] Call.protocol = "openai"    ->
            Each(LAMBDA m : MessageTells("openai", m), Call.messages)

SystemTells ==
    Each(LAMBDA m : IF m.role = "system" THEN WordsTell(ContentToText(m.content)) ELSE <<>>, asked)

\* Whatever candidates were tried before, the call holds what the conversation says,
\* every word, medium, call and answer, in its order; a call of a tool is forced when
\* the client forces one.  (A candidate changes the messages in place; roles are
\* merged; a system message moves; audio without a format is WAV; what Takes leaves
\* out is left out.)  Of the options only that is compared: Anthropic is sent "auto"
\* for a tool_choice of "none", and Gemini no more than five stop sequences.
NothingLost ==
    phase = "sent" =>
        /\ CallTells = Each(LAMBDA m : MessageTells(Call.protocol, m), asked)
        /\ Call.protocol # "openai" => WordsTell(Call.system) = SystemTells
        /\ opts.tools => (Call.choice \in {"any", "tool", "ANY", "required", "function"})
                            = (opts.choice \in {"required", "function"})
-----------------------------------------------------------------------------
(* Properties of the answers. *)

Whole ==
    CASE provider = "anthropic" -> AnthropicResponse(answer)
      [] provider = "gemini"    -> GeminiResponse(answer)
      [] OTHER -> [answer.view EXCEPT !.finish = IF @ = <<>> THEN None ELSE @[1]]

\* An upstream that says why it stopped; the code cannot tell the end of one that
\* was cut off from the end of one that stopped.
Complete ==
    CASE provider \in {"anthropic"} -> answer.stop # None
      [] provider = "gemini"        -> answer.finish # None
      [] OTHER                      -> answer.view.finish # <<>>

\* The arguments as a client has them that reads none as {}: in Anthropic's stream
\* a call without input has no arguments at all, in its whole answer it has "{}".
CallsAsRead == IF provider = "anthropic" THEN WrittenOut(view.calls) ELSE view.calls

LastOnly(parts) == IF parts = <<>> THEN <<>> ELSE <<Last(parts)>>
AudioKept == IF provider \in {"anthropic", "gemini"} THEN LastOnly(view.audio) ELSE view.audio

\* The chunks of a complete stream add up to the answer that the same upstream would
\* have given at once: text, reasoning, every call with its id and its arguments,
\* images, the reason for the end and the usage.  Two differences remain, and are
\* all there are: the empty arguments above, and that every part of audio is
\* streamed while the whole answer keeps the last (gemini.py).
StreamAgrees ==
    phase = "ended" /\ Complete =>
        /\ view.content = Whole.content /\ view.reasoning = Whole.reasoning
        /\ CallsAsRead = Whole.calls
        /\ view.images = Whole.images /\ AudioKept = Whole.audio
        /\ view.finish = <<Whole.finish>>
        /\ view.usage = Whole.usage

\* A client can follow the chunks one by one: one role, before anything else; a call
\* begins with the next index and its arguments come after that; one finish, last,
\* and none after an error of the upstream.
WellFormed ==
    /\ view.sound
    /\ phase = "ended" /\ provider \in {"anthropic", "gemini"} => view.finish # <<>>
    /\ phase = "failed" => view.finish = <<>>

\* The tokens counted chunk by chunk are those of the whole text (TokenCounter).
CountsWhole ==
    Tokens(counter) = EstimateTokens(view.content \o view.reasoning)
-----------------------------------------------------------------------------
(* Properties of media. *)

\* The answer is what the protocol promises for the call.  OpenAI's answers a
\* transcript in a text format with the text itself; upstreams that copy it may
\* answer with JSON all the same, which normalize_transcription reads.
PlainText(p, q, a) ==
    p = "openai" /\ q.kind = "transcription" /\ q.format \in TextFormats /\ ~a.json

Promised(p, q, a) ==
    CASE q.kind = "speech"        -> a.audio # "none" /\ (p # "openai" => a.json)
      [] q.kind = "transcription" -> a.json \/ PlainText(p, q, a)
      [] q.kind = "images"        -> a.json /\ a.images > 0

\* Of the answers that come as promised, once the upstream has worked, one kind is
\* refused and no other: a transcript in plain text, which the code asks for but
\* takes for broken JSON (_decode_payload).  Nothing else of the request that a
\* refusal could be due to is left to be found so late: a voice that is sent is one
\* that the upstream has.
LateRefusals ==
    /\ phase = "answered" /\ Promised(media.provider, media.request, media.answer) =>
          (media.result = Refused <=> PlainText(media.provider, media.request, media.answer))
    /\ phase = "media" /\ media.kind = "speech" /\ Voices[media.provider] # {}
          => media.call[1].voice \in Voices[media.provider]

\* The seconds billed for audio: those begun for a WAV that can be read; for an MP3
\* no less from 128 kbit/s on and no more up to there; none for what is not read.
SecondsBilled(q, units) ==
    LET all  == 10 * units >= q.tenths
        only == 10 * (units - 1) < q.tenths
    IN  CASE q.audio = "wav" -> all /\ only
          [] q.audio = "mp3" -> (q.rate >= 128 => all) /\ (q.rate <= 128 => only)
          [] OTHER           -> units = 0

\* What is billed: the characters of the text, the seconds of the audio, the images
\* in the answer (the images asked for, if OpenAI's holds none).
UnitsBilled ==
    phase = "answered" /\ media.result # Refused =>
        LET q == media.request
            units == media.result[1].units
        IN  CASE media.kind = "speech"        -> units = q.length
              [] media.kind = "transcription" -> SecondsBilled(q, units)
              [] media.kind = "images" ->
                    IF media.answer.images > 0 THEN units = media.answer.images
                                               ELSE units \in 1..10
=============================================================================
