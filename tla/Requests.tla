------------------------------- MODULE Requests -------------------------------
(***************************************************************************)
(* What the adapters make of an OpenAI chat request (adapters/base.py,     *)
(* anthropic.py, gemini.py, openai.py, mimo.py): the conversation, the     *)
(* tools and the options in the upstream's own form.                       *)
(*                                                                         *)
(* A text is the sequence of its words; a word names the item it comes     *)
(* from, or is one that the adapter puts there.  An item of a content list *)
(* is [type, src, fmt, id]; a content given as a string is one text item.  *)
(***************************************************************************)
EXTENDS Integers, Sequences, SequencesExt

CONSTANTS
    CallId,     \* ids that clients give to tool calls
    ToolName    \* names of their tools

\* What an operator makes of the members of a list, one after another.
Each(Op(_), content) == FlattenSeq([i \in DOMAIN content |-> Op(content[i])])

ImageMark(item) == [id |-> item.id, word |-> "[image]"]
Word(item) == [id |-> item.id, word |-> "text"]
Filler == [id |-> 0, word |-> "(continue)"]

\* The media of an item that names its source by a data: URL, a URL or not at all.
HasSource(item) == item.src \in {"data", "url"}

\* Arguments of a call: what json.loads makes of the text the client sends.
ParseJsonObject(args) ==
    CASE args = "object" -> "object"
      [] args = "list"   -> "value"
      [] OTHER           -> "empty"     \* "", or no JSON at all
-----------------------------------------------------------------------------
(* Anthropic *)

ContentToText(content) ==
    Each(LAMBDA item : CASE item.type = "text"      -> <<Word(item)>>
                         [] item.type = "image_url" -> <<ImageMark(item)>>
                         [] OTHER                   -> <<>>, content)

TextBlock(text) == [type |-> "text", text |-> text]

ImageBlock(item) ==
    IF HasSource(item)
    THEN <<[type |-> "image", source |-> IF item.src = "data" THEN "base64" ELSE "url",
            id |-> item.id]>>
    ELSE <<>>

ContentToBlocks(content) ==
    Each(LAMBDA item : CASE item.type = "text" -> <<TextBlock(<<Word(item)>>)>>
                         [] item.type \in {"image_url", "image"} -> ImageBlock(item)
                         [] OTHER -> <<>>, content)

ToolUse(call) == [type |-> "tool_use", id |-> call.id, name |-> call.name,
                  input |-> ParseJsonObject(call.args)]

OrEmptyText(blocks) == IF blocks = <<>> THEN <<TextBlock(<<>>)>> ELSE blocks

ConvertMessage(m) ==
    CASE m.role = "system" -> <<>>
      [] m.role = "tool" ->
            <<[role |-> "user",
               content |-> <<[type |-> "tool_result", tool_use_id |-> m.id,
                              content |-> ContentToText(m.content)]>>]>>
      [] m.role = "assistant" ->
            LET text == ContentToText(m.content)
                said == IF text = <<>> THEN <<>> ELSE <<TextBlock(text)>>
            IN  <<[role |-> "assistant",
                   content |-> OrEmptyText(said \o [i \in DOMAIN m.calls |-> ToolUse(m.calls[i])])]>>
      [] m.role = "user" ->
            <<[role |-> "user", content |-> OrEmptyText(ContentToBlocks(m.content))]>>

\* (mutant) a message is merged only with one that is not a tool result
MergedWithWrong(merged, m) ==
    IF merged # <<>> /\ Last(merged).role = m.role /\ m.content[1].type # "tool_result"
    THEN Append(Front(merged), [m EXCEPT !.content = Last(merged).content \o @])
    ELSE Append(merged, m)

MergedWith(merged, m) ==
    IF merged # <<>> /\ Last(merged).role = m.role
    THEN Append(Front(merged), [m EXCEPT !.content = Last(merged).content \o @])
    ELSE Append(merged, m)

\* The first messages merged, for each number of them.
Mergings(messages) ==
    LET merged[i \in 0..Len(messages)] ==
            IF i = 0 THEN <<>> ELSE MergedWith(merged[i - 1], messages[i])
    IN  merged

MergeAdjacent(messages) == Mergings(messages)[Len(messages)]

UserSays(text) == [role |-> "user", content |-> <<TextBlock(text)>>]

ConvertMessages(msgs) ==
    LET converted == Each(ConvertMessage, msgs)
        started == IF converted = <<>> THEN <<UserSays(<<>>)>>
                   ELSE IF converted[1].role # "user"
                        THEN <<UserSays(<<Filler>>)>> \o converted
                        ELSE converted
    IN  MergeAdjacent(started)

SystemText(msgs) ==
    Each(LAMBDA m : IF m.role = "system" THEN ContentToText(m.content) ELSE <<>>, msgs)

AnthropicChoice(choice) ==
    CASE choice = "absent"   -> "absent"
      [] choice = "required" -> "any"
      [] choice = "function" -> "tool"
      [] OTHER               -> "auto"      \* "none" among them
-----------------------------------------------------------------------------
(* Gemini *)

TextOf(content) ==
    Each(LAMBDA item : CASE item.type = "text" -> <<Word(item)>>
                         [] item.type \in {"image_url", "image"} -> <<ImageMark(item)>>
                         [] OTHER -> <<>>, content)

TextPart(text) == [kind |-> "text", text |-> text]
MediaPart(item, mime) ==
    IF HasSource(item)
    THEN <<[kind |-> IF item.src = "data" THEN "inlineData" ELSE "fileData",
            mime |-> mime, id |-> item.id]>>
    ELSE <<>>

\* The bytes of input_audio are in the item, a URL in their place is not read.
AudioPart(item) ==
    IF item.src = "data" THEN MediaPart(item, IF item.fmt = "none" THEN "wav" ELSE item.fmt)
    ELSE <<>>

ContentToParts(content) ==
    Each(LAMBDA item :
            CASE item.type = "text" -> <<TextPart(<<Word(item)>>)>>
              [] item.type \in {"image_url", "image"} -> MediaPart(item, "image")
              [] item.type = "input_audio" -> AudioPart(item)
              [] item.type = "audio_url" -> MediaPart(item, "wav")
              [] item.type \in {"video_url", "file"} -> MediaPart(item, "mp4"),
         content)

FunctionCall(call) == [kind |-> "functionCall", name |-> call.name,
                       args |-> ParseJsonObject(call.args)]

OrEmptyPart(parts) == IF parts = <<>> THEN <<TextPart(<<>>)>> ELSE parts

\* The names of the calls by id, the latest call of an id last.
Named(names, calls) ==
    [id \in CallId |->
        LET at == {i \in DOMAIN calls : calls[i].id = id}
        IN  IF at = {} THEN names[id] ELSE calls[CHOOSE i \in at : \A j \in at : j <= i].name]

ContentOf(m, names) ==
    CASE m.role = "tool" ->
            [role |-> "user",
             parts |-> <<[kind |-> "functionResponse",
                          name |-> IF m.named THEN m.name ELSE names[m.id],
                          text |-> TextOf(m.content)]>>]
      [] m.role = "assistant" ->
            LET text == TextOf(m.content)
                said == IF text = <<>> THEN <<>> ELSE <<TextPart(text)>>
            IN  [role |-> "model",
                 parts |-> OrEmptyPart(said \o [i \in DOMAIN m.calls |-> FunctionCall(m.calls[i])])]
      [] m.role = "user" ->
            [role |-> "user", parts |-> OrEmptyPart(ContentToParts(m.content))]

AfterMessage(told, m) ==
    LET names == IF m.role = "assistant" THEN Named(told.names, m.calls) ELSE told.names
    IN  [names |-> names,
         contents |-> IF m.role = "system" THEN told.contents
                      ELSE Append(told.contents, ContentOf(m, names))]

\* The names and the contents after the first messages, for each number of them.
ContentsTold(msgs) ==
    LET told[i \in 0..Len(msgs)] ==
            IF i = 0 THEN [names |-> [id \in CallId |-> "function"], contents |-> <<>>]
            ELSE AfterMessage(told[i - 1], msgs[i])
    IN  told

ConvertContents(msgs) ==
    LET all == ContentsTold(msgs)[Len(msgs)].contents
    IN  IF all = <<>> THEN <<[role |-> "user", parts |-> <<TextPart(<<>>)>>]>> ELSE all

GeminiChoice(choice) ==
    CASE choice = "absent"   -> "absent"
      [] choice = "auto"     -> "AUTO"
      [] choice = "none"     -> "NONE"
      [] choice \in {"required", "function"} -> "ANY"
-----------------------------------------------------------------------------
(* The calls.  Options are [stream, usage, tools, choice, stops, tokens]. *)

DefaultMaxTokens == 4096
MaxTokens(opts) == IF opts.tokens > 0 THEN opts.tokens ELSE DefaultMaxTokens

AnthropicCall(msgs, opts) ==
    [protocol |-> "anthropic", stream |-> opts.stream, max |-> MaxTokens(opts),
     system |-> SystemText(msgs), messages |-> ConvertMessages(msgs),
     stops |-> opts.stops, tools |-> opts.tools, choice |-> AnthropicChoice(opts.choice)]

GeminiStops == 5

GeminiCall(msgs, opts) ==
    [protocol |-> "gemini", stream |-> opts.stream, max |-> MaxTokens(opts),
     system |-> Each(LAMBDA m : IF m.role = "system" THEN TextOf(m.content) ELSE <<>>, msgs),
     contents |-> ConvertContents(msgs),
     stops |-> IF opts.stops > GeminiStops THEN GeminiStops ELSE opts.stops,
     tools |-> opts.tools,
     choice |-> IF opts.tools THEN GeminiChoice(opts.choice) ELSE "absent"]

\* strip_internal_fields drops stream_options, which comes back for a stream only.
OpenAICall(msgs, opts) ==
    [protocol |-> "openai", stream |-> opts.stream, max |-> opts.tokens, messages |-> msgs,
     stops |-> opts.stops, tools |-> opts.tools, choice |-> opts.choice,
     usage |-> opts.stream /\ opts.usage]

\* (mutant) the format is always written
WithWav(item) == IF item.type = "input_audio" THEN [item EXCEPT !.fmt = "wav"] ELSE item

\* MiMo wants the format of every audio: it is written into the request itself,
\* whose messages the candidates tried after it share.
WithFormat(item) ==
    IF item.type = "input_audio" /\ item.fmt = "none" THEN [item EXCEPT !.fmt = "wav"] ELSE item

WithFormats(msgs) ==
    [i \in DOMAIN msgs |->
        [msgs[i] EXCEPT !.content = [j \in DOMAIN @ |-> WithFormat(@[j])]]]

BuildChatCall(provider, msgs, opts) ==
    CASE provider = "anthropic" -> AnthropicCall(msgs, opts)
      [] provider = "gemini"    -> GeminiCall(msgs, opts)
      [] provider = "openai"    -> OpenAICall(msgs, opts)
      [] provider = "mimo"      -> OpenAICall(WithFormats(msgs), opts)
=============================================================================
