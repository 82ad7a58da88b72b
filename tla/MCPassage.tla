------------------------------- MODULE MCPassage -------------------------------
(***************************************************************************)
(* An instance of Passage: three calls with two keys; two administrators,  *)
(* two globs and an exact alias; conversations of four messages, answers   *)
(* of three blocks and four pieces.  Two turns of an assistant can use one *)
(* id for two tools, as upstreams do that number the calls of each turn.   *)
(***************************************************************************)
EXTENDS Passage

CONSTANTS k1, k2, r1, r2, r3, a1, a2

MCOwner == [r \in Request |-> IF r = r3 THEN k2 ELSE k1]
MCLimits == {[rpm |-> 1, tpm |-> 1], [rpm |-> 0, tpm |-> 0]}

MCMatches == [g \in Glob |-> IF g = "*" THEN Model \cup Glob ELSE {"big", "b*"}]
MCSize == [g \in Glob |-> IF g = "*" THEN 1 ELSE 2]

AliasRow(name, model, bound, protocol, on) ==
    [alias |-> name, upstream |-> model, channel |-> bound,
     provider |-> protocol, enabled |-> on]

MCEntries ==
    { AliasRow("fast", "big", Unset, Unset, TRUE), AliasRow("b*", "small", Unset, Unset, TRUE),
      AliasRow("*", "big", "c1", Unset, TRUE), AliasRow("fast", "small", Unset, "p2", FALSE) }

MCFirstTables ==
    {<<>>, <<AliasRow("*", "big", "c1", Unset, TRUE)>>}

ChannelRow(active, protocol, models, caps) ==
    [active |-> active, provider |-> protocol, models |-> models, caps |-> caps]

MCChannelRows ==
    { ChannelRow(TRUE, "p1", {}, {}), ChannelRow(TRUE, "p1", {"big", "b*"}, {"chat"}),
      ChannelRow(TRUE, "p2", {"big"}, {"chat"}), ChannelRow(TRUE, "p2", {"small", "fast"}, {}) }

MCCapabilities == [p \in Provider |-> IF p = "p1" THEN {"chat", "speech"} ELSE {"speech"}]

Alike == Permutations({r1, r2}) \cup Permutations({a1, a2})
-----------------------------------------------------------------------------
Item(type, src, fmt) == [type |-> type, src |-> src, fmt |-> fmt]

MCUserContents ==
    { <<>>,
      <<Item("text", "none", "none"), Item("image_url", "data", "none"),
        Item("input_audio", "url", "none")>>,
      <<Item("input_audio", "data", "none"), Item("text", "none", "none"),
        Item("image", "url", "none")>>,
      <<Item("input_audio", "data", "mp3"), Item("video_url", "url", "none"),
        Item("audio_url", "none", "none")>> }

ToolCall(id, name, args) == [id |-> id, name |-> name, args |-> args]

MCCallLists ==
    { <<>>,
      <<ToolCall(1, "f", "object")>>,
      <<ToolCall(1, "g", "none")>>,
      <<ToolCall(1, "f", "list"), ToolCall(2, "g", "noise")>> }

Option(streamed, tooled, choice, stops, most) ==
    [stream |-> streamed, usage |-> streamed, tools |-> tooled, choice |-> choice,
     stops |-> stops, tokens |-> most]

MCOptions ==
    { Option(TRUE, TRUE, "required", 6, 0), Option(FALSE, TRUE, "none", 0, 9),
      Option(TRUE, FALSE, "auto", 1, 0) }

MediaRequest(kind, voice, text, model, format, audio, tenths, rate, n) ==
    [kind |-> kind, voice |-> voice, text |-> text, model |-> model, format |-> format,
     audio |-> audio, tenths |-> tenths, rate |-> rate, n |-> n,
     length |-> IF text = "none" THEN 0 ELSE 3]

MCMediaRequests ==
    {MediaRequest("speech", v, t, m, "wav", "none", 0, 0, 0) :
        v \in {"", "alloy", "cedar", "Kore", "Mia", "nobody"}, t \in {"words", "blank"},
        m \in {"plain", "clone"}}
    \cup {MediaRequest("transcription", "", "none", "plain", f, a, s, 128, 0) :
        f \in {"json", "srt"}, a \in {"wav", "broken", "ogg", "none"}, s \in {1, 10, 21}}
    \cup {MediaRequest("transcription", "", "none", "plain", "json", "mp3", s, r, 0) :
        s \in {1, 10, 21}, r \in {64, 128, 320}}
    \cup {MediaRequest("images", "", t, "plain", "json", "none", 0, 0, n) :
        t \in {"words", "blank"}, n \in {-1, 1, 2, 11}}

MCMediaAnswers ==
    [json : BOOLEAN, audio : {"none", "pcm", "wav"}, images : {0, 1, 3}]
=============================================================================
