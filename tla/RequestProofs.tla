----------------------------- MODULE RequestProofs -----------------------------
(***************************************************************************)
(* Proofs about what Exchange sends: that tool calls and their answers     *)
(* still belong together in every upstream's form, and that nothing the    *)
(* client said is lost.                                                    *)
(***************************************************************************)
EXTENDS Exchange, Basics, FiniteSetTheorems

-----------------------------------------------------------------------------
(***************************************************************************)
(* The request.  What a conversation is made of, what the adapters make of *)
(* it, and what each of these tells.                                       *)
(***************************************************************************)
Formats == STRING \cup {"wav", "none"}
ItemForm == [type : ItemTypes, src : Sources, fmt : Formats, id : Nat \ {0}]
TextItems == {item \in ItemForm : item.type = "text"}
AnswerItems == {item \in ItemForm : item.type \in {"text", "image_url"}}
CallForm == [id : CallId, name : ToolName, args : STRING]

SystemForm == [role : {"system"}, content : Seq(TextItems), calls : {<<>>}]
UserForm == [role : {"user"}, content : Seq(ItemForm), calls : {<<>>}]
AssistantForm == [role : {"assistant"}, content : Seq(TextItems), calls : Seq(CallForm)]
ToolForm == [role : {"tool"}, id : CallId, name : ToolName, named : BOOLEAN,
             content : Seq(AnswerItems), calls : {<<>>}]
MessageForm == SystemForm \cup UserForm \cup AssistantForm \cup ToolForm

Words == [id : Nat, word : {"text", "[image]", "(continue)"}]
Inputs == {"object", "value", "empty"}

TextBlocks == [type : {"text"}, text : Seq(Words)]
ImageBlocks == [type : {"image"}, source : {"base64", "url"}, id : Nat]
UseBlocks == [type : {"tool_use"}, id : CallId, name : ToolName, input : Inputs]
ResultBlocks == [type : {"tool_result"}, tool_use_id : CallId, content : Seq(Words)]
Blocks == TextBlocks \cup ImageBlocks \cup UseBlocks \cup ResultBlocks

Mimes == {"image", "wav", "mp4"} \cup Formats
TextParts == [kind : {"text"}, text : Seq(Words)]
MediaParts == [kind : {"inlineData", "fileData"}, mime : Mimes, id : Nat]
CallParts == [kind : {"functionCall"}, name : ToolName, args : Inputs]
FunctionNames == ToolName \cup {"function"}
ResponseParts == [kind : {"functionResponse"}, name : FunctionNames, text : Seq(Words)]
Parts == TextParts \cup MediaParts \cup CallParts \cup ResponseParts

Tags == {"text", "media", "call", "args", "answer"}
Ids == Nat \cup CallId
Labels == {"text", "[image]", "(continue)", None} \cup Inputs \cup Mimes \cup FunctionNames
Telling == Tags \X Ids \X Labels

\* One telling.
LEMMA OneTelling ==
    ASSUME NEW tag \in Tags, NEW id \in Ids, NEW what \in Labels
    PROVE  Tells(tag, id, what) \in Seq(Telling)
    <1>1. PICK x : x = <<tag, id, what>>
        OBVIOUS
    <1>2. x \in Telling
        BY <1>1 DEF Telling
    <1>3. <<x>> \in Seq(Telling)
        BY <1>2, SingleList
    <1> QED
        BY <1>1, <1>3 DEF Tells

LEMMA TextTold ==
    ASSUME NEW id \in Nat
    PROVE  /\ Tells("text", id, "text") \in Seq(Telling)
           /\ Tells("text", id, "[image]") \in Seq(Telling)
           /\ Tells("text", id, "(continue)") \in Seq(Telling)
    <1>1. "text" \in Tags /\ id \in Ids /\ "text" \in Labels /\ "[image]" \in Labels
          /\ "(continue)" \in Labels
        BY DEF Tags, Ids, Labels
    <1> QED
        BY <1>1, OneTelling

LEMMA MediaTold ==
    ASSUME NEW id \in Nat, NEW mime \in Mimes
    PROVE  Tells("media", id, mime) \in Seq(Telling)
    <1>1. "media" \in Tags /\ id \in Ids /\ mime \in Labels
        BY DEF Tags, Ids, Labels
    <1> QED
        BY <1>1, OneTelling

LEMMA UseTold ==
    ASSUME NEW id \in Ids, NEW name \in ToolName, NEW input \in Inputs
    PROVE  Tells("call", id, name) \o Tells("args", 0, input) \in Seq(Telling)
    <1>1. "call" \in Tags /\ "args" \in Tags /\ 0 \in Ids /\ name \in Labels /\ input \in Labels
        BY DEF Tags, Ids, Labels, FunctionNames
    <1>2. Tells("call", id, name) \in Seq(Telling) /\ Tells("args", 0, input) \in Seq(Telling)
        BY <1>1, OneTelling
    <1> QED
        BY <1>2, ConcatProperties

LEMMA AnswerTold ==
    ASSUME NEW id \in Ids, NEW what \in FunctionNames \cup {None}
    PROVE  Tells("answer", id, what) \in Seq(Telling)
    <1>1. "answer" \in Tags /\ what \in Labels
        BY DEF Tags, Labels
    <1> QED
        BY <1>1, OneTelling

TellsOfWord == [w \in Words |-> IF w.id = 0 THEN <<>> ELSE Tells("text", w.id, w.word)]

LEMMA WordsTold ==
    /\ Lists(TellsOfWord, Words, Telling)
    /\ \A text \in Seq(Words) : WordsTell(text) = Joined(TellsOfWord, text)
    <1>1. ASSUME NEW w \in Words PROVE TellsOfWord[w] \in Seq(Telling)
        <2>1. w.id \in Nat /\ w.word \in {"text", "[image]", "(continue)"}
            BY DEF Words
        <2>2. Tells("text", w.id, w.word) \in Seq(Telling)
            BY <2>1, TextTold
        <2>3. <<>> \in Seq(Telling)
            BY EmptySeq
        <2> QED
            BY <2>2, <2>3 DEF TellsOfWord
    <1>2. ASSUME NEW text \in Seq(Words) PROVE WordsTell(text) = Joined(TellsOfWord, text)
        <2>1. \A i \in DOMAIN text : text[i] \in Words
            BY LenProperties, ElementOfSeq
        <2>2. [i \in DOMAIN text |-> IF text[i].id = 0 THEN <<>>
                                     ELSE Tells("text", text[i].id, text[i].word)] =
                 [i \in DOMAIN text |-> TellsOfWord[text[i]]]
            BY <2>1 DEF TellsOfWord
        <2> QED
            BY <2>2 DEF WordsTell, Each, Joined, Images
    <1> QED
        BY <1>1, <1>2 DEF TellsOfWord, Lists

LEMMA WordsTyped ==
    ASSUME NEW text \in Seq(Words)
    PROVE  WordsTell(text) \in Seq(Telling)
    BY WordsTold, JoinedTyped

LEMMA NoWords == WordsTell(<<>>) = <<>>
    <1>1. <<>> \in Seq(Words)
        BY EmptySeq
    <1> QED
        BY <1>1, WordsTold, JoinedEmpty

\* One word.
LEMMA WordTold ==
    ASSUME NEW w \in Words
    PROVE  WordsTell(<<w>>) = IF w.id = 0 THEN <<>> ELSE Tells("text", w.id, w.word)
    <1>1. <<w>> \in Seq(Words)
        BY SingleList
    <1>2. Joined(TellsOfWord, <<w>>) = TellsOfWord[w]
        BY WordsTold, JoinedOne
    <1>3. TellsOfWord[w] = IF w.id = 0 THEN <<>> ELSE Tells("text", w.id, w.word)
        BY DEF TellsOfWord
    <1> QED
        BY <1>1, <1>2, <1>3, WordsTold

-----------------------------------------------------------------------------
(* Items as words. *)

WordsOfItem == [item \in ItemForm |->
                   CASE item.type = "text"      -> <<Word(item)>>
                     [] item.type = "image_url" -> <<ImageMark(item)>>
                     [] OTHER                   -> <<>>]

LEMMA ItemWords ==
    ASSUME NEW item \in ItemForm
    PROVE  /\ item.type \in ItemTypes /\ item.src \in Sources /\ item.fmt \in Formats
           /\ item.id \in Nat /\ item.id # 0
           /\ Word(item) \in Words /\ ImageMark(item) \in Words
           /\ Word(item).id = item.id /\ Word(item).word = "text"
           /\ ImageMark(item).id = item.id /\ ImageMark(item).word = "[image]"
    BY DEF ItemForm, Word, ImageMark, Words

LEMMA ItemsSpelt ==
    /\ Lists(WordsOfItem, ItemForm, Words)
    /\ \A content \in Seq(ItemForm) : ContentToText(content) = Joined(WordsOfItem, content)
    <1>1. ASSUME NEW item \in ItemForm PROVE WordsOfItem[item] \in Seq(Words)
        <2>1. <<Word(item)>> \in Seq(Words) /\ <<ImageMark(item)>> \in Seq(Words)
            BY ItemWords, SingleList
        <2>2. <<>> \in Seq(Words)
            BY EmptySeq
        <2> QED
            BY <2>1, <2>2 DEF WordsOfItem
    <1>2. ASSUME NEW content \in Seq(ItemForm)
          PROVE  ContentToText(content) = Joined(WordsOfItem, content)
        <2>1. \A i \in DOMAIN content : content[i] \in ItemForm
            BY LenProperties, ElementOfSeq
        <2>2. Images(WordsOfItem, content) =
                 [i \in DOMAIN content |-> CASE content[i].type = "text"      -> <<Word(content[i])>>
                                             [] content[i].type = "image_url" -> <<ImageMark(content[i])>>
                                             [] OTHER                   -> <<>>]
            BY <2>1 DEF WordsOfItem, Images
        <2> QED
            BY <2>2 DEF ContentToText, Each, Joined
    <1> QED
        BY <1>1, <1>2 DEF WordsOfItem, Lists

LEMMA AnswerItem ==
    ASSUME NEW item \in AnswerItems
    PROVE  item \in ItemForm /\ (item.type = "text" \/ item.type = "image_url")
    BY DEF AnswerItems

ItemsSay(p, m, content) == Each(LAMBDA item : ItemTells(p, m, item), content)

\* The words of a text with pictures tell what the items tell.
LEMMA ItemsTold ==
    ASSUME NEW p, NEW m, NEW S, S \subseteq AnswerItems,
           m.role = "tool" \/ S \subseteq TextItems, NEW content \in Seq(S)
    PROVE  /\ content \in Seq(ItemForm) /\ ContentToText(content) \in Seq(Words)
           /\ WordsTell(ContentToText(content)) = ItemsSay(p, m, content)
    <1> DEFINE tells == [item \in S |-> ItemTells(p, m, item)]
               words == [item \in S |-> WordsOfItem[item]]
    <1>1. S \subseteq ItemForm /\ \A item \in S : item.type = "text" \/ (m.role = "tool" /\ item.type = "image_url")
        <2>1. ASSUME NEW item \in S
              PROVE  item \in ItemForm /\ (item.type = "text" \/ (m.role = "tool" /\ item.type = "image_url"))
            <3>1. item \in AnswerItems
                OBVIOUS
            <3>2. item \in ItemForm /\ (item.type = "text" \/ item.type = "image_url")
                BY <3>1, AnswerItem
            <3>3. S \subseteq TextItems => item.type = "text"
                BY DEF TextItems
            <3>4. CASE m.role = "tool"
                BY <3>2, <3>4
            <3>5. CASE S \subseteq TextItems
                BY <3>2, <3>3, <3>5
            <3> QED
                BY <3>4, <3>5
        <2> QED
            BY <2>1
    <1>2. content \in Seq(ItemForm)
        BY <1>1, SeqInSeq
    <1>3. Lists(words, S, Words)
        BY <1>1, ItemsSpelt DEF Lists
    <1>4. ASSUME NEW item \in S
          PROVE  tells[item] = Joined(TellsOfWord, words[item]) /\ tells[item] \in Seq(Telling)
        <2>1. /\ item \in ItemForm /\ Word(item) \in Words /\ ImageMark(item) \in Words
              /\ item.id \in Nat /\ item.id # 0
              /\ Word(item).id = item.id /\ Word(item).word = "text"
              /\ ImageMark(item).id = item.id /\ ImageMark(item).word = "[image]"
            BY <1>1, ItemWords
        <2>2. CASE item.type = "text"
            <3>1. words[item] = <<Word(item)>> /\ tells[item] = Tells("text", item.id, "text")
                BY <2>1, <2>2 DEF WordsOfItem, ItemTells
            <3>2. WordsTell(<<Word(item)>>) = Tells("text", item.id, "text")
                BY <2>1, WordTold
            <3>3. <<Word(item)>> \in Seq(Words)
                BY <2>1, SingleList
            <3> QED
                BY <2>1, <3>1, <3>2, <3>3, WordsTold, TextTold
        <2>3. CASE item.type = "image_url" /\ m.role = "tool"
            <3>1. words[item] = <<ImageMark(item)>> /\ tells[item] = Tells("text", item.id, "[image]")
                BY <2>1, <2>3 DEF WordsOfItem, ItemTells
            <3>2. WordsTell(<<ImageMark(item)>>) = Tells("text", item.id, "[image]")
                BY <2>1, WordTold
            <3>3. <<ImageMark(item)>> \in Seq(Words)
                BY <2>1, SingleList
            <3> QED
                BY <2>1, <3>1, <3>2, <3>3, WordsTold, TextTold
        <2> QED
            BY <1>1, <2>2, <2>3
    <1>5. Lists(tells, S, Telling)
        BY <1>4 DEF Lists
    <1>6. ItemsSay(p, m, content) = Joined(tells, content)
        <2>1. \A i \in DOMAIN content : content[i] \in S
            BY LenProperties, ElementOfSeq
        <2>2. Images(tells, content) = [i \in DOMAIN content |-> ItemTells(p, m, content[i])]
            BY <2>1 DEF Images
        <2> QED
            BY <2>2 DEF ItemsSay, Each, Joined
    <1>7. ContentToText(content) = Joined(words, content)
        <2>1. \A item \in S : words[item] = WordsOfItem[item]
            OBVIOUS
        <2> HIDE DEF words
        <2>2. Joined(words, content) = Joined(WordsOfItem, content)
            BY <2>1, JoinedAlike
        <2> QED
            BY <1>2, <2>2, ItemsSpelt
    <1> HIDE DEF tells, words
    <1>8. Joined(words, content) \in Seq(Words)
        BY <1>3, JoinedTyped
    <1>9. Joined(TellsOfWord, Joined(words, content)) = Joined(tells, content)
        <2>2. \A item \in S : tells[item] = Joined(TellsOfWord, words[item])
            BY <1>4 DEF tells, words
        <2>3. After(tells, TellsOfWord, words, S)
            BY <2>2 DEF After
        <2> QED
            BY <1>3, <1>5, <2>3, WordsTold, JoinedTwice
    <1> QED
        BY <1>2, <1>6, <1>7, <1>8, <1>9, WordsTold

-----------------------------------------------------------------------------
(* Blocks and turns of Anthropic's form. *)

Turns == [role : {"user", "assistant"}, content : Seq(Blocks)]

LEMMA TextBlockTells ==
    ASSUME NEW text \in Seq(Words)
    PROVE  LET b == TextBlock(text)
           IN  b \in Blocks /\ b.type = "text" /\ BlockTells(b) = WordsTell(text)
    <1>1. PICK b : b = TextBlock(text)
        OBVIOUS
    <1>2. b \in TextBlocks /\ b.type = "text" /\ b.text = text
        BY <1>1 DEF TextBlock, TextBlocks
    <1>3. BlockTells(b) = WordsTell(text)
        BY <1>2 DEF BlockTells
    <1> QED
        BY <1>1, <1>2, <1>3 DEF Blocks

LEMMA ImageBlockTells ==
    ASSUME NEW b \in ImageBlocks
    PROVE  b \in Blocks /\ b.type = "image" /\ BlockTells(b) = Tells("media", b.id, "image")
    BY DEF BlockTells, Blocks, ImageBlocks

LEMMA UseBlockTells ==
    ASSUME NEW use \in CallForm
    PROVE  LET b == ToolUse(use)
           IN  /\ b \in Blocks /\ b.type = "tool_use" /\ b.id = use.id
               /\ BlockTells(b) = Tells("call", use.id, use.name)
                                  \o Tells("args", 0, ParseJsonObject(use.args))
    <1>1. PICK b : b = ToolUse(use)
        OBVIOUS
    <1>2. use.id \in CallId /\ use.name \in ToolName /\ ParseJsonObject(use.args) \in Inputs
        BY DEF CallForm, ParseJsonObject, Inputs
    <1>3. /\ b \in UseBlocks /\ b.type = "tool_use" /\ b.id = use.id /\ b.name = use.name
          /\ b.input = ParseJsonObject(use.args)
        BY <1>1, <1>2 DEF ToolUse, UseBlocks
    <1>4. BlockTells(b) = Tells("call", use.id, use.name)
                          \o Tells("args", 0, ParseJsonObject(use.args))
        BY <1>3 DEF BlockTells
    <1> QED
        BY <1>1, <1>3, <1>4 DEF Blocks

ResultBlock(id, text) == [type |-> "tool_result", tool_use_id |-> id, content |-> text]

LEMMA ResultBlockTells ==
    ASSUME NEW id \in CallId, NEW text \in Seq(Words)
    PROVE  LET b == ResultBlock(id, text)
           IN  /\ b \in Blocks /\ b.type = "tool_result" /\ b.tool_use_id = id
               /\ BlockTells(b) = Tells("answer", id, None) \o WordsTell(text)
    <1>1. PICK b : b = ResultBlock(id, text)
        OBVIOUS
    <1>2. b \in ResultBlocks /\ b.type = "tool_result" /\ b.tool_use_id = id /\ b.content = text
        BY <1>1 DEF ResultBlock, ResultBlocks
    <1>3. BlockTells(b) = Tells("answer", id, None) \o WordsTell(text)
        BY <1>2 DEF BlockTells
    <1> QED
        BY <1>1, <1>2, <1>3 DEF Blocks

TellsOfBlock == [b \in Blocks |-> BlockTells(b)]

LEMMA BlocksTell == Lists(TellsOfBlock, Blocks, Telling)
    <1>1. ASSUME NEW b \in Blocks PROVE BlockTells(b) \in Seq(Telling)
        <2>1. CASE b \in TextBlocks
            <3>1. b.type = "text" /\ b.text \in Seq(Words)
                BY <2>1 DEF TextBlocks
            <3>2. BlockTells(b) = WordsTell(b.text)
                BY <3>1 DEF BlockTells
            <3> QED
                BY <3>1, <3>2, WordsTyped
        <2>2. CASE b \in ImageBlocks
            <3>1. BlockTells(b) = Tells("media", b.id, "image") /\ b.id \in Nat
                BY <2>2, ImageBlockTells DEF ImageBlocks
            <3>2. "image" \in Mimes
                BY DEF Mimes
            <3> QED
                BY <3>1, <3>2, MediaTold
        <2>3. CASE b \in UseBlocks
            <3>1. b.type = "tool_use" /\ b.id \in Ids /\ b.name \in ToolName /\ b.input \in Inputs
                BY <2>3 DEF UseBlocks, Ids
            <3>2. BlockTells(b) = Tells("call", b.id, b.name) \o Tells("args", 0, b.input)
                BY <3>1 DEF BlockTells
            <3> QED
                BY <3>1, <3>2, UseTold
        <2>4. CASE b \in ResultBlocks
            <3>1. b.type = "tool_result" /\ b.tool_use_id \in Ids /\ b.content \in Seq(Words)
                BY <2>4 DEF ResultBlocks, Ids
            <3>2. BlockTells(b) = Tells("answer", b.tool_use_id, None) \o WordsTell(b.content)
                BY <3>1 DEF BlockTells
            <3>3. Tells("answer", b.tool_use_id, None) \in Seq(Telling)
                BY <3>1, AnswerTold
            <3> QED
                BY <3>1, <3>2, <3>3, WordsTyped, ConcatProperties
        <2> QED
            BY <2>1, <2>2, <2>3, <2>4 DEF Blocks
    <1> QED
        BY <1>1 DEF TellsOfBlock, Lists

LEMMA BlockAlone ==
    ASSUME NEW b \in Blocks
    PROVE  /\ <<b>> \in Seq(Blocks) /\ Joined(TellsOfBlock, <<b>>) = BlockTells(b)
    <1>1. Joined(TellsOfBlock, <<b>>) = TellsOfBlock[b]
        BY BlocksTell, JoinedOne
    <1> QED
        BY <1>1, SingleList DEF TellsOfBlock

TellsOfTurn == [t \in Turns |-> Joined(TellsOfBlock, t.content)]

TurnsTell(turns) == Each(LAMBDA t : Each(BlockTells, t.content), turns)

LEMMA TurnsTold ==
    /\ Lists(TellsOfTurn, Turns, Telling)
    /\ \A turns \in Seq(Turns) : TurnsTell(turns) = Joined(TellsOfTurn, turns)
    <1>1. ASSUME NEW t \in Turns PROVE Joined(TellsOfBlock, t.content) \in Seq(Telling)
        <2>1. t.content \in Seq(Blocks)
            BY DEF Turns
        <2> QED
            BY <2>1, BlocksTell, JoinedTyped
    <1>2. ASSUME NEW turns \in Seq(Turns)
          PROVE  TurnsTell(turns) = Joined(TellsOfTurn, turns)
        <2>1. ASSUME NEW i \in DOMAIN turns
              PROVE  Each(BlockTells, turns[i].content) = TellsOfTurn[turns[i]]
            <3>1. turns[i] \in Turns
                BY LenProperties, ElementOfSeq
            <3>2. turns[i].content \in Seq(Blocks)
                BY <3>1 DEF Turns
            <3>3. \A j \in DOMAIN turns[i].content : turns[i].content[j] \in Blocks
                BY <3>2, LenProperties, ElementOfSeq
            <3>4. Images(TellsOfBlock, turns[i].content) =
                     [j \in DOMAIN turns[i].content |-> BlockTells(turns[i].content[j])]
                BY <3>3 DEF TellsOfBlock, Images
            <3> QED
                BY <3>1, <3>4 DEF TellsOfTurn, Each, Joined
        <2>2. Images(TellsOfTurn, turns) = [i \in DOMAIN turns |-> Each(BlockTells, turns[i].content)]
            BY <2>1 DEF Images
        <2> QED
            BY <2>2 DEF TurnsTell, Each, Joined
    <1> QED
        BY <1>1, <1>2 DEF TellsOfTurn, Lists

-----------------------------------------------------------------------------
(* Turns merged and contents told, message by message. *)

LEMMA MergingsStep ==
    ASSUME NEW turns, Len(turns) \in Nat
    PROVE  /\ Mergings(turns)[0] = <<>>
           /\ \A i \in 1..Len(turns) :
                 Mergings(turns)[i] =
                    MergedWith(Mergings(turns)[i - 1], turns[i])
    <1> DEFINE Value(f, i) ==
                  IF i = 0 THEN <<>> ELSE MergedWith(f[i - 1], turns[i])
               Runs(f, n) == f = [i \in 0..n |-> Value(f, i)]
               T == {n \in Nat : ~\E f : Runs(f, n)}
    <1>1. T = {}
        <2> SUFFICES ASSUME T # {} PROVE FALSE
            OBVIOUS
        <2>1. PICK n \in T : \A k \in T : n <= k
            <3>1. T \subseteq Nat
                OBVIOUS
            <3> HIDE DEF T
            <3> QED
                BY <3>1, LeastNumber
        <2>2. n # 0
            <3> DEFINE f == [i \in 0..0 |-> <<>>]
            <3>1. f = [i \in 0..0 |-> Value(f, i)]
                OBVIOUS
            <3> HIDE DEF f
            <3>2. Runs(f, 0)
                BY <3>1
            <3> QED
                BY <3>2
        <2>3. n \in Nat /\ n - 1 \in Nat /\ ~(n <= n - 1)
            BY <2>2
        <2>4. PICK f : Runs(f, n - 1)
            BY <2>1, <2>3
        <2> DEFINE g == [i \in 0..n |-> IF i = n THEN MergedWith(f[n - 1], turns[n]) ELSE f[i]]
        <2>5. \A i \in 0..n - 1 : f[i] = Value(f, i)
            BY <2>4
        <2>6. g = [i \in 0..n |-> Value(g, i)]
            BY <2>3, <2>5
        <2> HIDE DEF g
        <2>7. Runs(g, n)
            BY <2>6
        <2> QED
            BY <2>7
    <1>2. \E f : Runs(f, Len(turns))
        BY <1>1
    <1>3. Mergings(turns) = CHOOSE f : Runs(f, Len(turns))
        BY DEF Mergings
    <1> HIDE DEF Runs
    <1>4. Runs(Mergings(turns), Len(turns))
        BY <1>2, <1>3
    <1> DEFINE r == Mergings(turns)
    <1>5. r = [i \in 0..Len(turns) |-> Value(r, i)]
        BY <1>4 DEF Runs
    <1> HIDE DEF r
    <1>6. /\ r[0] = <<>>
          /\ \A i \in 1..Len(turns) : r[i] = MergedWith(r[i - 1], turns[i])
        BY <1>5
    <1> QED
        BY <1>6 DEF r

LEMMA MergingsAlike ==
    ASSUME NEW turns, NEW more, Len(turns) \in Nat, Len(more) \in Nat, NEW n \in Nat,
           n <= Len(turns), n <= Len(more), \A i \in 1..n : turns[i] = more[i]
    PROVE  \A i \in 0..n : Mergings(turns)[i] = Mergings(more)[i]
    <1> DEFINE T == {i \in 0..n : Mergings(turns)[i] # Mergings(more)[i]}
    <1> SUFFICES ASSUME T # {} PROVE FALSE
        OBVIOUS
    <1>1. PICK m \in T : \A k \in T : m <= k
        <2>1. T \subseteq Nat
            OBVIOUS
        <2> HIDE DEF T
        <2> QED
            BY <2>1, LeastNumber
    <1>2. /\ Mergings(turns)[0] = <<>> /\ Mergings(more)[0] = <<>>
          /\ \A i \in 1..Len(turns) : Mergings(turns)[i] = MergedWith(Mergings(turns)[i - 1], turns[i])
        BY MergingsStep
    <1>3. \A i \in 1..Len(more) : Mergings(more)[i] = MergedWith(Mergings(more)[i - 1], more[i])
        BY MergingsStep
    <1>4. m # 0
        BY <1>2
    <1>5. /\ m \in 1..n /\ m \in 1..Len(turns) /\ m \in 1..Len(more)
          /\ m - 1 \in 0..n /\ ~(m <= m - 1)
        BY <1>4
    <1>6. Mergings(turns)[m - 1] = Mergings(more)[m - 1]
        BY <1>1, <1>5
    <1>7. turns[m] = more[m]
        BY <1>5
    <1> QED
        BY <1>2, <1>3, <1>5, <1>6, <1>7

NoneTold == [names |-> [id \in CallId |-> "function"], contents |-> <<>>]

LEMMA ContentsStep ==
    ASSUME NEW ms, Len(ms) \in Nat
    PROVE  /\ ContentsTold(ms)[0] = NoneTold
           /\ \A i \in 1..Len(ms) :
                 ContentsTold(ms)[i] =
                    AfterMessage(ContentsTold(ms)[i - 1], ms[i])
    <1> DEFINE Value(f, i) ==
                  IF i = 0 THEN NoneTold ELSE AfterMessage(f[i - 1], ms[i])
               Runs(f, n) == f = [i \in 0..n |-> Value(f, i)]
               T == {n \in Nat : ~\E f : Runs(f, n)}
    <1>1. T = {}
        <2> SUFFICES ASSUME T # {} PROVE FALSE
            OBVIOUS
        <2>1. PICK n \in T : \A k \in T : n <= k
            <3>1. T \subseteq Nat
                OBVIOUS
            <3> HIDE DEF T
            <3> QED
                BY <3>1, LeastNumber
        <2>2. n # 0
            <3> DEFINE f == [i \in 0..0 |-> NoneTold]
            <3>1. f = [i \in 0..0 |-> Value(f, i)]
                OBVIOUS
            <3> HIDE DEF f
            <3>2. Runs(f, 0)
                BY <3>1
            <3> QED
                BY <3>2
        <2>3. n \in Nat /\ n - 1 \in Nat /\ ~(n <= n - 1)
            BY <2>2
        <2>4. PICK f : Runs(f, n - 1)
            BY <2>1, <2>3
        <2> DEFINE g == [i \in 0..n |-> IF i = n THEN AfterMessage(f[n - 1], ms[n]) ELSE f[i]]
        <2>5. \A i \in 0..n - 1 : f[i] = Value(f, i)
            BY <2>4
        <2>6. g = [i \in 0..n |-> Value(g, i)]
            BY <2>3, <2>5
        <2> HIDE DEF g
        <2>7. Runs(g, n)
            BY <2>6
        <2> QED
            BY <2>7
    <1>2. \E f : Runs(f, Len(ms))
        BY <1>1
    <1>3. ContentsTold(ms) = CHOOSE f : Runs(f, Len(ms))
        BY DEF ContentsTold, NoneTold
    <1> HIDE DEF Runs
    <1>4. Runs(ContentsTold(ms), Len(ms))
        BY <1>2, <1>3
    <1> DEFINE r == ContentsTold(ms)
    <1>5. r = [i \in 0..Len(ms) |-> Value(r, i)]
        BY <1>4 DEF Runs
    <1> HIDE DEF r
    <1>6. /\ r[0] = NoneTold
          /\ \A i \in 1..Len(ms) : r[i] = AfterMessage(r[i - 1], ms[i])
        BY <1>5
    <1> QED
        BY <1>6 DEF r

LEMMA ContentsAlike ==
    ASSUME NEW ms, NEW more, Len(ms) \in Nat, Len(more) \in Nat, NEW n \in Nat,
           n <= Len(ms), n <= Len(more), \A i \in 1..n : ms[i] = more[i]
    PROVE  \A i \in 0..n : ContentsTold(ms)[i] = ContentsTold(more)[i]
    <1> DEFINE T == {i \in 0..n : ContentsTold(ms)[i] # ContentsTold(more)[i]}
    <1> SUFFICES ASSUME T # {} PROVE FALSE
        OBVIOUS
    <1>1. PICK m \in T : \A k \in T : m <= k
        <2>1. T \subseteq Nat
            OBVIOUS
        <2> HIDE DEF T
        <2> QED
            BY <2>1, LeastNumber
    <1>2. /\ ContentsTold(ms)[0] = NoneTold /\ ContentsTold(more)[0] = NoneTold
          /\ \A i \in 1..Len(ms) : ContentsTold(ms)[i] = AfterMessage(ContentsTold(ms)[i - 1], ms[i])
        BY ContentsStep
    <1>3. \A i \in 1..Len(more) : ContentsTold(more)[i] = AfterMessage(ContentsTold(more)[i - 1], more[i])
        BY ContentsStep
    <1>4. m # 0
        BY <1>2
    <1>5. /\ m \in 1..n /\ m \in 1..Len(ms) /\ m \in 1..Len(more)
          /\ m - 1 \in 0..n /\ ~(m <= m - 1)
        BY <1>4
    <1>6. ContentsTold(ms)[m - 1] = ContentsTold(more)[m - 1]
        BY <1>1, <1>5
    <1>7. ms[m] = more[m]
        BY <1>5
    <1> QED
        BY <1>2, <1>3, <1>5, <1>6, <1>7

\* One turn more.
LEMMA MergeNext ==
    ASSUME NEW S, NEW s \in Seq(S), NEW t \in S
    PROVE  MergeAdjacent(Append(s, t)) = MergedWith(MergeAdjacent(s), t)
    <1>1. PICK u, n : u = Append(s, t) /\ n = Len(s)
        OBVIOUS
    <1>2. /\ n \in Nat /\ Len(u) = n + 1 /\ u[n + 1] = t /\ \A i \in 1..n : u[i] = s[i]
        BY <1>1, AppendProperties, LenProperties
    <1>3. Len(u) \in Nat /\ Len(s) \in Nat /\ n <= Len(u) /\ n <= Len(s)
        BY <1>1, <1>2
    <1>4. \A i \in 0..n : Mergings(u)[i] = Mergings(s)[i]
        BY <1>2, <1>3, MergingsAlike
    <1>5. \A i \in 1..Len(u) : Mergings(u)[i] = MergedWith(Mergings(u)[i - 1], u[i])
        BY <1>3, MergingsStep
    <1>6. n + 1 \in 1..Len(u) /\ n \in 0..n /\ (n + 1) - 1 = n
        BY <1>2
    <1>7. Mergings(u)[n + 1] = MergedWith(Mergings(s)[n], t)
        BY <1>2, <1>4, <1>5, <1>6
    <1> QED
        BY <1>1, <1>2, <1>7 DEF MergeAdjacent

LEMMA MergeNone == MergeAdjacent(<<>>) = <<>>
    <1>1. PICK s : s = <<>>
        OBVIOUS
    <1>2. Len(s) = 0
        BY <1>1
    <1>3. Mergings(s)[0] = <<>>
        BY <1>2, MergingsStep
    <1>4. MergeAdjacent(s) = <<>>
        BY <1>2, <1>3 DEF MergeAdjacent
    <1> QED
        BY ONLY <1>1, <1>4

\* One message more.
ToldAfter(ms) == ContentsTold(ms)[Len(ms)]

LEMMA ContentsNext ==
    ASSUME NEW S, NEW s \in Seq(S), NEW m \in S
    PROVE  ToldAfter(Append(s, m)) = AfterMessage(ToldAfter(s), m)
    <1>1. PICK u, n : u = Append(s, m) /\ n = Len(s)
        OBVIOUS
    <1>2. /\ n \in Nat /\ Len(u) = n + 1 /\ u[n + 1] = m /\ \A i \in 1..n : u[i] = s[i]
        BY <1>1, AppendProperties, LenProperties
    <1>3. Len(u) \in Nat /\ Len(s) \in Nat /\ n <= Len(u) /\ n <= Len(s)
        BY <1>1, <1>2
    <1>4. \A i \in 0..n : ContentsTold(u)[i] = ContentsTold(s)[i]
        BY <1>2, <1>3, ContentsAlike
    <1>5. \A i \in 1..Len(u) : ContentsTold(u)[i] = AfterMessage(ContentsTold(u)[i - 1], u[i])
        BY <1>3, ContentsStep
    <1>6. n + 1 \in 1..Len(u) /\ n \in 0..n /\ (n + 1) - 1 = n
        BY <1>2
    <1>7. ContentsTold(u)[n + 1] = AfterMessage(ContentsTold(s)[n], m)
        BY <1>2, <1>4, <1>5, <1>6
    <1> QED
        BY <1>1, <1>2, <1>7 DEF ToldAfter

LEMMA ContentsNone == ToldAfter(<<>>) = NoneTold
    <1>1. PICK s : s = <<>>
        OBVIOUS
    <1>2. Len(s) = 0
        BY <1>1
    <1>3. ContentsTold(s)[0] = NoneTold
        BY <1>2, ContentsStep
    <1>4. ToldAfter(s) = NoneTold
        BY <1>2, <1>3 DEF ToldAfter
    <1> QED
        BY ONLY <1>1, <1>4

-----------------------------------------------------------------------------
(* A turn merged with those before it. *)

TwoTurns(u, t) == [role |-> u.role, content |-> u.content \o t.content]

LEMMA TwoTurnsTyped ==
    ASSUME NEW u \in Turns, NEW t \in Turns
    PROVE  /\ u.role \in {"user", "assistant"} /\ u.content \in Seq(Blocks)
           /\ TwoTurns(u, t) \in Turns /\ TwoTurns(u, t).role = u.role
           /\ TwoTurns(u, t).content = u.content \o t.content
    <1>1. u.role \in {"user", "assistant"} /\ u.content \in Seq(Blocks) /\ t.content \in Seq(Blocks)
        BY DEF Turns
    <1>2. u.content \o t.content \in Seq(Blocks)
        BY <1>1, ConcatProperties
    <1> QED
        BY <1>1, <1>2 DEF TwoTurns, Turns

LEMMA MergedOne ==
    ASSUME NEW t \in Turns
    PROVE  MergedWith(<<>>, t) = <<t>>
    <1>1. PICK s : s = <<>>
        OBVIOUS
    <1>2. MergedWith(s, t) = Append(s, t)
        BY <1>1 DEF MergedWith
    <1>3. MergedWith(s, t) = <<t>>
        BY <1>1, <1>2
    <1> QED
        BY ONLY <1>1, <1>3

LEMMA MergedMore ==
    ASSUME NEW s \in Seq(Turns), NEW u \in Turns, NEW t \in Turns
    PROVE  MergedWith(Append(s, u), t) = IF u.role = t.role THEN Append(s, TwoTurns(u, t))
                                         ELSE Append(Append(s, u), t)
    <1>1. PICK m : m = Append(s, u)
        OBVIOUS
    <1>2. Front(m) = s /\ Last(m) = u /\ m # <<>>
        BY <1>1, FrontLast
    <1>3. [t EXCEPT !.content = u.content \o t.content] =
             [role |-> t.role, content |-> u.content \o t.content]
        <2>1. PICK c : c = u.content \o t.content
            OBVIOUS
        <2>2. t = [role |-> t.role, content |-> t.content]
            BY DEF Turns
        <2>3. [t EXCEPT !.content = c] = [role |-> t.role, content |-> c]
            BY <2>2
        <2> QED
            BY <2>1, <2>3
    <1>4. CASE u.role = t.role
        <2>1. MergedWith(m, t) = Append(s, [t EXCEPT !.content = u.content \o t.content])
            BY <1>2, <1>4 DEF MergedWith
        <2> QED
            BY <1>1, <1>3, <1>4, <2>1 DEF TwoTurns
    <1>5. CASE u.role # t.role
        <2>1. MergedWith(m, t) = Append(m, t)
            BY <1>2, <1>5 DEF MergedWith
        <2> QED
            BY <1>1, <1>5, <2>1
    <1> QED
        BY <1>4, <1>5

LEMMA MergedTells ==
    ASSUME NEW s \in Seq(Turns), NEW t \in Turns
    PROVE  /\ MergedWith(s, t) \in Seq(Turns)
           /\ Joined(TellsOfTurn, MergedWith(s, t)) = Joined(TellsOfTurn, s) \o TellsOfTurn[t]
    <1>1. CASE s = <<>>
        <2>1. MergedWith(s, t) = Append(s, t)
            BY <1>1, MergedOne
        <2> QED
            BY <2>1, TurnsTold, JoinedAppend, AppendProperties
    <1>2. CASE s # <<>>
        <2>1. PICK r \in Seq(Turns), u \in Turns : s = Append(r, u)
            BY <1>2, SequenceEmptyOrAppend
        <2>2. CASE u.role = t.role
            <3>1. MergedWith(s, t) = Append(r, TwoTurns(u, t))
                BY <2>1, <2>2, MergedMore
            <3>2. TwoTurns(u, t) \in Turns /\ TwoTurns(u, t).content = u.content \o t.content
                BY TwoTurnsTyped
            <3>3. u.content \in Seq(Blocks) /\ t.content \in Seq(Blocks)
                BY DEF Turns
            <3>4. Joined(TellsOfBlock, u.content \o t.content) =
                     Joined(TellsOfBlock, u.content) \o Joined(TellsOfBlock, t.content)
                BY <3>3, BlocksTell, JoinedBoth
            <3>5. TellsOfTurn[TwoTurns(u, t)] = TellsOfTurn[u] \o TellsOfTurn[t]
                BY <3>2, <3>4 DEF TellsOfTurn
            <3>6. Joined(TellsOfTurn, Append(r, TwoTurns(u, t))) =
                     Joined(TellsOfTurn, r) \o (TellsOfTurn[u] \o TellsOfTurn[t])
                <4>1. PICK w \in Turns : w = TwoTurns(u, t)
                    BY <3>2
                <4>2. Joined(TellsOfTurn, Append(r, w)) = Joined(TellsOfTurn, r) \o TellsOfTurn[w]
                    BY TurnsTold, JoinedAppend
                <4> QED
                    BY <3>5, <4>1, <4>2
            <3>7. Joined(TellsOfTurn, s) = Joined(TellsOfTurn, r) \o TellsOfTurn[u]
                BY <2>1, TurnsTold, JoinedAppend
            <3>8. PICK a, b, c : a = Joined(TellsOfTurn, r) /\ b = TellsOfTurn[u] /\ c = TellsOfTurn[t]
                OBVIOUS
            <3>9. a \in Seq(Telling) /\ b \in Seq(Telling) /\ c \in Seq(Telling)
                <4>1. Joined(TellsOfTurn, r) \in Seq(Telling)
                    BY TurnsTold, JoinedTyped
                <4>2. TellsOfTurn[u] \in Seq(Telling) /\ TellsOfTurn[t] \in Seq(Telling)
                    BY TurnsTold DEF Lists
                <4> QED
                    BY <3>8, <4>1, <4>2
            <3>10. (a \o b) \o c = a \o (b \o c)
                BY ONLY <3>9, ConcatAssociative
            <3>11. Append(r, TwoTurns(u, t)) \in Seq(Turns)
                BY <3>2, AppendProperties
            <3> QED
                BY <3>1, <3>6, <3>7, <3>8, <3>10, <3>11
        <2>3. CASE u.role # t.role
            <3>1. MergedWith(s, t) = Append(s, t)
                BY <2>1, <2>3, MergedMore
            <3> QED
                BY <3>1, TurnsTold, JoinedAppend, AppendProperties
        <2> QED
            BY <2>2, <2>3
    <1> QED
        BY <1>1, <1>2

\* Merging turns loses nothing of what they tell.
LEMMA MergeTells ==
    ASSUME NEW r \in Seq(Turns)
    PROVE  /\ MergeAdjacent(r) \in Seq(Turns)
           /\ Joined(TellsOfTurn, MergeAdjacent(r)) = Joined(TellsOfTurn, r)
    <1> DEFINE P == {s \in Seq(Turns) :
                        /\ MergeAdjacent(s) \in Seq(Turns)
                        /\ Joined(TellsOfTurn, MergeAdjacent(s)) = Joined(TellsOfTurn, s)}
    <1>1. <<>> \in P
        BY MergeNone, JoinedEmpty, EmptySeq
    <1>2. ASSUME NEW s \in P, NEW t \in Turns PROVE Append(s, t) \in P
        <2>1. Append(s, t) \in Seq(Turns)
            BY AppendProperties
        <2>2. MergeAdjacent(Append(s, t)) = MergedWith(MergeAdjacent(s), t)
            BY MergeNext
        <2>3. Joined(TellsOfTurn, MergedWith(MergeAdjacent(s), t)) =
                 Joined(TellsOfTurn, MergeAdjacent(s)) \o TellsOfTurn[t]
            BY MergedTells
        <2>4. MergedWith(MergeAdjacent(s), t) \in Seq(Turns)
            BY MergedTells
        <2>5. Joined(TellsOfTurn, Append(s, t)) = Joined(TellsOfTurn, s) \o TellsOfTurn[t]
            BY TurnsTold, JoinedAppend
        <2> QED
            BY <2>1, <2>2, <2>3, <2>4, <2>5
    <1> HIDE DEF P
    <1>3. Seq(Turns) \subseteq P
        BY <1>1, <1>2, ListInduction
    <1> QED
        BY <1>3 DEF P

-----------------------------------------------------------------------------
(* Blocks of a kind. *)

Picked(type) == [b \in Blocks |-> IF b.type = type THEN <<b>> ELSE <<>>]

LEMMA KindsPicked ==
    ASSUME NEW type
    PROVE  /\ Lists(Picked(type), Blocks, Blocks)
           /\ \A content \in Seq(Blocks) : Kinds(content, type) = Joined(Picked(type), content)
    <1>1. ASSUME NEW b \in Blocks PROVE Picked(type)[b] \in Seq(Blocks)
        <2>1. <<b>> \in Seq(Blocks) /\ <<>> \in Seq(Blocks)
            BY SingleList, EmptySeq
        <2> QED
            BY <2>1 DEF Picked
    <1>2. ASSUME NEW content \in Seq(Blocks)
          PROVE  Kinds(content, type) = Joined(Picked(type), content)
        <2>1. \A i \in DOMAIN content : content[i] \in Blocks
            BY LenProperties, ElementOfSeq
        <2>2. Images(Picked(type), content) =
                 [i \in DOMAIN content |-> IF content[i].type = type THEN <<content[i]>> ELSE <<>>]
            BY <2>1 DEF Picked, Images
        <2> QED
            BY <2>2 DEF Kinds, Each, Joined
    <1> QED
        BY <1>1, <1>2 DEF Picked, Lists

LEMMA KindsOfBoth ==
    ASSUME NEW type, NEW some \in Seq(Blocks), NEW more \in Seq(Blocks)
    PROVE  Kinds(some \o more, type) = Kinds(some, type) \o Kinds(more, type)
    <1>1. some \o more \in Seq(Blocks)
        BY ConcatProperties
    <1>2. Joined(Picked(type), some \o more) = Joined(Picked(type), some) \o Joined(Picked(type), more)
        BY KindsPicked, JoinedBoth
    <1> QED
        BY <1>1, <1>2, KindsPicked

LEMMA KindsOfNone ==
    ASSUME NEW type
    PROVE  Kinds(<<>>, type) = <<>>
    <1>1. <<>> \in Seq(Blocks)
        BY EmptySeq
    <1> QED
        BY <1>1, KindsPicked, JoinedEmpty

LEMMA KindsOfMore ==
    ASSUME NEW type, NEW some \in Seq(Blocks), NEW b \in Blocks
    PROVE  Kinds(Append(some, b), type) = IF b.type = type THEN Append(Kinds(some, type), b)
                                          ELSE Kinds(some, type)
    <1>1. Append(some, b) \in Seq(Blocks)
        BY AppendProperties
    <1>2. Joined(Picked(type), Append(some, b)) = Joined(Picked(type), some) \o Picked(type)[b]
        BY KindsPicked, JoinedAppend
    <1>3. Joined(Picked(type), some) \in Seq(Blocks)
        BY KindsPicked, JoinedTyped
    <1>4. CASE b.type = type
        <2>1. Picked(type)[b] = <<b>>
            BY <1>4 DEF Picked
        <2>2. Kinds(Append(some, b), type) = Kinds(some, type) \o <<b>> /\ Kinds(some, type) \in Seq(Blocks)
            BY <1>1, <1>2, <1>3, <2>1, KindsPicked
        <2>3. PICK k \in Seq(Blocks) : k = Kinds(some, type)
            BY <2>2
        <2>4. k \o <<b>> = Append(k, b)
            OBVIOUS
        <2> QED
            BY <1>4, <2>2, <2>3, <2>4
    <1>5. CASE b.type # type
        <2>1. Picked(type)[b] = <<>>
            BY <1>5 DEF Picked
        <2>2. Joined(Picked(type), some) \o <<>> = Joined(Picked(type), some)
            BY <1>3, ConcatEmptySeq
        <2> QED
            BY <1>1, <1>2, <1>5, <2>1, <2>2, KindsPicked
    <1> QED
        BY <1>4, <1>5

LEMMA KindsTyped ==
    ASSUME NEW type, NEW content \in Seq(Blocks)
    PROVE  Kinds(content, type) \in Seq(Blocks)
    BY KindsPicked, JoinedTyped

LEMMA KindsOfAll ==
    ASSUME NEW type, NEW S, S \subseteq Blocks, \A b \in S : b.type = type, NEW content \in Seq(S)
    PROVE  Kinds(content, type) = content
    <1> DEFINE P == {s \in Seq(S) : Kinds(s, type) = s}
    <1>1. <<>> \in P
        BY KindsOfNone, EmptySeq
    <1>2. ASSUME NEW s \in P, NEW b \in S PROVE Append(s, b) \in P
        <2>1. s \in Seq(Blocks) /\ b \in Blocks
            BY SeqInSeq
        <2>2. Append(s, b) \in Seq(S)
            BY AppendProperties
        <2>3. Kinds(Append(s, b), type) = Append(Kinds(s, type), b)
            BY <2>1, KindsOfMore
        <2> QED
            BY <2>2, <2>3
    <1> HIDE DEF P
    <1>3. Seq(S) \subseteq P
        BY <1>1, <1>2, ListInduction
    <1> QED
        BY <1>3 DEF P

LEMMA KindsOfOthers ==
    ASSUME NEW type, NEW S, S \subseteq Blocks, \A b \in S : b.type # type, NEW content \in Seq(S)
    PROVE  Kinds(content, type) = <<>>
    <1> DEFINE P == {s \in Seq(S) : Kinds(s, type) = <<>>}
    <1>1. <<>> \in P
        BY KindsOfNone, EmptySeq
    <1>2. ASSUME NEW s \in P, NEW b \in S PROVE Append(s, b) \in P
        <2>1. s \in Seq(Blocks) /\ b \in Blocks
            BY SeqInSeq
        <2>2. Append(s, b) \in Seq(S)
            BY AppendProperties
        <2>3. Kinds(Append(s, b), type) = Kinds(s, type)
            BY <2>1, KindsOfMore
        <2> QED
            BY <2>2, <2>3
    <1> HIDE DEF P
    <1>3. Seq(S) \subseteq P
        BY <1>1, <1>2, ListInduction
    <1> QED
        BY <1>3 DEF P
-----------------------------------------------------------------------------
(* What the parts of a message tell. *)

AnswerTells(p, m) ==
    IF m.role = "tool" THEN Tells("answer", IF p = "gemini" THEN 0 ELSE m.id,
                                  IF p = "gemini" THEN m.name ELSE None)
    ELSE <<>>
ItemsTell(p, m) == ItemsSay(p, m, m.content)
UseTells(p, c) == Tells("call", IF p = "gemini" THEN 0 ELSE c.id, c.name)
                  \o Tells("args", 0, ParseJsonObject(c.args))
TellsOfUse(p) == [c \in CallForm |-> UseTells(p, c)]
UsesTell(p, m) == Joined(TellsOfUse(p), m.calls)

LEMMA UsesTyped ==
    ASSUME NEW p
    PROVE  Lists(TellsOfUse(p), CallForm, Telling)
    <1>1. ASSUME NEW c \in CallForm PROVE UseTells(p, c) \in Seq(Telling)
        <2>1. c.id \in CallId /\ c.name \in ToolName /\ ParseJsonObject(c.args) \in Inputs
            BY DEF CallForm, ParseJsonObject, Inputs
        <2>2. PICK id : id = IF p = "gemini" THEN 0 ELSE c.id
            OBVIOUS
        <2>3. id \in Ids
            BY <2>1, <2>2 DEF Ids
        <2> QED
            BY <2>1, <2>2, <2>3, UseTold DEF UseTells
    <1> QED
        BY <1>1 DEF TellsOfUse, Lists

LEMMA MessageParts ==
    ASSUME NEW p, NEW m, m.calls \in Seq(CallForm)
    PROVE  MessageTells(p, m) =
              IF m.role = "system" /\ p \in {"anthropic", "gemini"} THEN <<>>
              ELSE AnswerTells(p, m) \o ItemsTell(p, m) \o UsesTell(p, m)
    <1>1. \A i \in DOMAIN m.calls : m.calls[i] \in CallForm
        BY LenProperties, ElementOfSeq
    <1>2. Images(TellsOfUse(p), m.calls) = [i \in DOMAIN m.calls |-> UseTells(p, m.calls[i])]
        BY <1>1 DEF Images, TellsOfUse
    <1>3. UsesTell(p, m) = FlattenSeq([i \in DOMAIN m.calls |-> UseTells(p, m.calls[i])])
        BY <1>2 DEF UsesTell, Joined
    <1> QED
        BY <1>3 DEF MessageTells, AnswerTells, ItemsTell, ItemsSay, Each, UseTells

-----------------------------------------------------------------------------
(* A message as a turn. *)

LEMMA MessageFields ==
    ASSUME NEW m \in MessageForm
    PROVE  /\ m.role \in {"system", "user", "assistant", "tool"}
           /\ m.role = "system" => m \in SystemForm
           /\ m.role = "user" => m \in UserForm
           /\ m.role = "assistant" => m \in AssistantForm
           /\ m.role = "tool" => m \in ToolForm
           /\ m.calls \in Seq(CallForm) /\ m.content \in Seq(ItemForm)
    <1>1. TextItems \subseteq ItemForm /\ AnswerItems \subseteq ItemForm
        BY DEF TextItems, AnswerItems
    <1>2. Seq(TextItems) \subseteq Seq(ItemForm) /\ Seq(AnswerItems) \subseteq Seq(ItemForm)
        BY <1>1, SeqInSeq
    <1>3. <<>> \in Seq(CallForm)
        BY EmptySeq
    <1>4. CASE m \in SystemForm
        BY <1>2, <1>3, <1>4 DEF SystemForm
    <1>5. CASE m \in UserForm
        BY <1>2, <1>3, <1>5 DEF UserForm
    <1>6. CASE m \in AssistantForm
        BY <1>2, <1>3, <1>6 DEF AssistantForm
    <1>7. CASE m \in ToolForm
        BY <1>2, <1>3, <1>7 DEF ToolForm
    <1> QED
        BY <1>4, <1>5, <1>6, <1>7 DEF MessageForm

LEMMA ItemsTellTyped ==
    ASSUME NEW p, NEW m \in MessageForm,
           m.role \in {"assistant", "tool"} \/ (m.role = "system" /\ p = "openai")
    PROVE  /\ ContentToText(m.content) \in Seq(Words)
           /\ WordsTell(ContentToText(m.content)) = ItemsTell(p, m)
           /\ ItemsTell(p, m) \in Seq(Telling)
    <1> DEFINE S == IF m.role = "tool" THEN AnswerItems ELSE TextItems
    <1>1. m.content \in Seq(S)
        BY MessageFields DEF SystemForm, AssistantForm, ToolForm
    <1>2. S \subseteq AnswerItems /\ (m.role = "tool" \/ S \subseteq TextItems)
        BY DEF AnswerItems, TextItems
    <1> HIDE DEF S
    <1>3. /\ ContentToText(m.content) \in Seq(Words)
          /\ WordsTell(ContentToText(m.content)) = ItemsSay(p, m, m.content)
        BY <1>1, <1>2, ItemsTold
    <1> QED
        BY <1>3, WordsTyped DEF ItemsTell

\* The calls of an assistant as blocks.
UsesOf(calls) == [i \in DOMAIN calls |-> ToolUse(calls[i])]

LEMMA UsesMade ==
    ASSUME NEW calls \in Seq(CallForm)
    PROVE  /\ UsesOf(calls) \in Seq(UseBlocks) /\ UsesOf(calls) \in Seq(Blocks)
           /\ Len(UsesOf(calls)) = Len(calls)
           /\ \A i \in 1..Len(calls) : UsesOf(calls)[i] = ToolUse(calls[i])
           /\ Joined(TellsOfBlock, UsesOf(calls)) = Joined(TellsOfUse("anthropic"), calls)
    <1>1. Len(calls) \in Nat /\ DOMAIN calls = 1..Len(calls) /\ \A i \in 1..Len(calls) : calls[i] \in CallForm
        BY LenProperties, ElementOfSeq
    <1>2. ASSUME NEW c \in CallForm
          PROVE  ToolUse(c) \in UseBlocks /\ TellsOfBlock[ToolUse(c)] = TellsOfUse("anthropic")[c]
        <2>1. c.id \in CallId /\ c.name \in ToolName /\ ParseJsonObject(c.args) \in Inputs
            BY DEF CallForm, ParseJsonObject, Inputs
        <2>2. ToolUse(c) \in UseBlocks
            BY <2>1 DEF ToolUse, UseBlocks
        <2>3. ToolUse(c) \in Blocks
            BY <2>2 DEF Blocks
        <2>4. BlockTells(ToolUse(c)) = Tells("call", c.id, c.name) \o Tells("args", 0, ParseJsonObject(c.args))
            BY UseBlockTells
        <2> QED
            BY <2>2, <2>3, <2>4 DEF TellsOfBlock, TellsOfUse, UseTells
    <1>3. UsesOf(calls) \in [1..Len(calls) -> UseBlocks] /\ DOMAIN UsesOf(calls) = 1..Len(calls)
        BY <1>1, <1>2 DEF UsesOf
    <1>4. UsesOf(calls) \in Seq(UseBlocks) /\ Len(UsesOf(calls)) = Len(calls)
        BY <1>1, <1>3
    <1>5. \A i \in 1..Len(calls) : UsesOf(calls)[i] = ToolUse(calls[i])
        BY <1>1 DEF UsesOf
    <1>6. \A i \in 1..Len(calls) : TellsOfBlock[UsesOf(calls)[i]] = TellsOfUse("anthropic")[calls[i]]
        BY <1>1, <1>2, <1>5
    <1>7. Images(TellsOfBlock, UsesOf(calls)) = Images(TellsOfUse("anthropic"), calls)
        BY <1>1, <1>3, <1>6 DEF Images
    <1>8. UseBlocks \subseteq Blocks
        BY DEF Blocks
    <1>9. UsesOf(calls) \in Seq(Blocks)
        BY <1>4, <1>8, SeqInSeq
    <1> QED
        BY <1>4, <1>5, <1>7, <1>9 DEF Joined

LEMMA EmptyTextMade ==
    LET b == TextBlock(<<>>)
    IN  /\ <<b>> \in Seq(TextBlocks) /\ <<b>> \in Seq(Blocks)
        /\ Joined(TellsOfBlock, <<b>>) = <<>>
        /\ \A type \in {"tool_use", "tool_result"} : Kinds(<<b>>, type) = <<>>
    <1>1. PICK b : b = TextBlock(<<>>)
        OBVIOUS
    <1>2. <<>> \in Seq(Words)
        BY EmptySeq
    <1>3. b \in TextBlocks
        BY <1>1, <1>2 DEF TextBlock, TextBlocks
    <1>4. b \in Blocks /\ BlockTells(b) = <<>>
        BY <1>1, <1>2, TextBlockTells, NoWords
    <1>5. <<b>> \in Seq(TextBlocks) /\ <<b>> \in Seq(Blocks)
        BY <1>3, <1>4, SingleList
    <1>6. TextBlocks \subseteq Blocks /\ \A c \in TextBlocks : c.type = "text"
        BY DEF Blocks, TextBlocks
    <1>7. \A type \in {"tool_use", "tool_result"} : Kinds(<<b>>, type) = <<>>
        BY <1>5, <1>6, KindsOfOthers
    <1> QED
        BY <1>1, <1>4, <1>5, <1>7, BlockAlone

LEMMA ToolTurn ==
    ASSUME NEW m \in ToolForm
    PROVE  \E t \in Turns, b \in Blocks :
              /\ ConvertMessage(m) = <<t>> /\ t.role = "user" /\ t.content = <<b>>
              /\ b.type = "tool_result" /\ b.tool_use_id = m.id
              /\ TellsOfTurn[t] = MessageTells("anthropic", m)
    <1>1. m \in MessageForm /\ m.role = "tool" /\ m.id \in CallId /\ m.calls = <<>>
        BY DEF MessageForm, ToolForm
    <1>2. PICK text : text = ContentToText(m.content)
        OBVIOUS
    <1>3. text \in Seq(Words) /\ WordsTell(text) = ItemsTell("anthropic", m)
          /\ ItemsTell("anthropic", m) \in Seq(Telling)
        BY <1>1, <1>2, ItemsTellTyped
    <1>4. PICK b : b = ResultBlock(m.id, text)
        OBVIOUS
    <1>5. /\ b \in Blocks /\ b.type = "tool_result" /\ b.tool_use_id = m.id
          /\ BlockTells(b) = Tells("answer", m.id, None) \o WordsTell(text)
        BY <1>1, <1>3, <1>4, ResultBlockTells
    <1>6. PICK c : c = <<b>>
        OBVIOUS
    <1>7. c \in Seq(Blocks) /\ Joined(TellsOfBlock, c) = BlockTells(b)
        BY <1>5, <1>6, BlockAlone
    <1>8. PICK t : t = [role |-> "user", content |-> c]
        OBVIOUS
    <1>9. t \in Turns /\ t.role = "user" /\ t.content = c
        BY <1>7, <1>8 DEF Turns
    <1>10. ConvertMessage(m) = <<t>>
        BY <1>1, <1>2, <1>4, <1>6, <1>8 DEF ConvertMessage, ResultBlock
    <1>11. TellsOfTurn[t] = Tells("answer", m.id, None) \o WordsTell(text)
        BY <1>5, <1>7, <1>9 DEF TellsOfTurn
    <1>12. MessageTells("anthropic", m) = Tells("answer", m.id, None) \o WordsTell(text)
        <2>1. UsesTell("anthropic", m) = <<>>
            BY <1>1, JoinedEmpty DEF UsesTell
        <2>2. AnswerTells("anthropic", m) = Tells("answer", m.id, None)
            BY <1>1 DEF AnswerTells
        <2>3. m.calls \in Seq(CallForm)
            BY <1>1, MessageFields
        <2>4. MessageTells("anthropic", m) =
                 Tells("answer", m.id, None) \o WordsTell(text) \o UsesTell("anthropic", m)
            BY <1>1, <1>3, <2>2, <2>3, MessageParts
        <2>5. m.id \in Ids
            BY <1>1 DEF Ids
        <2>6. Tells("answer", m.id, None) \in Seq(Telling)
            BY <2>5, AnswerTold
        <2>7. Tells("answer", m.id, None) \o WordsTell(text) \in Seq(Telling)
            BY <1>3, <2>6, ConcatProperties
        <2> QED
            BY <2>1, <2>4, <2>7, ConcatEmptySeq
    <1> QED
        BY <1>5, <1>6, <1>9, <1>10, <1>11, <1>12

LEMMA AssistantTurn ==
    ASSUME NEW m \in AssistantForm
    PROVE  \E t \in Turns :
              /\ ConvertMessage(m) = <<t>> /\ t.role = "assistant"
              /\ Kinds(t.content, "tool_use") = UsesOf(m.calls)
              /\ Kinds(t.content, "tool_result") = <<>>
              /\ TellsOfTurn[t] = MessageTells("anthropic", m)
    <1>1. m \in MessageForm /\ m.role = "assistant" /\ m.calls \in Seq(CallForm)
        BY DEF MessageForm, AssistantForm
    <1>2. PICK text : text = ContentToText(m.content)
        OBVIOUS
    <1>3. text \in Seq(Words) /\ WordsTell(text) = ItemsTell("anthropic", m)
          /\ ItemsTell("anthropic", m) \in Seq(Telling)
        BY <1>1, <1>2, ItemsTellTyped
    <1>4. PICK said : said = IF text = <<>> THEN <<>> ELSE <<TextBlock(text)>>
        OBVIOUS
    <1>5. PICK uses : uses = UsesOf(m.calls)
        OBVIOUS
    <1>6. /\ uses \in Seq(UseBlocks) /\ uses \in Seq(Blocks)
          /\ Joined(TellsOfBlock, uses) = UsesTell("anthropic", m)
        BY <1>1, <1>5, UsesMade DEF UsesTell
    <1>7. /\ said \in Seq(TextBlocks) /\ said \in Seq(Blocks)
          /\ Joined(TellsOfBlock, said) = WordsTell(text)
        <2>1. CASE text = <<>>
            <3>1. said = <<>>
                BY <1>4, <2>1
            <3>2. said \in Seq(TextBlocks) /\ said \in Seq(Blocks)
                BY <3>1, EmptySeq
            <3>3. Joined(TellsOfBlock, said) = <<>>
                BY <3>1, JoinedEmpty
            <3> QED
                BY <2>1, <3>2, <3>3, NoWords
        <2>2. CASE text # <<>>
            <3>1. PICK b : b = TextBlock(text)
                OBVIOUS
            <3>2. b \in TextBlocks
                BY <1>3, <3>1 DEF TextBlock, TextBlocks
            <3>3. b \in Blocks /\ BlockTells(b) = WordsTell(text)
                BY <1>3, <3>1, TextBlockTells
            <3>4. said = <<b>>
                BY <1>4, <2>2, <3>1
            <3> QED
                BY <3>2, <3>3, <3>4, SingleList, BlockAlone
        <2> QED
            BY <2>1, <2>2
    <1>8. /\ Kinds(said, "tool_use") = <<>> /\ Kinds(said, "tool_result") = <<>>
          /\ Kinds(uses, "tool_use") = uses /\ Kinds(uses, "tool_result") = <<>>
        <2>1. /\ TextBlocks \subseteq Blocks
              /\ \A b \in TextBlocks : b.type # "tool_use" /\ b.type # "tool_result"
            BY DEF Blocks, TextBlocks
        <2>2. /\ UseBlocks \subseteq Blocks
              /\ \A b \in UseBlocks : b.type = "tool_use" /\ b.type # "tool_result"
            BY DEF Blocks, UseBlocks
        <2>3. Kinds(said, "tool_use") = <<>> /\ Kinds(said, "tool_result") = <<>>
            BY <1>7, <2>1, KindsOfOthers
        <2>4. Kinds(uses, "tool_use") = uses
            BY <1>6, <2>2, KindsOfAll
        <2>5. Kinds(uses, "tool_result") = <<>>
            BY <1>6, <2>2, KindsOfOthers
        <2> QED
            BY <2>3, <2>4, <2>5
    <1>9. PICK both : both = said \o uses
        OBVIOUS
    <1>10. /\ both \in Seq(Blocks)
           /\ Kinds(both, "tool_use") = uses /\ Kinds(both, "tool_result") = <<>>
           /\ Joined(TellsOfBlock, both) = WordsTell(text) \o UsesTell("anthropic", m)
        <2>1. both \in Seq(Blocks)
            BY <1>6, <1>7, <1>9, ConcatProperties
        <2>2. Kinds(both, "tool_use") = <<>> \o uses /\ Kinds(both, "tool_result") = <<>> \o <<>>
            BY <1>6, <1>7, <1>8, <1>9, KindsOfBoth
        <2>3. <<>> \o uses = uses
            BY <1>6, ConcatEmptySeq
        <2>4. <<>> \in Seq(Blocks)
            BY EmptySeq
        <2>5. <<>> \o <<>> = <<>>
            BY <2>4, ConcatEmptySeq
        <2>6. Joined(TellsOfBlock, both) = Joined(TellsOfBlock, said) \o Joined(TellsOfBlock, uses)
            BY <1>6, <1>7, <1>9, BlocksTell, JoinedBoth
        <2> QED
            BY <1>6, <1>7, <2>1, <2>2, <2>3, <2>5, <2>6
    <1>11. PICK c : c = OrEmptyText(both)
        OBVIOUS
    <1>12. /\ c \in Seq(Blocks)
           /\ Kinds(c, "tool_use") = uses /\ Kinds(c, "tool_result") = <<>>
           /\ Joined(TellsOfBlock, c) = WordsTell(text) \o UsesTell("anthropic", m)
        <2>1. CASE both = <<>>
            <3>1. c = <<TextBlock(<<>>)>>
                BY <1>11, <2>1 DEF OrEmptyText
            <3>2. /\ c \in Seq(Blocks) /\ Joined(TellsOfBlock, c) = <<>>
                  /\ Kinds(c, "tool_use") = <<>> /\ Kinds(c, "tool_result") = <<>>
                BY <3>1, EmptyTextMade
            <3>3. Joined(TellsOfBlock, both) = <<>> /\ Kinds(both, "tool_use") = <<>>
                BY <2>1, JoinedEmpty, KindsOfNone
            <3> QED
                BY <1>10, <3>2, <3>3
        <2>2. CASE both # <<>>
            BY <1>10, <1>11, <2>2 DEF OrEmptyText
        <2> QED
            BY <2>1, <2>2
    <1>13. PICK t : t = [role |-> "assistant", content |-> c]
        OBVIOUS
    <1>14. t \in Turns /\ t.role = "assistant" /\ t.content = c
        BY <1>12, <1>13 DEF Turns
    <1>15. ConvertMessage(m) = <<t>>
        BY <1>1, <1>2, <1>4, <1>5, <1>9, <1>11, <1>13 DEF ConvertMessage, UsesOf
    <1>16. TellsOfTurn[t] = WordsTell(text) \o UsesTell("anthropic", m)
        BY <1>12, <1>14 DEF TellsOfTurn
    <1>17. MessageTells("anthropic", m) = WordsTell(text) \o UsesTell("anthropic", m)
        <2>1. AnswerTells("anthropic", m) = <<>>
            BY <1>1 DEF AnswerTells
        <2>2. MessageTells("anthropic", m) = <<>> \o WordsTell(text) \o UsesTell("anthropic", m)
            BY <1>1, <1>3, <2>1, MessageParts
        <2> QED
            BY <1>3, <2>2, ConcatEmptySeq
    <1> QED
        BY <1>5, <1>12, <1>14, <1>15, <1>16, <1>17

PlainBlocks == TextBlocks \cup ImageBlocks
BlocksOfItem == [item \in ItemForm |->
                    CASE item.type = "text" -> <<TextBlock(<<Word(item)>>)>>
                      [] item.type \in {"image_url", "image"} -> ImageBlock(item)
                      [] OTHER -> <<>>]
UserTells(p, m) == [item \in ItemForm |-> ItemTells(p, m, item)]

\* What a user's item tells.
LEMMA UserItem ==
    ASSUME NEW p, NEW m, m.role = "user", NEW item \in ItemForm
    PROVE  /\ item.type # "text" => MimeOf(item) \in Mimes
           /\ UserTells(p, m)[item] =
                 IF item.type = "text" THEN Tells("text", item.id, "text")
                 ELSE IF Takes(p, item) THEN Tells("media", item.id, MimeOf(item)) ELSE <<>>
           /\ UserTells(p, m)[item] \in Seq(Telling)
    <1>1. item.type \in ItemTypes /\ item.fmt \in Formats /\ item.id \in Nat
        BY ItemWords
    <1>2. item.type # "text" => MimeOf(item) \in Mimes
        BY <1>1 DEF MimeOf, Mimes, Formats, ItemTypes
    <1>3. UserTells(p, m)[item] =
                 IF item.type = "text" THEN Tells("text", item.id, "text")
                 ELSE IF Takes(p, item) THEN Tells("media", item.id, MimeOf(item)) ELSE <<>>
        BY DEF UserTells, ItemTells
    <1>4. <<>> \in Seq(Telling)
        BY EmptySeq
    <1> QED
        BY <1>1, <1>2, <1>3, <1>4, TextTold, MediaTold

LEMMA UserSaysItems ==
    ASSUME NEW p, NEW m \in UserForm
    PROVE  /\ Lists(UserTells(p, m), ItemForm, Telling)
           /\ ItemsTell(p, m) = Joined(UserTells(p, m), m.content)
           /\ ItemsTell(p, m) \in Seq(Telling)
    <1>1. m.role = "user" /\ m.content \in Seq(ItemForm)
        BY DEF UserForm
    <1>2. Lists(UserTells(p, m), ItemForm, Telling)
        BY <1>1, UserItem DEF Lists, UserTells
    <1>3. \A i \in DOMAIN m.content : m.content[i] \in ItemForm
        BY <1>1, LenProperties, ElementOfSeq
    <1>4. Images(UserTells(p, m), m.content) =
             [i \in DOMAIN m.content |-> ItemTells(p, m, m.content[i])]
        BY <1>3 DEF Images, UserTells
    <1>5. ItemsTell(p, m) = Joined(UserTells(p, m), m.content)
        BY <1>4 DEF ItemsTell, ItemsSay, Each, Joined
    <1> QED
        BY <1>1, <1>2, <1>5, JoinedTyped

LEMMA ItemBlocks ==
    ASSUME NEW m, m.role = "user", NEW item \in ItemForm
    PROVE  /\ BlocksOfItem[item] \in Seq(PlainBlocks) /\ BlocksOfItem[item] \in Seq(Blocks)
           /\ UserTells("anthropic", m)[item] = Joined(TellsOfBlock, BlocksOfItem[item])
    <1>1. /\ item.id \in Nat /\ item.id # 0 /\ Word(item) \in Words
          /\ Word(item).id = item.id /\ Word(item).word = "text"
        BY ItemWords
    <1>2. PlainBlocks \subseteq Blocks
        BY DEF PlainBlocks, Blocks
    <1>3. ASSUME NEW b \in PlainBlocks, BlocksOfItem[item] = <<b>>,
                 BlockTells(b) = UserTells("anthropic", m)[item]
          PROVE  /\ BlocksOfItem[item] \in Seq(PlainBlocks) /\ BlocksOfItem[item] \in Seq(Blocks)
                 /\ UserTells("anthropic", m)[item] = Joined(TellsOfBlock, BlocksOfItem[item])
        <2>1. <<b>> \in Seq(PlainBlocks)
            BY SingleList
        <2>2. b \in Blocks
            BY <1>2
        <2>3. <<b>> \in Seq(Blocks) /\ Joined(TellsOfBlock, <<b>>) = BlockTells(b)
            BY <2>2, BlockAlone
        <2> QED
            BY <1>3, <2>1, <2>3
    <1>4. ASSUME BlocksOfItem[item] = <<>>, UserTells("anthropic", m)[item] = <<>>
          PROVE  /\ BlocksOfItem[item] \in Seq(PlainBlocks) /\ BlocksOfItem[item] \in Seq(Blocks)
                 /\ UserTells("anthropic", m)[item] = Joined(TellsOfBlock, BlocksOfItem[item])
        BY <1>4, EmptySeq, JoinedEmpty
    <1>5. CASE item.type = "text"
        <2>1. PICK text : text = <<Word(item)>>
            OBVIOUS
        <2>2. text \in Seq(Words) /\ WordsTell(text) = Tells("text", item.id, "text")
            BY <1>1, <2>1, SingleList, WordTold
        <2>3. PICK b : b = TextBlock(text)
            OBVIOUS
        <2>4. b \in PlainBlocks
            BY <2>2, <2>3 DEF TextBlock, TextBlocks, PlainBlocks
        <2>5. BlockTells(b) = WordsTell(text)
            BY <2>2, <2>3, TextBlockTells
        <2>6. BlocksOfItem[item] = <<b>>
            BY <1>5, <2>1, <2>3 DEF BlocksOfItem
        <2>7. UserTells("anthropic", m)[item] = Tells("text", item.id, "text")
            BY <1>5, UserItem
        <2> QED
            BY <1>3, <2>2, <2>4, <2>5, <2>6, <2>7
    <1>6. CASE item.type \in {"image_url", "image"} /\ HasSource(item)
        <2>1. PICK b : b = [type |-> "image", source |-> IF item.src = "data" THEN "base64" ELSE "url",
                            id |-> item.id]
            OBVIOUS
        <2>2. b \in ImageBlocks /\ b.id = item.id
            BY <1>1, <2>1 DEF ImageBlocks
        <2>3. BlockTells(b) = Tells("media", item.id, "image")
            BY <2>2, ImageBlockTells
        <2>4. BlocksOfItem[item] = <<b>>
            BY <1>6, <2>1 DEF BlocksOfItem, ImageBlock
        <2>5. Takes("anthropic", item) /\ MimeOf(item) = "image" /\ item.type # "text"
            BY <1>6 DEF Takes, MimeOf
        <2>6. UserTells("anthropic", m)[item] = Tells("media", item.id, "image")
            BY <2>5, UserItem
        <2>7. b \in PlainBlocks
            BY <2>2 DEF PlainBlocks
        <2> QED
            BY <1>3, <2>3, <2>4, <2>6, <2>7
    <1>7. CASE item.type # "text" /\ ~(item.type \in {"image_url", "image"} /\ HasSource(item))
        <2>1. BlocksOfItem[item] = <<>>
            BY <1>7 DEF BlocksOfItem, ImageBlock
        <2>2. ~Takes("anthropic", item)
            BY <1>7 DEF Takes
        <2>3. UserTells("anthropic", m)[item] = <<>>
            BY <1>7, <2>2, UserItem
        <2> QED
            BY <1>4, <2>1, <2>3
    <1> QED
        BY <1>5, <1>6, <1>7

LEMMA BlocksSpelt ==
    ASSUME NEW content \in Seq(ItemForm)
    PROVE  ContentToBlocks(content) = Joined(BlocksOfItem, content)
    <1>1. \A i \in DOMAIN content : content[i] \in ItemForm
        BY LenProperties, ElementOfSeq
    <1>2. Images(BlocksOfItem, content) =
             [i \in DOMAIN content |->
                CASE content[i].type = "text" -> <<TextBlock(<<Word(content[i])>>)>>
                  [] content[i].type \in {"image_url", "image"} -> ImageBlock(content[i])
                  [] OTHER -> <<>>]
        BY <1>1 DEF BlocksOfItem, Images
    <1> QED
        BY <1>2 DEF ContentToBlocks, Each, Joined

LEMMA UserTurn ==
    ASSUME NEW m \in UserForm
    PROVE  \E t \in Turns :
              /\ ConvertMessage(m) = <<t>> /\ t.role = "user"
              /\ Kinds(t.content, "tool_use") = <<>> /\ Kinds(t.content, "tool_result") = <<>>
              /\ TellsOfTurn[t] = MessageTells("anthropic", m)
    <1>1. m \in MessageForm /\ m.role = "user" /\ m.calls = <<>> /\ m.content \in Seq(ItemForm)
        BY DEF MessageForm, UserForm
    <1>2. PICK blocks : blocks = ContentToBlocks(m.content)
        OBVIOUS
    <1>3. blocks = Joined(BlocksOfItem, m.content)
        BY <1>1, <1>2, BlocksSpelt
    <1>4. Lists(BlocksOfItem, ItemForm, PlainBlocks) /\ Lists(BlocksOfItem, ItemForm, Blocks)
        <2>1. \A item \in ItemForm : /\ BlocksOfItem[item] \in Seq(PlainBlocks)
                                     /\ BlocksOfItem[item] \in Seq(Blocks)
            BY <1>1, ItemBlocks
        <2>2. BlocksOfItem = [item \in ItemForm |-> BlocksOfItem[item]]
            BY DEF BlocksOfItem
        <2> QED
            BY <2>1, <2>2 DEF Lists
    <1>5. blocks \in Seq(PlainBlocks) /\ blocks \in Seq(Blocks)
        BY <1>1, <1>3, <1>4, JoinedTyped
    <1>6. Joined(TellsOfBlock, blocks) = ItemsTell("anthropic", m)
        <2>1. After(UserTells("anthropic", m), TellsOfBlock, BlocksOfItem, ItemForm)
            BY <1>1, ItemBlocks DEF After
        <2>2. Joined(TellsOfBlock, Joined(BlocksOfItem, m.content)) =
                 Joined(UserTells("anthropic", m), m.content)
            BY <1>1, <1>4, <2>1, BlocksTell, UserSaysItems, JoinedTwice
        <2> QED
            BY <1>3, <2>2, UserSaysItems
    <1>7. Kinds(blocks, "tool_use") = <<>> /\ Kinds(blocks, "tool_result") = <<>>
        <2>1. /\ PlainBlocks \subseteq Blocks
              /\ \A b \in PlainBlocks : b.type # "tool_use" /\ b.type # "tool_result"
            BY DEF PlainBlocks, Blocks, TextBlocks, ImageBlocks
        <2> QED
            BY <1>5, <2>1, KindsOfOthers
    <1>8. PICK c : c = OrEmptyText(blocks)
        OBVIOUS
    <1>9. /\ c \in Seq(Blocks) /\ Joined(TellsOfBlock, c) = ItemsTell("anthropic", m)
          /\ Kinds(c, "tool_use") = <<>> /\ Kinds(c, "tool_result") = <<>>
        <2>1. CASE blocks = <<>>
            <3>1. c = <<TextBlock(<<>>)>>
                BY <1>8, <2>1 DEF OrEmptyText
            <3>2. /\ c \in Seq(Blocks) /\ Joined(TellsOfBlock, c) = <<>>
                  /\ Kinds(c, "tool_use") = <<>> /\ Kinds(c, "tool_result") = <<>>
                BY <3>1, EmptyTextMade
            <3>3. Joined(TellsOfBlock, blocks) = <<>>
                BY <2>1, JoinedEmpty
            <3> QED
                BY <1>6, <3>2, <3>3
        <2>2. CASE blocks # <<>>
            BY <1>5, <1>6, <1>7, <1>8, <2>2 DEF OrEmptyText
        <2> QED
            BY <2>1, <2>2
    <1>10. PICK t : t = [role |-> "user", content |-> c]
        OBVIOUS
    <1>11. t \in Turns /\ t.role = "user" /\ t.content = c
        BY <1>9, <1>10 DEF Turns
    <1>12. ConvertMessage(m) = <<t>>
        BY <1>1, <1>2, <1>8, <1>10 DEF ConvertMessage
    <1>13. TellsOfTurn[t] = ItemsTell("anthropic", m)
        BY <1>9, <1>11 DEF TellsOfTurn
    <1>14. MessageTells("anthropic", m) = ItemsTell("anthropic", m)
        <2>1. AnswerTells("anthropic", m) = <<>>
            BY <1>1 DEF AnswerTells
        <2>2. UsesTell("anthropic", m) = <<>>
            BY <1>1, JoinedEmpty DEF UsesTell
        <2>3. m.calls \in Seq(CallForm)
            BY <1>1, MessageFields
        <2>4. MessageTells("anthropic", m) = <<>> \o ItemsTell("anthropic", m) \o <<>>
            BY <1>1, <2>1, <2>2, <2>3, MessageParts
        <2>5. ItemsTell("anthropic", m) \in Seq(Telling)
            BY UserSaysItems
        <2> QED
            BY <2>4, <2>5, ConcatEmptySeq
    <1> QED
        BY <1>9, <1>11, <1>12, <1>13, <1>14

\* What the messages of a conversation tell, and what becomes of them.
Telled(p) == [m \in MessageForm |-> MessageTells(p, m)]
TurnsOf == [m \in MessageForm |-> ConvertMessage(m)]

LEMMA ConvertedTells ==
    ASSUME NEW m \in MessageForm
    PROVE  /\ ConvertMessage(m) \in Seq(Turns)
           /\ Joined(TellsOfTurn, ConvertMessage(m)) = MessageTells("anthropic", m)
           /\ MessageTells("anthropic", m) \in Seq(Telling)
    <1>1. ASSUME NEW t \in Turns, ConvertMessage(m) = <<t>>,
                 TellsOfTurn[t] = MessageTells("anthropic", m)
          PROVE  /\ ConvertMessage(m) \in Seq(Turns)
                 /\ Joined(TellsOfTurn, ConvertMessage(m)) = MessageTells("anthropic", m)
                 /\ MessageTells("anthropic", m) \in Seq(Telling)
        <2>1. <<t>> \in Seq(Turns) /\ Joined(TellsOfTurn, <<t>>) = TellsOfTurn[t]
            BY TurnsTold, SingleList, JoinedOne
        <2>2. TellsOfTurn[t] \in Seq(Telling)
            BY TurnsTold DEF Lists
        <2> QED
            BY <1>1, <2>1, <2>2
    <1>2. CASE m.role = "system"
        <2>1. ConvertMessage(m) = <<>>
            BY <1>2 DEF ConvertMessage
        <2>2. m.calls \in Seq(CallForm)
            BY MessageFields
        <2>3. MessageTells("anthropic", m) = <<>>
            BY <1>2, <2>2, MessageParts
        <2> QED
            BY <2>1, <2>3, EmptySeq, JoinedEmpty
    <1>3. CASE m.role = "tool"
        BY <1>1, <1>3, MessageFields, ToolTurn
    <1>4. CASE m.role = "assistant"
        BY <1>1, <1>4, MessageFields, AssistantTurn
    <1>5. CASE m.role = "user"
        BY <1>1, <1>5, MessageFields, UserTurn
    <1> QED
        BY <1>2, <1>3, <1>4, <1>5, MessageFields

Converted(ms) == Each(ConvertMessage, ms)

LEMMA ConvertedIs ==
    ASSUME NEW ms \in Seq(MessageForm)
    PROVE  Converted(ms) = Joined(TurnsOf, ms) /\ Lists(TurnsOf, MessageForm, Turns)
    <1>1. \A i \in DOMAIN ms : ms[i] \in MessageForm
        BY LenProperties, ElementOfSeq
    <1>2. Images(TurnsOf, ms) = [i \in DOMAIN ms |-> ConvertMessage(ms[i])]
        BY <1>1 DEF TurnsOf, Images
    <1>3. Converted(ms) = Joined(TurnsOf, ms)
        BY <1>2 DEF Converted, Each, Joined
    <1>4. Lists(TurnsOf, MessageForm, Turns)
        BY ConvertedTells DEF Lists, TurnsOf
    <1> QED
        BY <1>3, <1>4

LEMMA FillerTurn ==
    ASSUME NEW text \in Seq(Words), WordsTell(text) = <<>>
    PROVE  /\ UserSays(text) \in Turns /\ UserSays(text).role = "user"
           /\ Kinds(UserSays(text).content, "tool_use") = <<>>
           /\ Kinds(UserSays(text).content, "tool_result") = <<>>
           /\ TellsOfTurn[UserSays(text)] = <<>>
    <1>1. PICK b : b = TextBlock(text)
        OBVIOUS
    <1>2. b \in Blocks /\ b.type = "text" /\ BlockTells(b) = <<>>
        BY <1>1, TextBlockTells
    <1>3. PICK c : c = <<b>>
        OBVIOUS
    <1>4. c \in Seq(Blocks) /\ Joined(TellsOfBlock, c) = <<>>
        BY <1>2, <1>3, BlockAlone
    <1>5. PICK t : t = [role |-> "user", content |-> c]
        OBVIOUS
    <1>6. t \in Turns /\ t.role = "user" /\ t.content = c
        BY <1>4, <1>5 DEF Turns
    <1>7. UserSays(text) = t
        BY <1>1, <1>3, <1>5 DEF UserSays
    <1>8. Kinds(c, "tool_use") = <<>> /\ Kinds(c, "tool_result") = <<>>
        <2>1. c \in Seq({b}) /\ {b} \subseteq Blocks
            BY <1>2, <1>3
        <2>2. \A d \in {b} : d.type # "tool_use" /\ d.type # "tool_result"
            BY <1>2
        <2> QED
            BY <2>1, <2>2, KindsOfOthers
    <1> QED
        BY <1>4, <1>6, <1>7, <1>8 DEF TellsOfTurn

LEMMA Fillers ==
    /\ <<Filler>> \in Seq(Words) /\ WordsTell(<<Filler>>) = <<>>
    /\ <<>> \in Seq(Words) /\ WordsTell(<<>>) = <<>>
    <1>1. PICK w : w = Filler
        OBVIOUS
    <1>2. w \in Words /\ w.id = 0
        BY <1>1 DEF Filler, Words
    <1>3. <<w>> \in Seq(Words) /\ WordsTell(<<w>>) = <<>>
        BY <1>2, SingleList, WordTold
    <1> QED
        BY <1>1, <1>3, EmptySeq, NoWords

\* The messages of a call to Anthropic tell what the conversation tells.
LEMMA AnthropicTells ==
    ASSUME NEW ms \in Seq(MessageForm)
    PROVE  /\ ConvertMessages(ms) \in Seq(Turns)
           /\ Joined(TellsOfTurn, ConvertMessages(ms)) = Joined(Telled("anthropic"), ms)
    <1>1. PICK c : c = Converted(ms)
        OBVIOUS
    <1>2. c \in Seq(Turns)
        BY <1>1, ConvertedIs, JoinedTyped
    <1>3. Joined(TellsOfTurn, c) = Joined(Telled("anthropic"), ms)
        <2>1. Lists(Telled("anthropic"), MessageForm, Telling)
            BY ConvertedTells DEF Telled, Lists
        <2>2. After(Telled("anthropic"), TellsOfTurn, TurnsOf, MessageForm)
            BY ConvertedTells DEF After, Telled, TurnsOf
        <2>3. Joined(TellsOfTurn, Joined(TurnsOf, ms)) = Joined(Telled("anthropic"), ms)
            BY <2>1, <2>2, ConvertedIs, TurnsTold, JoinedTwice
        <2> QED
            BY <1>1, <2>3, ConvertedIs
    <1>4. PICK f, e : f = UserSays(<<Filler>>) /\ e = UserSays(<<>>)
        OBVIOUS
    <1>5. f \in Turns /\ e \in Turns /\ TellsOfTurn[f] = <<>> /\ TellsOfTurn[e] = <<>>
        BY <1>4, Fillers, FillerTurn
    <1>6. PICK s : s = IF c = <<>> THEN <<e>> ELSE IF c[1].role # "user" THEN <<f>> \o c ELSE c
        OBVIOUS
    <1>7. s \in Seq(Turns) /\ Joined(TellsOfTurn, s) = Joined(TellsOfTurn, c)
        <2>1. CASE c = <<>>
            <3>1. Joined(TellsOfTurn, c) = <<>>
                BY <2>1, JoinedEmpty
            <3>2. <<e>> \in Seq(Turns) /\ Joined(TellsOfTurn, <<e>>) = TellsOfTurn[e]
                BY <1>5, TurnsTold, SingleList, JoinedOne
            <3> QED
                BY <1>5, <1>6, <2>1, <3>1, <3>2
        <2>2. CASE c # <<>> /\ c[1].role # "user"
            <3>1. <<f>> \in Seq(Turns) /\ Joined(TellsOfTurn, <<f>>) = <<>>
                BY <1>5, TurnsTold, SingleList, JoinedOne
            <3>2. Joined(TellsOfTurn, <<f>> \o c) = Joined(TellsOfTurn, <<f>>) \o Joined(TellsOfTurn, c)
                <4>1. PICK g \in Seq(Turns) : g = <<f>>
                    BY <3>1
                <4>2. Joined(TellsOfTurn, g \o c) = Joined(TellsOfTurn, g) \o Joined(TellsOfTurn, c)
                    BY <1>2, TurnsTold, JoinedBoth
                <4> QED
                    BY <4>1, <4>2
            <3>3. Joined(TellsOfTurn, c) \in Seq(Telling)
                BY <1>2, TurnsTold, JoinedTyped
            <3>4. <<f>> \o c \in Seq(Turns)
                BY <1>2, <3>1, ConcatProperties
            <3> QED
                BY <1>6, <2>2, <3>1, <3>2, <3>3, <3>4, ConcatEmptySeq
        <2>3. CASE c # <<>> /\ c[1].role = "user"
            BY <1>2, <1>6, <2>3
        <2> QED
            BY <2>1, <2>2, <2>3
    <1>8. ConvertMessages(ms) = MergeAdjacent(s)
        BY <1>1, <1>4, <1>6 DEF ConvertMessages, Converted
    <1> QED
        BY <1>3, <1>7, <1>8, MergeTells

-----------------------------------------------------------------------------
(* What MiMo's adapter does to the messages changes nothing for the others. *)

FormattedItem == [item \in ItemForm |-> WithFormat(item)]
Formatted == [m \in MessageForm |-> [m EXCEPT !.content = [j \in DOMAIN @ |-> WithFormat(@[j])]]]

LEMMA ItemFormatted ==
    ASSUME NEW item \in ItemForm
    PROVE  /\ WithFormat(item) \in ItemForm
           /\ WithFormat(item).type = item.type /\ WithFormat(item).src = item.src
           /\ WithFormat(item).id = item.id
           /\ item.type # "input_audio" => WithFormat(item) = item
           /\ item.type = "input_audio" =>
                 WithFormat(item).fmt = IF item.fmt = "none" THEN "wav" ELSE item.fmt
    <1>1. /\ item.type \in ItemTypes /\ item.src \in Sources /\ item.fmt \in Formats /\ item.id \in Nat \ {0}
          /\ item = [type |-> item.type, src |-> item.src, fmt |-> item.fmt, id |-> item.id]
        BY DEF ItemForm
    <1>2. CASE item.type = "input_audio" /\ item.fmt = "none"
        <2>1. PICK wav : wav = "wav"
            OBVIOUS
        <2>2. [item EXCEPT !.fmt = wav] = [type |-> item.type, src |-> item.src, fmt |-> wav, id |-> item.id]
            BY <1>1
        <2>3. WithFormat(item) = [type |-> item.type, src |-> item.src, fmt |-> wav, id |-> item.id]
            BY <1>2, <2>1, <2>2 DEF WithFormat
        <2>4. wav \in Formats
            BY <2>1 DEF Formats
        <2> QED
            BY <1>1, <1>2, <2>1, <2>3, <2>4 DEF ItemForm
    <1>3. CASE ~(item.type = "input_audio" /\ item.fmt = "none")
        BY <1>3 DEF WithFormat
    <1> QED
        BY <1>2, <1>3

LEMMA ItemFormattedTwice ==
    ASSUME NEW item \in ItemForm
    PROVE  WithFormat(WithFormat(item)) = WithFormat(item)
    <1>1. PICK w : w = WithFormat(item)
        OBVIOUS
    <1>2. CASE item.type = "input_audio"
        <2>1. w.type = "input_audio" /\ w.fmt # "none"
            BY <1>1, <1>2, ItemFormatted
        <2>2. WithFormat(w) = w
            BY <2>1 DEF WithFormat
        <2> QED
            BY <1>1, <2>2
    <1>3. CASE item.type # "input_audio"
        BY <1>3, ItemFormatted
    <1> QED
        BY <1>2, <1>3

LEMMA ItemsFormatted ==
    ASSUME NEW content \in Seq(ItemForm)
    PROVE  /\ [j \in DOMAIN content |-> WithFormat(content[j])] = Images(FormattedItem, content)
           /\ Images(FormattedItem, content) \in Seq(ItemForm)
           /\ (\A j \in DOMAIN content : content[j].type # "input_audio")
                 => Images(FormattedItem, content) = content
           /\ Images(FormattedItem, Images(FormattedItem, content)) = Images(FormattedItem, content)
    <1>1. \A j \in DOMAIN content : content[j] \in ItemForm
        BY LenProperties, ElementOfSeq
    <1>2. [j \in DOMAIN content |-> WithFormat(content[j])] = Images(FormattedItem, content)
        BY <1>1 DEF FormattedItem, Images
    <1>3. FormattedItem \in [ItemForm -> ItemForm]
        BY ItemFormatted DEF FormattedItem
    <1>4. Images(FormattedItem, content) \in Seq(ItemForm)
        BY <1>3, ImageList
    <1>5. ASSUME \A j \in DOMAIN content : content[j].type # "input_audio"
          PROVE  Images(FormattedItem, content) = content
        <2>1. \A j \in DOMAIN content : WithFormat(content[j]) = content[j]
            BY <1>1, <1>5, ItemFormatted
        <2>2. [j \in DOMAIN content |-> WithFormat(content[j])] = [j \in DOMAIN content |-> content[j]]
            BY <2>1
        <2>3. content = [j \in DOMAIN content |-> content[j]]
            BY LenProperties
        <2> QED
            BY <1>2, <2>2, <2>3
    <1>6. Images(FormattedItem, Images(FormattedItem, content)) = Images(FormattedItem, content)
        <2>1. PICK w : w = Images(FormattedItem, content)
            OBVIOUS
        <2>2. DOMAIN w = DOMAIN content /\ \A j \in DOMAIN content : w[j] = WithFormat(content[j])
            BY <1>1, <2>1 DEF Images, FormattedItem
        <2>3. \A j \in DOMAIN content : WithFormat(w[j]) = w[j] /\ w[j] \in ItemForm
            BY <1>1, <2>2, ItemFormatted, ItemFormattedTwice
        <2>4. Images(FormattedItem, w) = [j \in DOMAIN content |-> w[j]]
            BY <2>2, <2>3 DEF Images, FormattedItem
        <2>5. w = [j \in DOMAIN content |-> w[j]]
            BY <2>1, <2>2 DEF Images
        <2> QED
            BY <2>1, <2>4, <2>5
    <1> QED
        BY <1>2, <1>4, <1>5, <1>6

\* Only the content of a user's message changes.
LEMMA MessageFormatted ==
    ASSUME NEW m \in MessageForm
    PROVE  /\ Formatted[m] \in MessageForm /\ Formatted[m].role = m.role /\ Formatted[m].calls = m.calls
           /\ m.role # "user" => Formatted[m] = m
           /\ m.role = "user" => /\ Formatted[m] \in UserForm
                                 /\ Formatted[m].content = Images(FormattedItem, m.content)
           /\ Formatted[Formatted[m]] = Formatted[m]
    <1>1. m.content \in Seq(ItemForm)
        BY MessageFields
    <1>2. PICK c : c = Images(FormattedItem, m.content)
        OBVIOUS
    <1>3. [j \in DOMAIN m.content |-> WithFormat(m.content[j])] = c
        BY <1>1, <1>2, ItemsFormatted
    <1>4. Formatted[m] = [m EXCEPT !.content = c]
        BY <1>3 DEF Formatted
    <1>5. CASE m.role = "user"
        <2>1. m \in UserForm
            BY <1>5, MessageFields
        <2>2. m = [role |-> "user", content |-> m.content, calls |-> <<>>]
            BY <2>1 DEF UserForm
        <2>3. PICK role, calls : role = "user" /\ calls = <<>>
            OBVIOUS
        <2>4. m = [role |-> role, content |-> m.content, calls |-> calls]
            BY <2>2, <2>3
        <2>5. Formatted[m] = [role |-> role, content |-> c, calls |-> calls]
            BY <1>4, <2>4
        <2>6. PICK w : w = [role |-> role, content |-> c, calls |-> calls]
            OBVIOUS
        <2>7. w.content = c /\ w.role = role /\ w.calls = calls /\ c \in Seq(ItemForm)
            BY <1>1, <1>2, <2>6, ItemsFormatted
        <2>8. w \in UserForm /\ w \in MessageForm
            BY <2>3, <2>6, <2>7 DEF UserForm, MessageForm
        <2>9. [j \in DOMAIN c |-> WithFormat(c[j])] = c
            BY <1>1, <1>2, <2>7, ItemsFormatted
        <2>10. Formatted[w] = [w EXCEPT !.content = c]
            BY <2>7, <2>8, <2>9 DEF Formatted
        <2>11. Formatted[w] = w
            BY <2>6, <2>10
        <2> QED
            BY <1>2, <1>5, <2>3, <2>4, <2>5, <2>6, <2>7, <2>8, <2>11
    <1>6. CASE m.role # "user"
        <2>1. \A j \in DOMAIN m.content : m.content[j].type # "input_audio"
            <3>1. m.content \in Seq(AnswerItems) \/ m.content \in Seq(TextItems)
                BY <1>6, MessageFields DEF SystemForm, AssistantForm, ToolForm
            <3>2. CASE m.content \in Seq(AnswerItems)
                <4>1. \A j \in DOMAIN m.content : m.content[j] \in AnswerItems
                    BY <3>2, LenProperties, ElementOfSeq
                <4> QED
                    BY <4>1 DEF AnswerItems
            <3>3. CASE m.content \in Seq(TextItems)
                <4>1. \A j \in DOMAIN m.content : m.content[j] \in TextItems
                    BY <3>3, LenProperties, ElementOfSeq
                <4> QED
                    BY <4>1 DEF TextItems
            <3> QED
                BY <3>1, <3>2, <3>3
        <2>2. c = m.content
            BY <1>1, <1>2, <2>1, ItemsFormatted
        <2>3. [m EXCEPT !.content = m.content] = m
            <3>1. CASE m \in SystemForm \/ m \in AssistantForm
                <4>1. m = [role |-> m.role, content |-> m.content, calls |-> m.calls]
                    BY <3>1 DEF SystemForm, AssistantForm
                <4> QED
                    BY <4>1
            <3>2. CASE m \in ToolForm
                <4>1. m = [role |-> m.role, id |-> m.id, name |-> m.name, named |-> m.named,
                           content |-> m.content, calls |-> m.calls]
                    BY <3>2 DEF ToolForm
                <4> QED
                    BY <4>1
            <3> QED
                BY <1>6, <3>1, <3>2, MessageFields
        <2> QED
            BY <1>4, <1>6, <2>2, <2>3
    <1> QED
        BY <1>5, <1>6

-----------------------------------------------------------------------------
(* Parts and contents of Gemini's form. *)

ContentForm == [role : {"user", "model"}, parts : Seq(Parts)]

LEMMA TextPartTells ==
    ASSUME NEW text \in Seq(Words)
    PROVE  LET b == TextPart(text)
           IN  b \in Parts /\ b.kind = "text" /\ PartTells(b) = WordsTell(text)
    <1>1. PICK b : b = TextPart(text)
        OBVIOUS
    <1>2. b \in TextParts /\ b.kind = "text" /\ b.text = text
        BY <1>1 DEF TextPart, TextParts
    <1>3. PartTells(b) = WordsTell(text)
        BY <1>2 DEF PartTells
    <1> QED
        BY <1>1, <1>2, <1>3 DEF Parts

LEMMA MediaPartTells ==
    ASSUME NEW b \in MediaParts
    PROVE  b \in Parts /\ b.kind # "functionResponse" /\ PartTells(b) = Tells("media", b.id, b.mime)
    BY DEF PartTells, Parts, MediaParts

LEMMA CallPartTells ==
    ASSUME NEW use \in CallForm
    PROVE  LET b == FunctionCall(use)
           IN  /\ b \in Parts /\ b \in CallParts /\ b.kind = "functionCall"
               /\ PartTells(b) = UseTells("gemini", use)
    <1>1. PICK b : b = FunctionCall(use)
        OBVIOUS
    <1>2. use.name \in ToolName /\ ParseJsonObject(use.args) \in Inputs
        BY DEF CallForm, ParseJsonObject, Inputs
    <1>3. /\ b \in CallParts /\ b.kind = "functionCall" /\ b.name = use.name
          /\ b.args = ParseJsonObject(use.args)
        BY <1>1, <1>2 DEF FunctionCall, CallParts
    <1>4. PartTells(b) = Tells("call", 0, use.name) \o Tells("args", 0, ParseJsonObject(use.args))
        BY <1>3 DEF PartTells
    <1> QED
        BY <1>1, <1>3, <1>4 DEF Parts, UseTells

ResponsePart(name, text) == [kind |-> "functionResponse", name |-> name, text |-> text]

LEMMA ResponsePartTells ==
    ASSUME NEW name \in FunctionNames, NEW text \in Seq(Words)
    PROVE  LET b == ResponsePart(name, text)
           IN  /\ b \in Parts /\ b.kind = "functionResponse" /\ b.name = name
               /\ PartTells(b) = Tells("answer", 0, name) \o WordsTell(text)
    <1>1. PICK b : b = ResponsePart(name, text)
        OBVIOUS
    <1>2. b \in ResponseParts /\ b.kind = "functionResponse" /\ b.name = name /\ b.text = text
        BY <1>1 DEF ResponsePart, ResponseParts
    <1>3. PartTells(b) = Tells("answer", 0, name) \o WordsTell(text)
        BY <1>2 DEF PartTells
    <1> QED
        BY <1>1, <1>2, <1>3 DEF Parts

TellsOfPart == [b \in Parts |-> PartTells(b)]

LEMMA PartsTell ==
    Lists(TellsOfPart, Parts, Telling)
    <1>1. ASSUME NEW b \in Parts PROVE PartTells(b) \in Seq(Telling)
        <2>1. CASE b \in TextParts
            <3>1. b.kind = "text" /\ b.text \in Seq(Words)
                BY <2>1 DEF TextParts
            <3>2. PartTells(b) = WordsTell(b.text)
                BY <3>1 DEF PartTells
            <3> QED
                BY <3>1, <3>2, WordsTyped
        <2>2. CASE b \in MediaParts
            <3>1. PartTells(b) = Tells("media", b.id, b.mime) /\ b.id \in Nat /\ b.mime \in Mimes
                BY <2>2, MediaPartTells DEF MediaParts
            <3> QED
                BY <3>1, MediaTold
        <2>3. CASE b \in CallParts
            <3>1. b.kind = "functionCall" /\ b.name \in ToolName /\ b.args \in Inputs
                BY <2>3 DEF CallParts
            <3>2. PartTells(b) = Tells("call", 0, b.name) \o Tells("args", 0, b.args)
                BY <3>1 DEF PartTells
            <3>3. PICK id \in Ids : id = 0
                BY DEF Ids
            <3> QED
                BY <3>1, <3>2, <3>3, UseTold
        <2>4. CASE b \in ResponseParts
            <3>1. b.kind = "functionResponse" /\ b.name \in FunctionNames /\ b.text \in Seq(Words)
                BY <2>4 DEF ResponseParts
            <3>2. PartTells(b) = Tells("answer", 0, b.name) \o WordsTell(b.text)
                BY <3>1 DEF PartTells
            <3>3. PICK id \in Ids : id = 0
                BY DEF Ids
            <3>4. Tells("answer", id, b.name) \in Seq(Telling)
                BY <3>1, AnswerTold
            <3> QED
                BY <3>1, <3>2, <3>3, <3>4, WordsTyped, ConcatProperties
        <2> QED
            BY <2>1, <2>2, <2>3, <2>4 DEF Parts
    <1> QED
        BY <1>1 DEF TellsOfPart, Lists

LEMMA PartAlone ==
    ASSUME NEW b \in Parts
    PROVE  <<b>> \in Seq(Parts) /\ Joined(TellsOfPart, <<b>>) = PartTells(b)
    <1>1. Joined(TellsOfPart, <<b>>) = TellsOfPart[b]
        BY PartsTell, JoinedOne
    <1> QED
        BY <1>1, SingleList DEF TellsOfPart

TellsOfContent == [c \in ContentForm |-> Joined(TellsOfPart, c.parts)]

ContentsSay(contents) == Each(LAMBDA c : Each(PartTells, c.parts), contents)

LEMMA ContentsTell ==
    /\ Lists(TellsOfContent, ContentForm, Telling)
    /\ \A contents \in Seq(ContentForm) : ContentsSay(contents) = Joined(TellsOfContent, contents)
    <1>1. ASSUME NEW c \in ContentForm PROVE Joined(TellsOfPart, c.parts) \in Seq(Telling)
        <2>1. c.parts \in Seq(Parts)
            BY DEF ContentForm
        <2> QED
            BY <2>1, PartsTell, JoinedTyped
    <1>2. ASSUME NEW contents \in Seq(ContentForm)
          PROVE  ContentsSay(contents) = Joined(TellsOfContent, contents)
        <2>1. ASSUME NEW i \in DOMAIN contents
              PROVE  Each(PartTells, contents[i].parts) = TellsOfContent[contents[i]]
            <3>1. contents[i] \in ContentForm
                BY LenProperties, ElementOfSeq
            <3>2. contents[i].parts \in Seq(Parts)
                BY <3>1 DEF ContentForm
            <3>3. \A j \in DOMAIN contents[i].parts : contents[i].parts[j] \in Parts
                BY <3>2, LenProperties, ElementOfSeq
            <3>4. Images(TellsOfPart, contents[i].parts) =
                     [j \in DOMAIN contents[i].parts |-> PartTells(contents[i].parts[j])]
                BY <3>3 DEF TellsOfPart, Images
            <3> QED
                BY <3>1, <3>4 DEF TellsOfContent, Each, Joined
        <2>2. Images(TellsOfContent, contents) =
                 [i \in DOMAIN contents |-> Each(PartTells, contents[i].parts)]
            BY <2>1 DEF Images
        <2> QED
            BY <2>2 DEF ContentsSay, Each, Joined
    <1> QED
        BY <1>1, <1>2 DEF TellsOfContent, Lists

Responding == [b \in Parts |-> IF b.kind = "functionResponse" THEN <<b>> ELSE <<>>]

LEMMA ResponsesPicked ==
    /\ Lists(Responding, Parts, Parts)
    /\ \A parts \in Seq(Parts) : Responses(parts) = Joined(Responding, parts)
    <1>1. ASSUME NEW b \in Parts PROVE Responding[b] \in Seq(Parts)
        <2>1. <<b>> \in Seq(Parts) /\ <<>> \in Seq(Parts)
            BY SingleList, EmptySeq
        <2> QED
            BY <2>1 DEF Responding
    <1>2. ASSUME NEW parts \in Seq(Parts)
          PROVE  Responses(parts) = Joined(Responding, parts)
        <2>1. \A i \in DOMAIN parts : parts[i] \in Parts
            BY LenProperties, ElementOfSeq
        <2>2. Images(Responding, parts) =
                 [i \in DOMAIN parts |-> IF parts[i].kind = "functionResponse" THEN <<parts[i]>> ELSE <<>>]
            BY <2>1 DEF Responding, Images
        <2> QED
            BY <2>2 DEF Responses, Each, Joined
    <1> QED
        BY <1>1, <1>2 DEF Responding, Lists

OtherParts == TextParts \cup MediaParts \cup CallParts

LEMMA NoResponses ==
    ASSUME NEW parts \in Seq(OtherParts)
    PROVE  parts \in Seq(Parts) /\ Responses(parts) = <<>>
    <1> DEFINE P == {s \in Seq(OtherParts) : Joined(Responding, s) = <<>>}
    <1>1. OtherParts \subseteq Parts /\ \A b \in OtherParts : b.kind # "functionResponse"
        BY DEF OtherParts, Parts, TextParts, MediaParts, CallParts
    <1>2. <<>> \in P
        BY JoinedEmpty, EmptySeq
    <1>3. ASSUME NEW s \in P, NEW b \in OtherParts PROVE Append(s, b) \in P
        <2>1. s \in Seq(Parts) /\ b \in Parts
            BY <1>1, SeqInSeq
        <2>2. Joined(Responding, Append(s, b)) = Joined(Responding, s) \o Responding[b]
            BY <2>1, ResponsesPicked, JoinedAppend
        <2>3. Responding[b] = <<>>
            BY <1>1, <2>1 DEF Responding
        <2>4. <<>> \in Seq(Parts)
            BY EmptySeq
        <2>5. Append(s, b) \in Seq(OtherParts)
            BY AppendProperties
        <2> QED
            BY <2>2, <2>3, <2>4, <2>5, ConcatEmptySeq
    <1> HIDE DEF P
    <1>4. Seq(OtherParts) \subseteq P
        BY <1>2, <1>3, ListInduction
    <1>5. parts \in Seq(Parts)
        BY <1>1, SeqInSeq
    <1> QED
        BY <1>4, <1>5, ResponsesPicked DEF P

-----------------------------------------------------------------------------
(* A message as a content. *)

LEMMA TextOfAnswers ==
    ASSUME NEW content \in Seq(AnswerItems)
    PROVE  TextOf(content) = ContentToText(content)
    <1>1. \A i \in DOMAIN content : content[i].type = "text" \/ content[i].type = "image_url"
        <2>1. \A i \in DOMAIN content : content[i] \in AnswerItems
            BY LenProperties, ElementOfSeq
        <2> QED
            BY <2>1, AnswerItem
    <1>2. [i \in DOMAIN content |->
             CASE content[i].type = "text" -> <<Word(content[i])>>
               [] content[i].type \in {"image_url", "image"} -> <<ImageMark(content[i])>>
               [] OTHER -> <<>>] =
          [i \in DOMAIN content |->
             CASE content[i].type = "text" -> <<Word(content[i])>>
               [] content[i].type = "image_url" -> <<ImageMark(content[i])>>
               [] OTHER -> <<>>]
        <2>1. ASSUME NEW i \in DOMAIN content
              PROVE  (CASE content[i].type = "text" -> <<Word(content[i])>>
                        [] content[i].type \in {"image_url", "image"} -> <<ImageMark(content[i])>>
                        [] OTHER -> <<>>) =
                     (CASE content[i].type = "text" -> <<Word(content[i])>>
                        [] content[i].type = "image_url" -> <<ImageMark(content[i])>>
                        [] OTHER -> <<>>)
            BY <1>1
        <2> QED
            BY <2>1
    <1> QED
        BY <1>2 DEF TextOf, ContentToText, Each

LEMMA TextOfMessage ==
    ASSUME NEW m \in MessageForm, m.role # "user"
    PROVE  TextOf(m.content) = ContentToText(m.content)
    <1>1. TextItems \subseteq AnswerItems
        BY DEF TextItems, AnswerItems
    <1>2. Seq(TextItems) \subseteq Seq(AnswerItems)
        BY <1>1, SeqInSeq
    <1>3. m.content \in Seq(AnswerItems)
        BY <1>2, MessageFields DEF SystemForm, AssistantForm, ToolForm
    <1> QED
        BY <1>3, TextOfAnswers

\* The calls of an assistant as parts.
CallsOf(calls) == [i \in DOMAIN calls |-> FunctionCall(calls[i])]

LEMMA CallsMade ==
    ASSUME NEW calls \in Seq(CallForm)
    PROVE  /\ CallsOf(calls) \in Seq(OtherParts)
           /\ Joined(TellsOfPart, CallsOf(calls)) = Joined(TellsOfUse("gemini"), calls)
    <1>1. Len(calls) \in Nat /\ DOMAIN calls = 1..Len(calls) /\ \A i \in 1..Len(calls) : calls[i] \in CallForm
        BY LenProperties, ElementOfSeq
    <1>2. ASSUME NEW c \in CallForm
          PROVE  FunctionCall(c) \in OtherParts /\ TellsOfPart[FunctionCall(c)] = TellsOfUse("gemini")[c]
        <2>1. /\ FunctionCall(c) \in Parts /\ FunctionCall(c) \in CallParts
              /\ PartTells(FunctionCall(c)) = UseTells("gemini", c)
            BY CallPartTells
        <2> QED
            BY <2>1 DEF TellsOfPart, TellsOfUse, OtherParts
    <1>3. CallsOf(calls) \in [1..Len(calls) -> OtherParts] /\ DOMAIN CallsOf(calls) = 1..Len(calls)
        BY <1>1, <1>2 DEF CallsOf
    <1>4. CallsOf(calls) \in Seq(OtherParts)
        BY <1>1, <1>3
    <1>5. \A i \in 1..Len(calls) : CallsOf(calls)[i] = FunctionCall(calls[i])
        BY <1>1 DEF CallsOf
    <1>6. \A i \in 1..Len(calls) : TellsOfPart[CallsOf(calls)[i]] = TellsOfUse("gemini")[calls[i]]
        BY <1>1, <1>2, <1>5
    <1>7. Images(TellsOfPart, CallsOf(calls)) = Images(TellsOfUse("gemini"), calls)
        BY <1>1, <1>3, <1>6 DEF Images
    <1> QED
        BY <1>4, <1>7 DEF Joined

LEMMA EmptyPartMade ==
    LET b == TextPart(<<>>)
    IN  /\ <<b>> \in Seq(OtherParts) /\ <<b>> \in Seq(Parts) /\ Joined(TellsOfPart, <<b>>) = <<>>
    <1>1. PICK b : b = TextPart(<<>>)
        OBVIOUS
    <1>2. <<>> \in Seq(Words)
        BY EmptySeq
    <1>3. b \in OtherParts
        BY <1>1, <1>2 DEF TextPart, TextParts, OtherParts
    <1>4. b \in Parts /\ PartTells(b) = <<>>
        BY <1>1, <1>2, TextPartTells, NoWords
    <1>5. <<b>> \in Seq(OtherParts) /\ <<b>> \in Seq(Parts)
        BY <1>3, <1>4, SingleList
    <1> QED
        BY <1>1, <1>4, <1>5, PartAlone

LEMMA OrEmptyMade ==
    ASSUME NEW parts \in Seq(OtherParts)
    PROVE  /\ OrEmptyPart(parts) \in Seq(OtherParts)
           /\ Joined(TellsOfPart, OrEmptyPart(parts)) = Joined(TellsOfPart, parts)
    <1>1. CASE parts = <<>>
        <2>1. OrEmptyPart(parts) = <<TextPart(<<>>)>>
            BY <1>1 DEF OrEmptyPart
        <2> QED
            BY <1>1, <2>1, EmptyPartMade, JoinedEmpty
    <1>2. CASE parts # <<>>
        BY <1>2 DEF OrEmptyPart
    <1> QED
        BY <1>1, <1>2

LEMMA OtherPartsAre == OtherParts \subseteq Parts /\ Seq(OtherParts) \subseteq Seq(Parts)
    <1>1. OtherParts \subseteq Parts
        BY DEF OtherParts, Parts
    <1> QED
        BY <1>1, SeqInSeq

NameOf(m, names) == IF m.named THEN m.name ELSE names[m.id]

LEMMA ToolContent ==
    ASSUME NEW m \in ToolForm, NEW names, NameOf(m, names) = m.name
    PROVE  LET c == ContentOf(m, names)
           IN  /\ c \in ContentForm
               /\ TellsOfContent[c] = MessageTells("gemini", m)
               /\ \E b \in Parts : Responses(c.parts) = <<b>> /\ b.name = m.name
    <1>1. m \in MessageForm /\ m.role = "tool" /\ m.name \in FunctionNames /\ m.calls = <<>>
        BY DEF MessageForm, ToolForm, FunctionNames
    <1>2. PICK text : text = TextOf(m.content)
        OBVIOUS
    <1>3. text \in Seq(Words) /\ WordsTell(text) = ItemsTell("gemini", m)
          /\ ItemsTell("gemini", m) \in Seq(Telling)
        BY <1>1, <1>2, ItemsTellTyped, TextOfMessage
    <1>4. PICK b : b = ResponsePart(m.name, text)
        OBVIOUS
    <1>5. /\ b \in Parts /\ b.kind = "functionResponse" /\ b.name = m.name
          /\ PartTells(b) = Tells("answer", 0, m.name) \o WordsTell(text)
        BY <1>1, <1>3, <1>4, ResponsePartTells
    <1>6. PICK ps : ps = <<b>>
        OBVIOUS
    <1>7. ps \in Seq(Parts) /\ Joined(TellsOfPart, ps) = PartTells(b)
        BY <1>5, <1>6, PartAlone
    <1>8. PICK c : c = [role |-> "user", parts |-> ps]
        OBVIOUS
    <1>9. c \in ContentForm /\ c.parts = ps
        BY <1>7, <1>8 DEF ContentForm
    <1>10. ContentOf(m, names) = c
        BY <1>1, <1>2, <1>4, <1>6, <1>8 DEF ContentOf, ResponsePart, NameOf
    <1>11. TellsOfContent[c] = Tells("answer", 0, m.name) \o WordsTell(text)
        BY <1>5, <1>7, <1>9 DEF TellsOfContent
    <1>12. MessageTells("gemini", m) = Tells("answer", 0, m.name) \o WordsTell(text)
        <2>1. UsesTell("gemini", m) = <<>>
            BY <1>1, JoinedEmpty DEF UsesTell
        <2>2. AnswerTells("gemini", m) = Tells("answer", 0, m.name)
            BY <1>1 DEF AnswerTells
        <2>3. m.calls \in Seq(CallForm)
            BY <1>1, MessageFields
        <2>4. MessageTells("gemini", m) =
                 Tells("answer", 0, m.name) \o WordsTell(text) \o UsesTell("gemini", m)
            BY <1>1, <1>3, <2>2, <2>3, MessageParts
        <2>5. PICK id \in Ids : id = 0
            BY DEF Ids
        <2>6. Tells("answer", id, m.name) \in Seq(Telling)
            BY <1>1, AnswerTold
        <2>7. Tells("answer", 0, m.name) \o WordsTell(text) \in Seq(Telling)
            BY <1>3, <2>5, <2>6, ConcatProperties
        <2> QED
            BY <2>1, <2>4, <2>7, ConcatEmptySeq
    <1>13. Responses(ps) = <<b>>
        <2>1. Joined(Responding, <<b>>) = Responding[b]
            BY <1>5, ResponsesPicked, JoinedOne
        <2>2. Responding[b] = <<b>>
            BY <1>5 DEF Responding
        <2>3. Responses(ps) = Joined(Responding, ps)
            BY <1>7, ResponsesPicked
        <2> QED
            BY <1>6, <2>1, <2>2, <2>3
    <1> QED
        BY <1>5, <1>9, <1>10, <1>11, <1>12, <1>13

LEMMA AssistantContent ==
    ASSUME NEW m \in AssistantForm, NEW names
    PROVE  LET c == ContentOf(m, names)
           IN  /\ c \in ContentForm
               /\ TellsOfContent[c] = MessageTells("gemini", m)
               /\ Responses(c.parts) = <<>>
    <1>1. m \in MessageForm /\ m.role = "assistant" /\ m.calls \in Seq(CallForm)
        BY DEF MessageForm, AssistantForm
    <1>2. PICK text : text = TextOf(m.content)
        OBVIOUS
    <1>3. text \in Seq(Words) /\ WordsTell(text) = ItemsTell("gemini", m)
          /\ ItemsTell("gemini", m) \in Seq(Telling)
        BY <1>1, <1>2, ItemsTellTyped, TextOfMessage
    <1>4. PICK said : said = IF text = <<>> THEN <<>> ELSE <<TextPart(text)>>
        OBVIOUS
    <1>5. PICK uses : uses = CallsOf(m.calls)
        OBVIOUS
    <1>6. uses \in Seq(OtherParts) /\ uses \in Seq(Parts)
          /\ Joined(TellsOfPart, uses) = UsesTell("gemini", m)
        BY <1>1, <1>5, CallsMade, OtherPartsAre DEF UsesTell
    <1>7. said \in Seq(OtherParts) /\ said \in Seq(Parts)
          /\ Joined(TellsOfPart, said) = WordsTell(text)
        <2>1. CASE text = <<>>
            <3>1. said = <<>>
                BY <1>4, <2>1
            <3>2. said \in Seq(OtherParts) /\ said \in Seq(Parts)
                BY <3>1, EmptySeq
            <3>3. Joined(TellsOfPart, said) = <<>>
                BY <3>1, JoinedEmpty
            <3> QED
                BY <2>1, <3>2, <3>3, NoWords
        <2>2. CASE text # <<>>
            <3>1. PICK b : b = TextPart(text)
                OBVIOUS
            <3>2. b \in OtherParts
                BY <1>3, <3>1 DEF TextPart, TextParts, OtherParts
            <3>3. b \in Parts /\ PartTells(b) = WordsTell(text)
                BY <1>3, <3>1, TextPartTells
            <3>4. said = <<b>>
                BY <1>4, <2>2, <3>1
            <3> QED
                BY <3>2, <3>3, <3>4, SingleList, PartAlone
        <2> QED
            BY <2>1, <2>2
    <1>8. PICK both : both = said \o uses
        OBVIOUS
    <1>9. /\ both \in Seq(OtherParts)
          /\ Joined(TellsOfPart, both) = WordsTell(text) \o UsesTell("gemini", m)
        <2>1. both \in Seq(OtherParts)
            BY <1>6, <1>7, <1>8, ConcatProperties
        <2>2. Joined(TellsOfPart, both) = Joined(TellsOfPart, said) \o Joined(TellsOfPart, uses)
            BY <1>6, <1>7, <1>8, PartsTell, JoinedBoth
        <2> QED
            BY <1>6, <1>7, <2>1, <2>2
    <1>10. PICK ps : ps = OrEmptyPart(both)
        OBVIOUS
    <1>11. /\ ps \in Seq(OtherParts) /\ ps \in Seq(Parts) /\ Responses(ps) = <<>>
           /\ Joined(TellsOfPart, ps) = WordsTell(text) \o UsesTell("gemini", m)
        BY <1>9, <1>10, OrEmptyMade, NoResponses
    <1>12. PICK c : c = [role |-> "model", parts |-> ps]
        OBVIOUS
    <1>13. c \in ContentForm /\ c.parts = ps
        BY <1>11, <1>12 DEF ContentForm
    <1>14. ContentOf(m, names) = c
        BY <1>1, <1>2, <1>4, <1>5, <1>8, <1>10, <1>12 DEF ContentOf, CallsOf
    <1>15. TellsOfContent[c] = WordsTell(text) \o UsesTell("gemini", m)
        BY <1>11, <1>13 DEF TellsOfContent
    <1>16. MessageTells("gemini", m) = WordsTell(text) \o UsesTell("gemini", m)
        <2>1. AnswerTells("gemini", m) = <<>>
            BY <1>1 DEF AnswerTells
        <2>2. MessageTells("gemini", m) = <<>> \o WordsTell(text) \o UsesTell("gemini", m)
            BY <1>1, <1>3, <2>1, MessageParts
        <2> QED
            BY <1>3, <2>2, ConcatEmptySeq
    <1> QED
        BY <1>11, <1>13, <1>14, <1>15, <1>16

PartsOfOne(item) ==
    CASE item.type = "text" -> <<TextPart(<<Word(item)>>)>>
      [] item.type \in {"image_url", "image"} -> MediaPart(item, "image")
      [] item.type = "input_audio" -> AudioPart(item)
      [] item.type = "audio_url" -> MediaPart(item, "wav")
      [] item.type \in {"video_url", "file"} -> MediaPart(item, "mp4")

PartsOfItem == [item \in ItemForm |-> PartsOfOne(item)]

LEMMA PartsSpelt ==
    ASSUME NEW content \in Seq(ItemForm)
    PROVE  ContentToParts(content) = Joined(PartsOfItem, content)
    <1>1. \A i \in DOMAIN content : content[i] \in ItemForm
        BY LenProperties, ElementOfSeq
    <1>2. Images(PartsOfItem, content) = [i \in DOMAIN content |-> PartsOfOne(content[i])]
        BY <1>1 DEF PartsOfItem, Images
    <1>3. ContentToParts(content) = FlattenSeq([i \in DOMAIN content |-> PartsOfOne(content[i])])
        BY DEF ContentToParts, Each, PartsOfOne
    <1> QED
        BY <1>2, <1>3 DEF Joined

LEMMA MediaItem ==
    ASSUME NEW item \in ItemForm, item.type # "text"
    PROVE  PartsOfItem[item] =
              IF Takes("gemini", item) THEN MediaPart(item, MimeOf(item)) ELSE <<>>
    <1>1. item.type \in ItemTypes /\ PartsOfItem[item] = PartsOfOne(item)
        BY ItemWords DEF PartsOfItem
    <1>2. CASE item.type = "input_audio"
        <2>1. PartsOfOne(item) =
                 IF item.src = "data" THEN MediaPart(item, MimeOf(item)) ELSE <<>>
            BY <1>2 DEF PartsOfOne, AudioPart, MimeOf
        <2>2. Takes("gemini", item) <=> item.src = "data"
            BY <1>2 DEF Takes, HasSource
        <2> QED
            BY <1>1, <2>1, <2>2
    <1>3. CASE item.type # "input_audio"
        <2>1. PartsOfOne(item) = MediaPart(item, MimeOf(item))
            BY <1>1, <1>3 DEF PartsOfOne, MimeOf, ItemTypes
        <2>2. Takes("gemini", item) <=> HasSource(item)
            BY <1>3 DEF Takes
        <2> QED
            BY <1>1, <2>1, <2>2 DEF MediaPart
    <1> QED
        BY <1>2, <1>3

LEMMA ItemParts ==
    ASSUME NEW m, m.role = "user", NEW item \in ItemForm
    PROVE  /\ PartsOfItem[item] \in Seq(OtherParts) /\ PartsOfItem[item] \in Seq(Parts)
           /\ UserTells("gemini", m)[item] = Joined(TellsOfPart, PartsOfItem[item])
    <1>1. /\ item.id \in Nat /\ item.id # 0 /\ Word(item) \in Words
          /\ Word(item).id = item.id /\ Word(item).word = "text"
        BY ItemWords
    <1>2. OtherParts \subseteq Parts
        BY OtherPartsAre
    <1>3. ASSUME NEW b \in OtherParts, PartsOfItem[item] = <<b>>,
                 PartTells(b) = UserTells("gemini", m)[item]
          PROVE  /\ PartsOfItem[item] \in Seq(OtherParts) /\ PartsOfItem[item] \in Seq(Parts)
                 /\ UserTells("gemini", m)[item] = Joined(TellsOfPart, PartsOfItem[item])
        <2>1. <<b>> \in Seq(OtherParts)
            BY SingleList
        <2>2. b \in Parts
            BY <1>2
        <2>3. <<b>> \in Seq(Parts) /\ Joined(TellsOfPart, <<b>>) = PartTells(b)
            BY <2>2, PartAlone
        <2> QED
            BY <1>3, <2>1, <2>3
    <1>4. ASSUME PartsOfItem[item] = <<>>, UserTells("gemini", m)[item] = <<>>
          PROVE  /\ PartsOfItem[item] \in Seq(OtherParts) /\ PartsOfItem[item] \in Seq(Parts)
                 /\ UserTells("gemini", m)[item] = Joined(TellsOfPart, PartsOfItem[item])
        BY <1>4, EmptySeq, JoinedEmpty
    <1>5. CASE item.type = "text"
        <2>1. PICK text : text = <<Word(item)>>
            OBVIOUS
        <2>2. text \in Seq(Words) /\ WordsTell(text) = Tells("text", item.id, "text")
            BY <1>1, <2>1, SingleList, WordTold
        <2>3. PICK b : b = TextPart(text)
            OBVIOUS
        <2>4. b \in OtherParts
            BY <2>2, <2>3 DEF TextPart, TextParts, OtherParts
        <2>5. PartTells(b) = WordsTell(text)
            BY <2>2, <2>3, TextPartTells
        <2>6. PartsOfItem[item] = <<b>>
            BY <1>5, <2>1, <2>3 DEF PartsOfItem, PartsOfOne
        <2>7. UserTells("gemini", m)[item] = Tells("text", item.id, "text")
            BY <1>5, UserItem
        <2> QED
            BY <1>3, <2>2, <2>4, <2>5, <2>6, <2>7
    <1>6. CASE item.type # "text" /\ Takes("gemini", item)
        <2>1. PICK mime : mime = MimeOf(item)
            OBVIOUS
        <2>2. mime \in Mimes
            BY <1>6, <2>1, UserItem
        <2>3. PICK b : b = [kind |-> IF item.src = "data" THEN "inlineData" ELSE "fileData",
                            mime |-> mime, id |-> item.id]
            OBVIOUS
        <2>4. b \in MediaParts /\ b.id = item.id /\ b.mime = mime
            BY <1>1, <2>2, <2>3 DEF MediaParts
        <2>5. PartTells(b) = Tells("media", item.id, mime)
            BY <2>4, MediaPartTells
        <2>7. Takes("gemini", item)
            BY <1>6
        <2>6. PartsOfItem[item] = <<b>>
            <3>1. HasSource(item)
                BY <2>7 DEF Takes
            <3> QED
                BY <1>6, <2>1, <2>3, <2>7, <3>1, MediaItem DEF MediaPart
        <2>8. UserTells("gemini", m)[item] = Tells("media", item.id, mime)
            BY <1>6, <2>1, <2>7, UserItem
        <2>9. b \in OtherParts
            BY <2>4 DEF OtherParts
        <2> QED
            BY <1>3, <2>5, <2>6, <2>8, <2>9
    <1>7. CASE item.type # "text" /\ ~Takes("gemini", item)
        <2>1. PartsOfItem[item] = <<>>
            BY <1>7, MediaItem
        <2>2. ~Takes("gemini", item)
            BY <1>7
        <2>3. UserTells("gemini", m)[item] = <<>>
            BY <1>7, <2>2, UserItem
        <2> QED
            BY <1>4, <2>1, <2>3
    <1> QED
        BY <1>5, <1>6, <1>7

LEMMA UserContent ==
    ASSUME NEW m \in UserForm, NEW names
    PROVE  LET c == ContentOf(m, names)
           IN  /\ c \in ContentForm
               /\ TellsOfContent[c] = MessageTells("gemini", m)
               /\ Responses(c.parts) = <<>>
    <1>1. m \in MessageForm /\ m.role = "user" /\ m.calls = <<>> /\ m.content \in Seq(ItemForm)
        BY DEF MessageForm, UserForm
    <1>2. PICK parts : parts = ContentToParts(m.content)
        OBVIOUS
    <1>3. parts = Joined(PartsOfItem, m.content)
        BY <1>1, <1>2, PartsSpelt
    <1>4. Lists(PartsOfItem, ItemForm, OtherParts) /\ Lists(PartsOfItem, ItemForm, Parts)
        <2>1. \A item \in ItemForm : /\ PartsOfItem[item] \in Seq(OtherParts)
                                     /\ PartsOfItem[item] \in Seq(Parts)
            BY <1>1, ItemParts
        <2>2. PartsOfItem = [item \in ItemForm |-> PartsOfItem[item]]
            BY DEF PartsOfItem
        <2> QED
            BY <2>1, <2>2 DEF Lists
    <1>5. parts \in Seq(OtherParts)
        BY <1>1, <1>3, <1>4, JoinedTyped
    <1>6. Joined(TellsOfPart, parts) = ItemsTell("gemini", m)
        <2>1. After(UserTells("gemini", m), TellsOfPart, PartsOfItem, ItemForm)
            BY <1>1, ItemParts DEF After
        <2>2. Joined(TellsOfPart, Joined(PartsOfItem, m.content)) =
                 Joined(UserTells("gemini", m), m.content)
            BY <1>1, <1>4, <2>1, PartsTell, UserSaysItems, JoinedTwice
        <2> QED
            BY <1>3, <2>2, UserSaysItems
    <1>7. PICK ps : ps = OrEmptyPart(parts)
        OBVIOUS
    <1>8. /\ ps \in Seq(OtherParts) /\ ps \in Seq(Parts) /\ Responses(ps) = <<>>
          /\ Joined(TellsOfPart, ps) = ItemsTell("gemini", m)
        BY <1>5, <1>6, <1>7, OrEmptyMade, NoResponses
    <1>9. PICK c : c = [role |-> "user", parts |-> ps]
        OBVIOUS
    <1>10. c \in ContentForm /\ c.parts = ps
        BY <1>8, <1>9 DEF ContentForm
    <1>11. ContentOf(m, names) = c
        BY <1>1, <1>2, <1>7, <1>9 DEF ContentOf
    <1>12. TellsOfContent[c] = ItemsTell("gemini", m)
        BY <1>8, <1>10 DEF TellsOfContent
    <1>13. MessageTells("gemini", m) = ItemsTell("gemini", m)
        <2>1. AnswerTells("gemini", m) = <<>>
            BY <1>1 DEF AnswerTells
        <2>2. UsesTell("gemini", m) = <<>>
            BY <1>1, JoinedEmpty DEF UsesTell
        <2>3. m.calls \in Seq(CallForm)
            BY <1>1, MessageFields
        <2>4. MessageTells("gemini", m) = <<>> \o ItemsTell("gemini", m) \o <<>>
            BY <1>1, <2>1, <2>2, <2>3, MessageParts
        <2>5. ItemsTell("gemini", m) \in Seq(Telling)
            BY UserSaysItems
        <2> QED
            BY <2>4, <2>5, ConcatEmptySeq
    <1> QED
        BY <1>8, <1>10, <1>11, <1>12, <1>13
-----------------------------------------------------------------------------
(* The formats again: a message means the same to every adapter with them. *)

LEMMA FormattedAlike ==
    ASSUME NEW item \in ItemForm
    PROVE  /\ FormattedItem[item] = WithFormat(item)
           /\ BlocksOfItem[WithFormat(item)] = BlocksOfItem[item]
           /\ PartsOfItem[WithFormat(item)] = PartsOfItem[item]
           /\ WithFormat(item).type # "text" => MimeOf(WithFormat(item)) = MimeOf(item)
           /\ \A p : Takes(p, WithFormat(item)) <=> Takes(p, item)
    <1>1. FormattedItem[item] = WithFormat(item)
        BY DEF FormattedItem
    <1>2. CASE item.type # "input_audio"
        BY <1>1, <1>2, ItemFormatted
    <1>3. CASE item.type = "input_audio"
        <2>1. PICK w : w = WithFormat(item)
            OBVIOUS
        <2>2. /\ w \in ItemForm /\ w.type = "input_audio" /\ w.src = item.src /\ w.id = item.id
              /\ w.fmt = IF item.fmt = "none" THEN "wav" ELSE item.fmt
            BY <1>3, <2>1, ItemFormatted
        <2>3. BlocksOfItem[w] = BlocksOfItem[item]
            BY <1>3, <2>2 DEF BlocksOfItem
        <2>4. MimeOf(w) = MimeOf(item)
            BY <1>3, <2>2 DEF MimeOf
        <2>5. MediaPart(w, MimeOf(w)) = MediaPart(item, MimeOf(item))
            BY <2>2, <2>4 DEF MediaPart, HasSource
        <2>7. \A p : Takes(p, w) <=> Takes(p, item)
            BY <1>3, <2>2 DEF Takes, HasSource
        <2>6. PartsOfItem[w] = PartsOfItem[item]
            <3>1. Takes("gemini", w) <=> Takes("gemini", item)
                BY <2>7
            <3> QED
                BY <1>3, <2>2, <2>5, <3>1, MediaItem
        <2> QED
            BY <1>1, <2>1, <2>3, <2>4, <2>6, <2>7
    <1> QED
        BY <1>2, <1>3

LEMMA MessageMeansSame ==
    ASSUME NEW m \in MessageForm
    PROVE  /\ ConvertMessage(Formatted[m]) = ConvertMessage(m)
           /\ \A p : MessageTells(p, Formatted[m]) = MessageTells(p, m)
           /\ \A told : AfterMessage(told, Formatted[m]) = AfterMessage(told, m)
    <1>1. CASE m.role # "user"
        BY <1>1, MessageFormatted
    <1>2. CASE m.role = "user"
        <2>1. PICK w : w = Formatted[m]
            OBVIOUS
        <2>2. /\ w \in UserForm /\ w.role = "user" /\ w.content = Images(FormattedItem, m.content)
              /\ w \in MessageForm
            BY <1>2, <2>1, MessageFormatted
        <2>3. m \in UserForm /\ m.content \in Seq(ItemForm) /\ w.content \in Seq(ItemForm)
            BY <1>2, <2>2, MessageFields
        <2>4. Joined(BlocksOfItem, w.content) = Joined(BlocksOfItem, m.content)
            <3>1. Alike(BlocksOfItem, FormattedItem, BlocksOfItem, ItemForm)
                BY FormattedAlike DEF Alike
            <3> QED
                BY <2>2, <2>3, <3>1, JoinedImages
        <2>5. Joined(PartsOfItem, w.content) = Joined(PartsOfItem, m.content)
            <3>1. Alike(PartsOfItem, FormattedItem, PartsOfItem, ItemForm)
                BY FormattedAlike DEF Alike
            <3> QED
                BY <2>2, <2>3, <3>1, JoinedImages
        <2>6. ASSUME NEW p PROVE ItemsTell(p, w) = ItemsTell(p, m)
            <3>1. ASSUME NEW item \in ItemForm
                  PROVE  UserTells(p, w)[WithFormat(item)] = UserTells(p, m)[item]
                <4>1. PICK v \in ItemForm : v = WithFormat(item)
                    BY ItemFormatted
                <4>2. /\ v.type = item.type /\ v.id = item.id
                      /\ v.type # "text" => MimeOf(v) = MimeOf(item)
                      /\ Takes(p, v) <=> Takes(p, item)
                    BY <4>1, ItemFormatted, FormattedAlike
                <4>3. UserTells(p, w)[v] =
                         IF v.type = "text" THEN Tells("text", v.id, "text")
                         ELSE IF Takes(p, v) THEN Tells("media", v.id, MimeOf(v)) ELSE <<>>
                    BY <2>2, UserItem
                <4>4. UserTells(p, m)[item] =
                         IF item.type = "text" THEN Tells("text", item.id, "text")
                         ELSE IF Takes(p, item) THEN Tells("media", item.id, MimeOf(item)) ELSE <<>>
                    BY <1>2, UserItem
                <4> QED
                    BY <4>1, <4>2, <4>3, <4>4
            <3>2. Alike(UserTells(p, w), FormattedItem, UserTells(p, m), ItemForm)
                BY <3>1, FormattedAlike DEF Alike
            <3>3. Joined(UserTells(p, w), Images(FormattedItem, m.content)) =
                     Joined(UserTells(p, m), m.content)
                BY <2>3, <3>2, JoinedImages
            <3> QED
                BY <2>2, <2>3, <3>3, UserSaysItems
        <2>7. ContentToBlocks(w.content) = ContentToBlocks(m.content)
            BY <2>3, <2>4, BlocksSpelt
        <2>8. ContentToParts(w.content) = ContentToParts(m.content)
            BY <2>3, <2>5, PartsSpelt
        <2>9. ConvertMessage(w) = ConvertMessage(m)
            BY <1>2, <2>2, <2>7 DEF ConvertMessage
        <2>10. ASSUME NEW p PROVE MessageTells(p, w) = MessageTells(p, m)
            <3>1. w.calls = <<>> /\ m.calls = <<>>
                BY <2>2, <2>3 DEF UserForm
            <3>2. UsesTell(p, w) = UsesTell(p, m) /\ AnswerTells(p, w) = AnswerTells(p, m)
                BY <1>2, <2>2, <3>1 DEF UsesTell, AnswerTells
            <3>3. w.calls \in Seq(CallForm) /\ m.calls \in Seq(CallForm)
                BY <2>2, MessageFields
            <3> QED
                BY <1>2, <2>2, <2>6, <3>2, <3>3, MessageParts
        <2>11. ASSUME NEW told PROVE AfterMessage(told, w) = AfterMessage(told, m)
            <3>1. \A names : ContentOf(w, names) = ContentOf(m, names)
                BY <1>2, <2>2, <2>8 DEF ContentOf
            <3> QED
                BY <1>2, <2>2, <3>1 DEF AfterMessage
        <2> QED
            BY <2>1, <2>9, <2>10, <2>11
    <1> QED
        BY <1>1, <1>2

LEMMA FormatsImages ==
    ASSUME NEW ms \in Seq(MessageForm)
    PROVE  /\ WithFormats(ms) = Images(Formatted, ms)
           /\ WithFormats(ms) \in Seq(MessageForm)
           /\ WithFormats(WithFormats(ms)) = WithFormats(ms)
    <1>1. Formatted \in [MessageForm -> MessageForm]
        BY MessageFormatted DEF Formatted
    <1>2. ASSUME NEW s \in Seq(MessageForm) PROVE WithFormats(s) = Images(Formatted, s)
        <2>1. \A i \in DOMAIN s : s[i] \in MessageForm
            BY LenProperties, ElementOfSeq
        <2>2. Images(Formatted, s) =
                 [i \in DOMAIN s |-> [s[i] EXCEPT !.content = [j \in DOMAIN @ |-> WithFormat(@[j])]]]
            BY <2>1 DEF Images, Formatted
        <2> QED
            BY <2>2 DEF WithFormats
    <1>3. PICK w : w = WithFormats(ms)
        OBVIOUS
    <1>4. /\ w \in Seq(MessageForm) /\ Len(w) = Len(ms)
          /\ \A i \in 1..Len(ms) : w[i] = Formatted[ms[i]]
        BY <1>1, <1>2, <1>3, ImageList
    <1>5. WithFormats(w) = w
        <2>1. PICK v : v = WithFormats(w)
            OBVIOUS
        <2>2. /\ v \in Seq(MessageForm) /\ Len(v) = Len(w)
              /\ \A i \in 1..Len(w) : v[i] = Formatted[w[i]]
            BY <1>1, <1>2, <1>4, <2>1, ImageList
        <2>3. \A i \in 1..Len(ms) : ms[i] \in MessageForm
            BY LenProperties, ElementOfSeq
        <2>4. \A i \in 1..Len(w) : v[i] = w[i]
            BY <1>4, <2>2, <2>3, MessageFormatted
        <2>5. Len(v) = Len(w) /\ v = [i \in 1..Len(v) |-> v[i]] /\ w = [i \in 1..Len(w) |-> w[i]]
            BY <1>4, <2>2, LenProperties
        <2>6. v = w
            BY <2>4, <2>5
        <2> QED
            BY <2>1, <2>6
    <1> QED
        BY <1>2, <1>3, <1>4, <1>5

Started(c) == IF c = <<>> THEN <<UserSays(<<>>)>>
              ELSE IF c[1].role # "user" THEN <<UserSays(<<Filler>>)>> \o c ELSE c

LEMMA ConvertStarts ==
    ASSUME NEW ms
    PROVE  ConvertMessages(ms) = MergeAdjacent(Started(Converted(ms)))
    BY DEF ConvertMessages, Converted, Started

SystemWords == [m \in MessageForm |-> IF m.role = "system" THEN ContentToText(m.content) ELSE <<>>]
TellsOfSystem == [m \in MessageForm |-> WordsTell(SystemWords[m])]
GeminiSystem(ms) == Each(LAMBDA m : IF m.role = "system" THEN TextOf(m.content) ELSE <<>>, ms)
SystemSaid(ms) ==
    Each(LAMBDA m : IF m.role = "system" THEN WordsTell(ContentToText(m.content)) ELSE <<>>, ms)

LEMMA SystemSpelt ==
    ASSUME NEW ms \in Seq(MessageForm)
    PROVE  /\ SystemText(ms) = Joined(SystemWords, ms)
           /\ GeminiSystem(ms) = Joined(SystemWords, ms)
           /\ WordsTell(Joined(SystemWords, ms)) = SystemSaid(ms)
    <1>1. \A i \in DOMAIN ms : ms[i] \in MessageForm
        BY LenProperties, ElementOfSeq
    <1>2. ASSUME NEW m \in MessageForm
          PROVE  /\ SystemWords[m] \in Seq(Words)
                 /\ SystemWords[m] = IF m.role = "system" THEN TextOf(m.content) ELSE <<>>
                 /\ TellsOfSystem[m] = IF m.role = "system" THEN WordsTell(ContentToText(m.content))
                                     ELSE <<>>
        <2>1. CASE m.role = "system"
            <3>1. ContentToText(m.content) \in Seq(Words)
                BY <2>1, ItemsTellTyped
            <3>2. TextOf(m.content) = ContentToText(m.content)
                BY <2>1, TextOfMessage
            <3> QED
                BY <2>1, <3>1, <3>2 DEF SystemWords, TellsOfSystem
        <2>2. CASE m.role # "system"
            <3>1. SystemWords[m] = <<>>
                BY <2>2 DEF SystemWords
            <3>2. TellsOfSystem[m] = WordsTell(<<>>)
                BY <3>1 DEF TellsOfSystem
            <3> QED
                BY <2>2, <3>1, <3>2, NoWords, EmptySeq
        <2> QED
            BY <2>1, <2>2
    <1>3. Images(SystemWords, ms) =
             [i \in DOMAIN ms |-> IF ms[i].role = "system" THEN ContentToText(ms[i].content) ELSE <<>>]
        BY <1>1 DEF SystemWords, Images
    <1>4. Images(SystemWords, ms) =
             [i \in DOMAIN ms |-> IF ms[i].role = "system" THEN TextOf(ms[i].content) ELSE <<>>]
        BY <1>1, <1>2 DEF Images
    <1>5. Images(TellsOfSystem, ms) =
             [i \in DOMAIN ms |-> IF ms[i].role = "system" THEN WordsTell(ContentToText(ms[i].content))
                                  ELSE <<>>]
        BY <1>1, <1>2 DEF Images
    <1>6. SystemText(ms) = Joined(SystemWords, ms)
        BY <1>3 DEF SystemText, Each, Joined
    <1>7. GeminiSystem(ms) = Joined(SystemWords, ms)
        BY <1>4 DEF GeminiSystem, Each, Joined
    <1>8. SystemSaid(ms) = Joined(TellsOfSystem, ms)
        BY <1>5 DEF SystemSaid, Each, Joined
    <1>9. Lists(SystemWords, MessageForm, Words)
        BY <1>2 DEF SystemWords, Lists
    <1>10. ASSUME NEW m \in MessageForm
           PROVE  /\ TellsOfSystem[m] = Joined(TellsOfWord, SystemWords[m])
                  /\ TellsOfSystem[m] \in Seq(Telling)
        <2>1. TellsOfSystem[m] = WordsTell(SystemWords[m])
            BY DEF TellsOfSystem
        <2> QED
            BY <1>2, <2>1, WordsTold, WordsTyped
    <1>11. Lists(TellsOfSystem, MessageForm, Telling)
        BY <1>10 DEF TellsOfSystem, Lists
    <1>12. After(TellsOfSystem, TellsOfWord, SystemWords, MessageForm)
        BY <1>10 DEF After
    <1>13. Joined(TellsOfWord, Joined(SystemWords, ms)) = Joined(TellsOfSystem, ms)
        BY <1>9, <1>11, <1>12, WordsTold, JoinedTwice
    <1>14. Joined(SystemWords, ms) \in Seq(Words)
        BY <1>9, JoinedTyped
    <1>15. WordsTell(Joined(SystemWords, ms)) = Joined(TellsOfSystem, ms)
        BY <1>13, <1>14, WordsTold
    <1> QED
        BY <1>6, <1>7, <1>8, <1>15

LEMMA FormatsMeanSame ==
    ASSUME NEW ms \in Seq(MessageForm)
    PROVE  /\ ConvertMessages(WithFormats(ms)) = ConvertMessages(ms)
           /\ SystemText(WithFormats(ms)) = SystemText(ms)
           /\ GeminiSystem(WithFormats(ms)) = GeminiSystem(ms)
           /\ ToldAfter(WithFormats(ms)) = ToldAfter(ms)
           /\ \A p : Joined(Telled(p), WithFormats(ms)) = Joined(Telled(p), ms)
    <1>1. PICK w : w = WithFormats(ms)
        OBVIOUS
    <1>2. w = Images(Formatted, ms) /\ w \in Seq(MessageForm)
        BY <1>1, FormatsImages
    <1>3. ConvertMessages(w) = ConvertMessages(ms)
        <2>1. Alike(TurnsOf, Formatted, TurnsOf, MessageForm)
            BY MessageMeansSame, MessageFormatted DEF Alike, TurnsOf
        <2>2. Joined(TurnsOf, w) = Joined(TurnsOf, ms)
            BY <1>2, <2>1, JoinedImages
        <2>3. Converted(w) = Converted(ms)
            BY <1>2, <2>2, ConvertedIs
        <2> QED
            BY <2>3, ConvertStarts
    <1>4. SystemText(w) = SystemText(ms) /\ GeminiSystem(w) = GeminiSystem(ms)
        <2>1. ASSUME NEW m \in MessageForm PROVE SystemWords[Formatted[m]] = SystemWords[m]
            <3>1. CASE m.role = "user"
                BY <3>1, MessageFormatted DEF SystemWords
            <3>2. CASE m.role # "user"
                BY <3>2, MessageFormatted
            <3> QED
                BY <3>1, <3>2
        <2>2. Alike(SystemWords, Formatted, SystemWords, MessageForm)
            BY <2>1 DEF Alike
        <2>3. Joined(SystemWords, w) = Joined(SystemWords, ms)
            BY <1>2, <2>2, JoinedImages
        <2> QED
            BY <1>2, <2>3, SystemSpelt
    <1>5. ToldAfter(w) = ToldAfter(ms)
        <2> DEFINE P == {s \in Seq(MessageForm) : ToldAfter(Images(Formatted, s)) = ToldAfter(s)}
        <2>1. <<>> \in P
            <3>1. Images(Formatted, <<>>) = <<>>
                BY DEF Images
            <3> QED
                BY <3>1, EmptySeq
        <2>2. Formatted \in [MessageForm -> MessageForm]
            BY MessageFormatted DEF Formatted
        <2>3. ASSUME NEW s \in P, NEW x \in MessageForm PROVE Append(s, x) \in P
            <3>1. s \in Seq(MessageForm) /\ ToldAfter(Images(Formatted, s)) = ToldAfter(s)
                OBVIOUS
            <3>2. PICK v : v = Images(Formatted, s)
                OBVIOUS
            <3>3. v \in Seq(MessageForm) /\ Formatted[x] \in MessageForm
                BY <2>2, <3>1, <3>2, ImageList, MessageFormatted
            <3>4. Images(Formatted, Append(s, x)) = Append(v, Formatted[x])
                BY <2>2, <3>1, <3>2, ImageAppend
            <3>5. ToldAfter(Append(v, Formatted[x])) = AfterMessage(ToldAfter(v), Formatted[x])
                BY <3>3, ContentsNext
            <3>6. ToldAfter(Append(s, x)) = AfterMessage(ToldAfter(s), x)
                BY <3>1, ContentsNext
            <3>7. AfterMessage(ToldAfter(v), Formatted[x]) = AfterMessage(ToldAfter(v), x)
                BY MessageMeansSame
            <3>8. Append(s, x) \in Seq(MessageForm)
                BY <3>1, AppendProperties
            <3> QED
                BY <3>1, <3>2, <3>4, <3>5, <3>6, <3>7, <3>8
        <2> HIDE DEF P
        <2>4. \A s \in Seq(MessageForm) : s \in P => \A x \in MessageForm : Append(s, x) \in P
            BY <2>3
        <2>5. Seq(MessageForm) \subseteq P
            BY <2>1, <2>4, ListInduction
        <2>6. ms \in P
            BY <2>5
        <2> QED
            BY <1>2, <2>6 DEF P
    <1>6. ASSUME NEW p PROVE Joined(Telled(p), w) = Joined(Telled(p), ms)
        <2>1. Alike(Telled(p), Formatted, Telled(p), MessageForm)
            BY MessageMeansSame, MessageFormatted DEF Alike, Telled
        <2> QED
            BY <1>2, <2>1, JoinedImages
    <1> QED
        BY <1>1, <1>3, <1>4, <1>5, <1>6

-----------------------------------------------------------------------------
(* How far a conversation is: the calls of its last assistant, and which of *)
(* them are answered.                                                       *)
AssistantsIn(ms) == {i \in DOMAIN ms : ms[i].role = "assistant"}
LastIn(ms) == IF AssistantsIn(ms) = {} THEN 0
              ELSE CHOOSE i \in AssistantsIn(ms) : \A j \in AssistantsIn(ms) : j <= i
AnsweredIn(ms) == {ms[i].id : i \in {j \in DOMAIN ms : j > LastIn(ms) /\ ms[j].role = "tool"}}
CallsIn(ms) == IF LastIn(ms) = 0 THEN <<>> ELSE ms[LastIn(ms)].calls
CallIds(calls) == {calls[i].id : i \in DOMAIN calls}
OwedIn(ms) == {c \in {CallsIn(ms)[i] : i \in DOMAIN CallsIn(ms)} : c.id \notin AnsweredIn(ms)}
Distinct(calls) == \A i, j \in DOMAIN calls : calls[i].id = calls[j].id => i = j

LEMMA LastIs ==
    ASSUME NEW ms \in Seq(MessageForm)
    PROVE  /\ LastIn(ms) \in 0..Len(ms) /\ Len(ms) \in Nat
           /\ LastIn(ms) # 0 => ms[LastIn(ms)].role = "assistant"
           /\ \A j \in 1..Len(ms) : ms[j].role = "assistant" => j <= LastIn(ms)
    <1>1. Len(ms) \in Nat /\ DOMAIN ms = 1..Len(ms)
        BY LenProperties
    <1>2. CASE AssistantsIn(ms) = {}
        BY <1>1, <1>2 DEF LastIn, AssistantsIn
    <1>3. CASE AssistantsIn(ms) # {}
        <2>1. PICK A : A = AssistantsIn(ms)
            OBVIOUS
        <2>2. A \subseteq Nat /\ A # {} /\ \A i \in A : i <= Len(ms)
            BY <1>1, <1>3, <2>1 DEF AssistantsIn
        <2>3. \E i \in A : \A j \in A : j <= i
            BY <1>1, <2>2, GreatestNumber
        <2>4. LastIn(ms) \in A /\ \A j \in A : j <= LastIn(ms)
            BY <1>3, <2>1, <2>3 DEF LastIn
        <2> QED
            BY <1>1, <2>1, <2>4 DEF AssistantsIn
    <1> QED
        BY <1>2, <1>3

LEMMA LastUnique ==
    ASSUME NEW ms \in Seq(MessageForm), NEW n \in 0..Len(ms),
           n # 0 => ms[n].role = "assistant",
           \A j \in 1..Len(ms) : ms[j].role = "assistant" => j <= n
    PROVE  LastIn(ms) = n
    <1>1. PICK l : l = LastIn(ms)
        OBVIOUS
    <1>2. /\ l \in 0..Len(ms) /\ Len(ms) \in Nat
          /\ l # 0 => ms[l].role = "assistant"
          /\ \A j \in 1..Len(ms) : ms[j].role = "assistant" => j <= l
        BY <1>1, LastIs
    <1>3. l <= n /\ n <= l
        BY <1>2
    <1> QED
        BY <1>1, <1>2, <1>3

LEMMA BooksNone == CallsIn(<<>>) = <<>> /\ AnsweredIn(<<>>) = {}
    <1>1. PICK s \in Seq(MessageForm) : s = <<>>
        BY EmptySeq
    <1>2. Len(s) = 0 /\ DOMAIN s = {}
        BY <1>1
    <1>3. LastIn(s) = 0
        <2>1. LastIn(s) \in 0..Len(s)
            BY LastIs
        <2> QED
            BY <1>2, <2>1
    <1> QED
        BY <1>1, <1>2, <1>3 DEF CallsIn, AnsweredIn

LEMMA BooksNext ==
    ASSUME NEW ms \in Seq(MessageForm), NEW m \in MessageForm
    PROVE  LET s == Append(ms, m)
           IN  /\ CallsIn(s) = IF m.role = "assistant" THEN m.calls ELSE CallsIn(ms)
               /\ AnsweredIn(s) = IF m.role = "assistant" THEN {}
                                  ELSE IF m.role = "tool" THEN AnsweredIn(ms) \cup {m.id}
                                  ELSE AnsweredIn(ms)
    <1>1. PICK s : s = Append(ms, m)
        OBVIOUS
    <1>2. PICK n \in Nat : n = Len(ms)
        BY LenProperties
    <1>3. /\ s \in Seq(MessageForm) /\ Len(s) = n + 1 /\ s[n + 1] = m
          /\ \A i \in 1..n : s[i] = ms[i]
          /\ DOMAIN s = 1..n + 1 /\ DOMAIN ms = 1..n
        BY <1>1, <1>2, AppendProperties, LenProperties
    <1>4. PICK l : l = LastIn(ms)
        OBVIOUS
    <1>5. /\ l \in 0..n /\ (l # 0 => ms[l].role = "assistant")
          /\ \A j \in 1..n : ms[j].role = "assistant" => j <= l
        BY <1>2, <1>4, LastIs
    <1>6. CASE m.role = "assistant"
        <2>1. /\ n + 1 \in 0..Len(s) /\ s[n + 1].role = "assistant"
              /\ \A j \in 1..Len(s) : s[j].role = "assistant" => j <= n + 1
            BY <1>3, <1>6
        <2>2. LastIn(s) = n + 1
            BY <1>3, <2>1, LastUnique
        <2>3. CallsIn(s) = m.calls
            BY <1>3, <2>2 DEF CallsIn
        <2>4. AnsweredIn(s) = {}
            BY <1>3, <2>2 DEF AnsweredIn
        <2> QED
            BY <1>1, <1>6, <2>3, <2>4
    <1>7. CASE m.role # "assistant"
        <2>1. /\ l \in 0..Len(s) /\ (l # 0 => s[l].role = "assistant")
              /\ \A j \in 1..Len(s) : s[j].role = "assistant" => j <= l
            BY <1>3, <1>5, <1>7
        <2>2. LastIn(s) = l
            BY <1>3, <2>1, LastUnique
        <2>3. CallsIn(s) = CallsIn(ms)
            BY <1>3, <1>4, <1>5, <2>2 DEF CallsIn
        <2>4. CASE m.role = "tool"
            <3>1. {j \in DOMAIN s : j > l /\ s[j].role = "tool"} =
                     {j \in DOMAIN ms : j > l /\ ms[j].role = "tool"} \cup {n + 1}
                BY <1>3, <1>5, <2>4
            <3>2. \A j \in {i \in DOMAIN ms : i > l /\ ms[i].role = "tool"} : s[j] = ms[j]
                BY <1>3
            <3>3. AnsweredIn(s) = AnsweredIn(ms) \cup {m.id}
                BY <1>3, <1>4, <2>2, <3>1, <3>2 DEF AnsweredIn
            <3> QED
                BY <1>1, <1>7, <2>3, <2>4, <3>3
        <2>5. CASE m.role # "tool"
            <3>1. {j \in DOMAIN s : j > l /\ s[j].role = "tool"} =
                     {j \in DOMAIN ms : j > l /\ ms[j].role = "tool"}
                BY <1>3, <1>5, <2>5
            <3>2. \A j \in {i \in DOMAIN ms : i > l /\ ms[i].role = "tool"} : s[j] = ms[j]
                BY <1>3
            <3>3. AnsweredIn(s) = AnsweredIn(ms)
                BY <1>3, <1>4, <2>2, <3>1, <3>2 DEF AnsweredIn
            <3> QED
                BY <1>1, <1>7, <2>3, <2>5, <3>3
        <2> QED
            BY <2>4, <2>5
    <1> QED
        BY <1>6, <1>7

\* A message that a client may add.
MayFollow(ms, m) ==
    /\ m \in MessageForm
    /\ m.role # "tool" => OwedIn(ms) = {}
    /\ m.role = "tool" => \E c \in OwedIn(ms) : m.id = c.id /\ m.name = c.name
    /\ m.role = "assistant" => Distinct(m.calls)

LEMMA OwedIs ==
    ASSUME NEW ms, CallsIn(ms) \in Seq(CallForm), AnsweredIn(ms) \subseteq CallIds(CallsIn(ms))
    PROVE  /\ OwedIn(ms) = {} <=> AnsweredIn(ms) = CallIds(CallsIn(ms))
           /\ \A c \in OwedIn(ms) : /\ c.id \in CallIds(CallsIn(ms)) /\ c.id \notin AnsweredIn(ms)
                                    /\ \E i \in DOMAIN CallsIn(ms) : CallsIn(ms)[i] = c
    BY DEF OwedIn, CallIds

LEMMA CallIdsMany ==
    ASSUME NEW calls \in Seq(CallForm), Distinct(calls)
    PROVE  IsFiniteSet(CallIds(calls)) /\ Cardinality(CallIds(calls)) = Len(calls)
    <1>1. Len(calls) \in Nat /\ DOMAIN calls = 1..Len(calls)
        BY LenProperties
    <1>2. IsFiniteSet(1..Len(calls)) /\ Cardinality(1..Len(calls)) = Len(calls)
        BY <1>1, FS_Interval
    <1>3. PICK f : f = [i \in 1..Len(calls) |-> calls[i].id]
        OBVIOUS
    <1>4. f \in Bijection(1..Len(calls), CallIds(calls))
        BY <1>1, <1>3 DEF Bijection, Injection, Surjection, CallIds, Distinct, IsInjective
    <1>5. ExistsBijection(1..Len(calls), CallIds(calls))
        BY <1>4 DEF ExistsBijection
    <1> QED
        BY <1>2, <1>5, FS_Bijection

-----------------------------------------------------------------------------
(* The names and the contents that Gemini's adapter has after a conversation. *)
LEMMA NamesGiven ==
    ASSUME NEW names \in [CallId -> FunctionNames], NEW calls \in Seq(CallForm), Distinct(calls)
    PROVE  /\ Named(names, calls) \in [CallId -> FunctionNames]
           /\ \A i \in DOMAIN calls : Named(names, calls)[calls[i].id] = calls[i].name
    <1>1. \A i \in DOMAIN calls : /\ calls[i] \in CallForm /\ calls[i].id \in CallId
                                  /\ calls[i].name \in FunctionNames
        <2>1. \A i \in DOMAIN calls : calls[i] \in CallForm
            BY LenProperties, ElementOfSeq
        <2> QED
            BY <2>1 DEF CallForm, FunctionNames
    <1>2. DOMAIN calls \subseteq Nat
        BY LenProperties
    <1>3. ASSUME NEW id \in CallId
          PROVE  /\ Named(names, calls)[id] \in FunctionNames
                 /\ \A i \in DOMAIN calls : calls[i].id = id => Named(names, calls)[id] = calls[i].name
        <2>1. PICK at : at = {i \in DOMAIN calls : calls[i].id = id}
            OBVIOUS
        <2>2. Named(names, calls)[id] =
                 IF at = {} THEN names[id] ELSE calls[CHOOSE i \in at : \A j \in at : j <= i].name
            BY <2>1 DEF Named
        <2>3. CASE at = {}
            BY <2>1, <2>2, <2>3
        <2>4. CASE at # {}
            <3>1. PICK k \in at : TRUE
                BY <2>4
            <3>2. at = {k} /\ k \in Nat
                BY <1>2, <2>1, <3>1 DEF Distinct
            <3>3. (CHOOSE i \in at : \A j \in at : j <= i) = k
                BY <3>2
            <3>4. Named(names, calls)[id] = calls[k].name
                BY <2>2, <2>4, <3>3
            <3>5. \A i \in DOMAIN calls : calls[i].id = id => i = k
                BY <2>1, <3>2
            <3> QED
                BY <1>1, <2>1, <3>1, <3>4, <3>5
        <2> QED
            BY <2>3, <2>4
    <1>4. Named(names, calls) = [id \in CallId |-> Named(names, calls)[id]]
        BY DEF Named
    <1>5. Named(names, calls) \in [CallId -> FunctionNames]
        BY <1>3, <1>4
    <1> QED
        BY <1>1, <1>3, <1>5

LEMMA ContentMade ==
    ASSUME NEW m \in MessageForm, m.role # "system", NEW names,
           m.role = "tool" => NameOf(m, names) = m.name
    PROVE  LET c == ContentOf(m, names)
           IN  /\ c \in ContentForm
               /\ TellsOfContent[c] = MessageTells("gemini", m)
               /\ m.role = "tool" => \E b \in Parts : Responses(c.parts) = <<b>> /\ b.name = m.name
               /\ m.role # "tool" => Responses(c.parts) = <<>>
    <1>1. CASE m.role = "tool"
        BY <1>1, MessageFields, ToolContent
    <1>2. CASE m.role = "assistant"
        BY <1>2, MessageFields, AssistantContent
    <1>3. CASE m.role = "user"
        BY <1>3, MessageFields, UserContent
    <1> QED
        BY <1>1, <1>2, <1>3, MessageFields

ResponsesOf == [c \in ContentForm |-> Responses(c.parts)]
AnswersOf == [m \in MessageForm |-> IF m.role = "tool" THEN <<m>> ELSE <<>>]

LEMMA ResponsesAndAnswers ==
    Lists(ResponsesOf, ContentForm, Parts) /\ Lists(AnswersOf, MessageForm, MessageForm)
    <1>1. ASSUME NEW c \in ContentForm PROVE ResponsesOf[c] \in Seq(Parts)
        <2>1. c.parts \in Seq(Parts)
            BY DEF ContentForm
        <2>2. Responses(c.parts) \in Seq(Parts)
            BY <2>1, ResponsesPicked, JoinedTyped
        <2> QED
            BY <2>2 DEF ResponsesOf
    <1>2. ASSUME NEW m \in MessageForm PROVE AnswersOf[m] \in Seq(MessageForm)
        <2>1. <<m>> \in Seq(MessageForm) /\ <<>> \in Seq(MessageForm)
            BY SingleList, EmptySeq
        <2> QED
            BY <2>1 DEF AnswersOf
    <1> QED
        BY <1>1, <1>2 DEF Lists, ResponsesOf, AnswersOf

\* Answer by answer under the name that the client gave.
SameNames(responses, answers) ==
    /\ Len(responses) = Len(answers)
    /\ \A k \in DOMAIN answers : responses[k].name = answers[k].name

GeminiKept(ms) ==
    LET told == ToldAfter(ms)
    IN  /\ told.names \in [CallId -> FunctionNames]
        /\ told.contents \in Seq(ContentForm)
        /\ Joined(TellsOfContent, told.contents) = Joined(Telled("gemini"), ms)
        /\ SameNames(Joined(ResponsesOf, told.contents), Joined(AnswersOf, ms))
        /\ \A i \in DOMAIN CallsIn(ms) : told.names[CallsIn(ms)[i].id] = CallsIn(ms)[i].name

LEMMA SameNamesMore ==
    ASSUME NEW rs \in Seq(Parts), NEW ms \in Seq(MessageForm), SameNames(rs, ms),
           NEW b \in Parts, NEW m \in MessageForm, b.name = m.name
    PROVE  SameNames(rs \o <<b>>, ms \o <<m>>)
    <1>1. PICK n \in Nat : n = Len(rs) /\ n = Len(ms)
        BY LenProperties DEF SameNames
    <1>2. PICK r, a : r = rs \o <<b>> /\ a = ms \o <<m>>
        OBVIOUS
    <1>3. r = Append(rs, b)
        BY <1>2, AppendIsConcat
    <1>4. a = Append(ms, m)
        BY <1>2, AppendIsConcat
    <1>5. /\ r \in Seq(Parts) /\ a \in Seq(MessageForm) /\ Len(r) = n + 1 /\ Len(a) = n + 1
          /\ r[n + 1] = b /\ a[n + 1] = m /\ \A k \in 1..n : r[k] = rs[k] /\ a[k] = ms[k]
        <2>1. /\ r \in Seq(Parts) /\ Len(r) = Len(rs) + 1 /\ r[Len(rs) + 1] = b
              /\ \A k \in 1..Len(rs) : r[k] = rs[k]
            BY ONLY <1>3, rs \in Seq(Parts), b \in Parts, Appended
        <2>2. /\ a \in Seq(MessageForm) /\ Len(a) = Len(ms) + 1 /\ a[Len(ms) + 1] = m
              /\ \A k \in 1..Len(ms) : a[k] = ms[k]
            BY ONLY <1>4, ms \in Seq(MessageForm), m \in MessageForm, Appended
        <2> QED
            BY <1>1, <2>1, <2>2
    <1>6. DOMAIN ms = 1..n /\ DOMAIN a = 1..n + 1
        BY <1>1, <1>5, LenProperties
    <1>7. ASSUME NEW k \in 1..n + 1 PROVE r[k].name = a[k].name
        <2>1. CASE k = n + 1
            BY <1>5, <2>1
        <2>2. CASE k \in 1..n
            BY <1>5, <1>6, <2>2 DEF SameNames
        <2> QED
            BY <2>1, <2>2
    <1> QED
        BY <1>2, <1>5, <1>6, <1>7 DEF SameNames

LEMMA GeminiKeptNone == GeminiKept(<<>>)
    <1>1. ToldAfter(<<>>) = NoneTold /\ CallsIn(<<>>) = <<>>
        BY ContentsNone, BooksNone
    <1>2. NoneTold.names \in [CallId -> FunctionNames] /\ NoneTold.contents = <<>>
        BY DEF NoneTold, FunctionNames
    <1>3. PICK e : e = <<>>
        OBVIOUS
    <1>4. e \in Seq(ContentForm) /\ DOMAIN e = {} /\ Len(e) = 0
        BY <1>3
    <1>5. /\ Joined(TellsOfContent, e) = e /\ Joined(Telled("gemini"), e) = e
          /\ Joined(ResponsesOf, e) = e /\ Joined(AnswersOf, e) = e
        BY <1>3, JoinedEmpty
    <1> QED
        BY <1>1, <1>2, <1>3, <1>4, <1>5 DEF GeminiKept, SameNames

LEMMA GeminiKeptNext ==
    ASSUME NEW ms \in Seq(MessageForm), GeminiKept(ms), NEW m, MayFollow(ms, m)
    PROVE  GeminiKept(Append(ms, m))
    <1>1. m \in MessageForm
        BY DEF MayFollow
    <1>2. PICK s : s = Append(ms, m)
        OBVIOUS
    <1>3. PICK told : told = ToldAfter(ms)
        OBVIOUS
    <1>4. PICK after : after = AfterMessage(told, m)
        OBVIOUS
    <1>5. ToldAfter(s) = after
        BY <1>1, <1>2, <1>3, <1>4, ContentsNext
    <1>6. /\ told.names \in [CallId -> FunctionNames]
          /\ told.contents \in Seq(ContentForm)
          /\ Joined(TellsOfContent, told.contents) = Joined(Telled("gemini"), ms)
          /\ SameNames(Joined(ResponsesOf, told.contents), Joined(AnswersOf, ms))
          /\ \A i \in DOMAIN CallsIn(ms) : told.names[CallsIn(ms)[i].id] = CallsIn(ms)[i].name
        BY <1>3 DEF GeminiKept
    <1>7. Lists(Telled("gemini"), MessageForm, Telling)
        <2>1. ASSUME NEW x \in MessageForm PROVE Telled("gemini")[x] \in Seq(Telling)
            <3>1. CASE x.role = "system"
                <4>1. x.calls \in Seq(CallForm)
                    BY MessageFields
                <4>2. MessageTells("gemini", x) = <<>>
                    BY <3>1, <4>1, MessageParts
                <4> QED
                    BY <4>2, EmptySeq DEF Telled
            <3>2. CASE x.role # "system"
                <4>1. PICK names : names = [id \in CallId |-> x.name]
                    OBVIOUS
                <4>2. x.role = "tool" => NameOf(x, names) = x.name
                    <5>1. x.role = "tool" => x.id \in CallId
                        BY MessageFields DEF ToolForm
                    <5> QED
                        BY <4>1, <5>1 DEF NameOf
                <4>3. PICK c \in ContentForm : TellsOfContent[c] = MessageTells("gemini", x)
                    BY <3>2, <4>2, ContentMade
                <4>4. TellsOfContent[c] \in Seq(Telling)
                    BY ContentsTell DEF Lists
                <4> QED
                    BY <4>3, <4>4 DEF Telled
            <3> QED
                BY <3>1, <3>2
        <2> QED
            BY <2>1 DEF Lists, Telled
    <1>8. /\ Joined(Telled("gemini"), s) = Joined(Telled("gemini"), ms) \o MessageTells("gemini", m)
          /\ Joined(AnswersOf, s) = Joined(AnswersOf, ms) \o AnswersOf[m]
          /\ Joined(Telled("gemini"), ms) \in Seq(Telling) /\ Joined(AnswersOf, ms) \in Seq(MessageForm)
        <2>1. Joined(Telled("gemini"), s) = Joined(Telled("gemini"), ms) \o Telled("gemini")[m]
            BY <1>1, <1>2, <1>7, JoinedAppend
        <2>2. Telled("gemini")[m] = MessageTells("gemini", m)
            BY <1>1 DEF Telled
        <2>3. Joined(AnswersOf, s) = Joined(AnswersOf, ms) \o AnswersOf[m]
            BY <1>1, <1>2, ResponsesAndAnswers, JoinedAppend
        <2>4. Joined(Telled("gemini"), ms) \in Seq(Telling)
            BY <1>7, JoinedTyped
        <2>5. Joined(AnswersOf, ms) \in Seq(MessageForm)
            BY ResponsesAndAnswers, JoinedTyped
        <2> QED
            BY <2>1, <2>2, <2>3, <2>4, <2>5
    <1>9. CallsIn(s) = IF m.role = "assistant" THEN m.calls ELSE CallsIn(ms)
        BY <1>1, <1>2, BooksNext
    <1>10. CASE m.role = "system"
        <2>1. after.names = told.names /\ after.contents = told.contents
            BY <1>4, <1>10 DEF AfterMessage
        <2>2. MessageTells("gemini", m) = <<>>
            BY <1>1, <1>10, MessageFields, MessageParts
        <2>3. AnswersOf[m] = <<>>
            BY <1>1, <1>10 DEF AnswersOf
        <2>4. /\ Joined(Telled("gemini"), s) = Joined(Telled("gemini"), ms)
              /\ Joined(AnswersOf, s) = Joined(AnswersOf, ms)
            BY <1>8, <2>2, <2>3, ConcatEmptySeq
        <2>5. CallsIn(s) = CallsIn(ms)
            BY <1>9, <1>10
        <2>6. GeminiKept(s)
            BY <1>5, <1>6, <2>1, <2>4, <2>5 DEF GeminiKept
        <2> QED
            BY <1>2, <2>6
    <1>11. CASE m.role # "system"
        <2>1. PICK names : names = after.names
            OBVIOUS
        <2>2. /\ names = IF m.role = "assistant" THEN Named(told.names, m.calls) ELSE told.names
              /\ after.contents = Append(told.contents, ContentOf(m, names))
            BY <1>4, <1>11, <2>1 DEF AfterMessage
        <2>3. /\ names \in [CallId -> FunctionNames]
              /\ \A i \in DOMAIN CallsIn(s) : names[CallsIn(s)[i].id] = CallsIn(s)[i].name
            <3>1. CASE m.role = "assistant"
                <4>1. m.calls \in Seq(CallForm) /\ Distinct(m.calls)
                    BY <1>1, <3>1, MessageFields DEF MayFollow
                <4>2. CallsIn(s) = m.calls /\ names = Named(told.names, m.calls)
                    BY <1>9, <2>2, <3>1
                <4> QED
                    BY <1>6, <4>1, <4>2, NamesGiven
            <3>2. CASE m.role # "assistant"
                <4>1. CallsIn(s) = CallsIn(ms) /\ names = told.names
                    BY <1>9, <2>2, <3>2
                <4> QED
                    BY <1>6, <4>1
            <3> QED
                BY <3>1, <3>2
        <2>4. m.role = "tool" => NameOf(m, names) = m.name
            <3> SUFFICES ASSUME m.role = "tool" PROVE NameOf(m, names) = m.name
                OBVIOUS
            <3>1. PICK d \in OwedIn(ms) : m.id = d.id /\ m.name = d.name
                BY DEF MayFollow
            <3>2. PICK i \in DOMAIN CallsIn(ms) : d = CallsIn(ms)[i]
                BY DEF OwedIn
            <3>3. names = told.names
                BY <2>2
            <3>4. names[m.id] = m.name
                BY <1>6, <3>1, <3>2, <3>3
            <3> QED
                BY <3>4 DEF NameOf
        <2>5. PICK c : c = ContentOf(m, names)
            OBVIOUS
        <2>6. /\ c \in ContentForm /\ TellsOfContent[c] = MessageTells("gemini", m)
              /\ m.role = "tool" => \E b \in Parts : Responses(c.parts) = <<b>> /\ b.name = m.name
              /\ m.role # "tool" => Responses(c.parts) = <<>>
            BY <1>1, <1>11, <2>4, <2>5, ContentMade
        <2>7. after.contents = Append(told.contents, c) /\ after.contents \in Seq(ContentForm)
            BY <1>6, <2>2, <2>5, <2>6, AppendProperties
        <2>8. Joined(TellsOfContent, after.contents) = Joined(Telled("gemini"), s)
            <3>0. PICK cs \in Seq(ContentForm) : cs = told.contents
                BY <1>6
            <3>1. Joined(TellsOfContent, Append(cs, c)) = Joined(TellsOfContent, cs) \o TellsOfContent[c]
                <4>1. c \in ContentForm /\ Lists(TellsOfContent, ContentForm, Telling)
                    BY <2>6, ContentsTell
                <4> QED
                    BY <4>1, JoinedAppend
            <3> QED
                BY <1>6, <1>8, <2>6, <2>7, <3>0, <3>1
        <2>9. SameNames(Joined(ResponsesOf, after.contents), Joined(AnswersOf, s))
            <3>1. Joined(ResponsesOf, Append(told.contents, c)) =
                     Joined(ResponsesOf, told.contents) \o ResponsesOf[c]
                <4>1. c \in ContentForm /\ Lists(ResponsesOf, ContentForm, Parts)
                    BY <2>6, ResponsesAndAnswers
                <4>2. PICK cs \in Seq(ContentForm) : cs = told.contents
                    BY <1>6
                <4>3. Joined(ResponsesOf, Append(cs, c)) = Joined(ResponsesOf, cs) \o ResponsesOf[c]
                    BY <4>1, JoinedAppend
                <4> QED
                    BY <4>2, <4>3
            <3>2. ResponsesOf[c] = Responses(c.parts)
                BY <2>6 DEF ResponsesOf
            <3>3. Joined(ResponsesOf, told.contents) \in Seq(Parts)
                BY <1>6, ResponsesAndAnswers, JoinedTyped
            <3>4. CASE m.role = "tool"
                <4>1. PICK b \in Parts : Responses(c.parts) = <<b>> /\ b.name = m.name
                    BY <2>6, <3>4
                <4>2. AnswersOf[m] = <<m>>
                    BY <1>1, <3>4 DEF AnswersOf
                <4>3. SameNames(Joined(ResponsesOf, told.contents) \o <<b>>,
                                Joined(AnswersOf, ms) \o <<m>>)
                    BY <1>1, <1>6, <1>8, <3>3, <4>1, SameNamesMore
                <4> QED
                    BY <1>8, <2>7, <3>1, <3>2, <4>1, <4>2, <4>3
            <3>5. CASE m.role # "tool"
                <4>1. AnswersOf[m] = <<>> /\ Responses(c.parts) = <<>>
                    BY <1>1, <2>6, <3>5 DEF AnswersOf
                <4>2. Joined(ResponsesOf, after.contents) = Joined(ResponsesOf, told.contents)
                    BY <2>7, <3>1, <3>2, <3>3, <4>1, ConcatEmptySeq
                <4>3. Joined(AnswersOf, s) = Joined(AnswersOf, ms)
                    BY <1>8, <4>1, ConcatEmptySeq
                <4> QED
                    BY <1>6, <4>2, <4>3
            <3> QED
                BY <3>4, <3>5
        <2>10. GeminiKept(s)
            BY <1>5, <2>1, <2>3, <2>7, <2>8, <2>9 DEF GeminiKept
        <2> QED
            BY <1>2, <2>10
    <1> QED
        BY <1>10, <1>11

-----------------------------------------------------------------------------
(* The turns that Anthropic's adapter has after a conversation.  Converting  *)
(* one message more merges its turn with the last one or adds it.            *)
LEMMA ConvertedNext ==
    ASSUME NEW ms \in Seq(MessageForm), NEW m \in MessageForm
    PROVE  /\ Converted(ms) \in Seq(Turns)
           /\ Converted(Append(ms, m)) = Converted(ms) \o ConvertMessage(m)
    <1>1. TurnsOf[m] = ConvertMessage(m)
        BY DEF TurnsOf
    <1>2. Append(ms, m) \in Seq(MessageForm)
        BY AppendProperties
    <1>3. Joined(TurnsOf, Append(ms, m)) = Joined(TurnsOf, ms) \o TurnsOf[m]
        BY ConvertedIs, JoinedAppend
    <1>4. Converted(Append(ms, m)) = Joined(TurnsOf, Append(ms, m))
        BY <1>2, ConvertedIs
    <1>5. Converted(ms) = Joined(TurnsOf, ms) /\ Joined(TurnsOf, ms) \in Seq(Turns)
        BY ConvertedIs, JoinedTyped
    <1> QED
        BY <1>1, <1>3, <1>4, <1>5

LEMMA StartedNext ==
    ASSUME NEW c \in Seq(Turns), NEW t \in Turns, c # <<>>
    PROVE  Started(c) \in Seq(Turns) /\ Started(Append(c, t)) = Append(Started(c), t)
    <1>1. PICK d : d = Append(c, t)
        OBVIOUS
    <1>2. Len(c) \in Nat /\ Len(c) # 0
        BY EmptySeq, LenProperties
    <1>3. d \in Seq(Turns) /\ d # <<>> /\ d[1] = c[1]
        BY <1>1, <1>2, AppendProperties
    <1>4. PICK f \in Turns : f = UserSays(<<Filler>>)
        BY Fillers, FillerTurn
    <1>5. PICK g \in Seq(Turns) : g = <<f>>
        BY SingleList
    <1>6. g \o d = Append(g \o c, t) /\ g \o c \in Seq(Turns)
        <2>1. c \o <<t>> = d
            BY <1>1, AppendIsConcat
        <2>2. PICK h \in Seq(Turns) : h = <<t>>
            BY SingleList
        <2>3. g \o (c \o h) = (g \o c) \o h
            BY ConcatAssociative
        <2>4. g \o c \in Seq(Turns)
            BY ConcatProperties
        <2>5. (g \o c) \o <<t>> = Append(g \o c, t)
            BY <2>4, AppendIsConcat
        <2> QED
            BY <2>1, <2>2, <2>3, <2>4, <2>5
    <1> QED
        BY <1>1, <1>3, <1>4, <1>5, <1>6 DEF Started

LEMMA ConvertSystem ==
    ASSUME NEW ms \in Seq(MessageForm), NEW m \in MessageForm, m.role = "system"
    PROVE  /\ Converted(Append(ms, m)) = Converted(ms)
           /\ ConvertMessages(Append(ms, m)) = ConvertMessages(ms)
    <1>1. ConvertMessage(m) = <<>>
        BY DEF ConvertMessage
    <1>2. Converted(Append(ms, m)) = Converted(ms)
        BY <1>1, ConvertedNext, ConcatEmptySeq
    <1> QED
        BY <1>2, ConvertStarts

LEMMA ConvertOther ==
    ASSUME NEW ms \in Seq(MessageForm), NEW m \in MessageForm, NEW t \in Turns,
           ConvertMessage(m) = <<t>>
    PROVE  /\ Converted(Append(ms, m)) # <<>>
           /\ Converted(ms) # <<>> =>
                 ConvertMessages(Append(ms, m)) = MergedWith(ConvertMessages(ms), t)
           /\ Converted(ms) = <<>> =>
                 ConvertMessages(Append(ms, m)) =
                    IF t.role = "user" THEN <<t>> ELSE MergedWith(<<UserSays(<<Filler>>)>>, t)
    <1>1. PICK c : c = Converted(ms)
        OBVIOUS
    <1>2. PICK d : d = Converted(Append(ms, m))
        OBVIOUS
    <1>3. c \in Seq(Turns) /\ d = Append(c, t)
        BY <1>1, <1>2, ConvertedNext, AppendIsConcat
    <1>4. d # <<>>
        BY <1>3, AppendProperties
    <1>5. /\ ConvertMessages(Append(ms, m)) = MergeAdjacent(Started(d))
          /\ ConvertMessages(ms) = MergeAdjacent(Started(c))
        BY <1>1, <1>2, ConvertStarts
    <1>6. CASE c # <<>>
        <2>1. PICK s \in Seq(Turns) : s = Started(c) /\ Started(d) = Append(s, t)
            BY <1>3, <1>6, StartedNext
        <2>2. MergeAdjacent(Append(s, t)) = MergedWith(MergeAdjacent(s), t)
            BY MergeNext
        <2> QED
            BY <1>1, <1>2, <1>4, <1>5, <1>6, <2>1, <2>2
    <1>7. CASE c = <<>>
        <2>1. PICK f \in Turns : f = UserSays(<<Filler>>)
            BY Fillers, FillerTurn
        <2>2. d = <<t>> /\ d[1] = t
            BY <1>3, <1>7
        <2>3. PICK e \in Seq(Turns) : e = <<>>
            BY EmptySeq
        <2>4. ASSUME NEW u \in Turns
              PROVE  /\ <<u>> \in Seq(Turns) /\ MergeAdjacent(<<u>>) = <<u>>
            <3>1. Append(e, u) = <<u>>
                BY <2>3
            <3>2. MergeAdjacent(Append(e, u)) = MergedWith(MergeAdjacent(e), u)
                BY MergeNext
            <3> QED
                BY <2>3, <3>1, <3>2, MergeNone, MergedOne, SingleList
        <2>5. CASE t.role = "user"
            <3>1. Started(d) = <<t>>
                BY <1>4, <2>2, <2>5 DEF Started
            <3> QED
                BY <1>1, <1>2, <1>4, <1>5, <1>7, <2>4, <2>5, <3>1
        <2>6. CASE t.role # "user"
            <3>1. PICK g \in Seq(Turns) : g = <<f>>
                BY <2>4
            <3>2. Started(d) = Append(g, t)
                <4>1. Started(d) = g \o d
                    BY <1>4, <2>1, <2>2, <2>6, <3>1 DEF Started
                <4>2. g \o <<t>> = Append(g, t)
                    BY AppendIsConcat
                <4> QED
                    BY <2>2, <4>1, <4>2
            <3>3. MergeAdjacent(Append(g, t)) = MergedWith(MergeAdjacent(g), t)
                BY MergeNext
            <3>4. MergeAdjacent(g) = g
                BY <2>4, <3>1
            <3> QED
                BY <1>1, <1>2, <1>4, <1>5, <1>7, <2>1, <2>6, <3>1, <3>2, <3>3, <3>4
        <2> QED
            BY <2>5, <2>6
    <1> QED
        BY <1>6, <1>7

LEMMA ConvertNone ==
    Converted(<<>>) = <<>> /\ ConvertMessages(<<>>) = <<UserSays(<<>>)>>
    <1>1. PICK ms \in Seq(MessageForm) : ms = <<>>
        BY EmptySeq
    <1>2. Converted(ms) = <<>>
        BY <1>1, ConvertedIs, JoinedEmpty
    <1>3. PICK u \in Turns : u = UserSays(<<>>)
        BY Fillers, FillerTurn
    <1>4. PICK e \in Seq(Turns) : e = <<>>
        BY EmptySeq
    <1>5. MergeAdjacent(Append(e, u)) = MergedWith(MergeAdjacent(e), u)
        BY MergeNext
    <1>6. MergeAdjacent(<<u>>) = <<u>>
        BY <1>4, <1>5, MergeNone, MergedOne
    <1>7. ConvertMessages(ms) = MergeAdjacent(Started(<<>>))
        BY <1>2, ConvertStarts
    <1>8. Started(<<>>) = <<u>>
        BY <1>3 DEF Started
    <1> QED
        BY <1>1, <1>2, <1>3, <1>6, <1>7, <1>8

-----------------------------------------------------------------------------
(* Turns that alternate and answer each other.                               *)
UsesIn(t) == Kinds(t.content, "tool_use")
ResultsIn(t) == Kinds(t.content, "tool_result")
ResultsFirst(t) == \A j \in DOMAIN ResultsIn(t) : t.content[j].type = "tool_result"
AnswersAll(t, before) ==
    /\ Len(ResultsIn(t)) = Len(before)
    /\ IdsOf(ResultsIn(t), "tool_use_id") = IdsOf(before, "id")
    /\ ResultsFirst(t)

UsesBefore(s, i) == IF i = 1 THEN <<>> ELSE UsesIn(s[i - 1])
UsesAtEnd(s) == IF s = <<>> THEN <<>> ELSE UsesIn(s[Len(s)])
Settled(s) ==
    \A i \in 1..Len(s) : /\ IF i = 1 THEN s[i].role = "user" ELSE s[i].role # s[i - 1].role
                         /\ AnswersAll(s[i], UsesBefore(s, i))
Following(s, u) == IF s = <<>> THEN u.role = "user" ELSE u.role # s[Len(s)].role

LEMMA KindsFewer ==
    ASSUME NEW type, NEW content \in Seq(Blocks)
    PROVE  Len(Kinds(content, type)) <= Len(content)
    <1> DEFINE P == {s \in Seq(Blocks) : Len(Kinds(s, type)) <= Len(s)}
    <1>1. <<>> \in P
        <2>1. PICK e : e = <<>>
            OBVIOUS
        <2>2. e \in Seq(Blocks) /\ Len(e) = 0 /\ Kinds(e, type) = e
            BY <2>1, KindsOfNone
        <2>3. Len(Kinds(e, type)) <= Len(e)
            BY <2>2
        <2> QED
            BY <2>1, <2>2, <2>3
    <1>2. ASSUME NEW s \in P, NEW b \in Blocks PROVE Append(s, b) \in P
        <2>1. PICK v, k, w : v = Append(s, b) /\ k = Kinds(s, type) /\ w = Kinds(v, type)
            OBVIOUS
        <2>2. s \in Seq(Blocks) /\ Len(k) <= Len(s)
            BY <2>1
        <2>3. v \in Seq(Blocks) /\ Len(v) = Len(s) + 1 /\ Len(s) \in Nat
            BY <2>1, <2>2, AppendProperties, LenProperties
        <2>4. k \in Seq(Blocks) /\ Len(k) \in Nat
            BY <2>1, <2>2, KindsTyped, LenProperties
        <2>5. w = IF b.type = type THEN Append(k, b) ELSE k
            BY <2>1, <2>2, KindsOfMore
        <2>6. Len(Append(k, b)) = Len(k) + 1
            BY <2>4, AppendProperties
        <2>7. Len(w) <= Len(v)
            BY <2>2, <2>3, <2>4, <2>5, <2>6
        <2> QED
            BY <2>1, <2>3, <2>7
    <1> HIDE DEF P
    <1>3. \A s \in Seq(Blocks) : s \in P => \A b \in Blocks : Append(s, b) \in P
        BY <1>2
    <1>4. Seq(Blocks) \subseteq P
        BY <1>1, <1>3, ListInduction
    <1>5. content \in P
        BY <1>4
    <1> QED
        BY <1>5 DEF P

LEMMA SettledNone == Settled(<<>>) /\ UsesAtEnd(<<>>) = <<>> /\ \A u : Following(<<>>, u) <=> u.role = "user"
    <1>1. PICK e : e = <<>>
        OBVIOUS
    <1>2. Len(e) = 0
        BY <1>1
    <1> QED
        BY <1>1, <1>2 DEF Settled, UsesAtEnd, Following

LEMMA EndOfMore ==
    ASSUME NEW s \in Seq(Turns), NEW u \in Turns
    PROVE  /\ UsesAtEnd(Append(s, u)) = UsesIn(u)
           /\ \A t : Following(Append(s, u), t) <=> t.role # u.role
    <1>1. PICK r : r = Append(s, u)
        OBVIOUS
    <1>2. r # <<>> /\ r[Len(r)] = u
        BY <1>1, AppendProperties, LenProperties
    <1> QED
        BY <1>1, <1>2 DEF UsesAtEnd, Following

LEMMA SettledMore ==
    ASSUME NEW s \in Seq(Turns), NEW u \in Turns, Settled(s), Following(s, u),
           AnswersAll(u, UsesAtEnd(s))
    PROVE  Settled(Append(s, u))
    <1>1. PICK r : r = Append(s, u)
        OBVIOUS
    <1>2. PICK n \in Nat : n = Len(s)
        BY LenProperties
    <1>3. Len(r) = n + 1 /\ r[n + 1] = u /\ \A i \in 1..n : r[i] = s[i]
        BY <1>1, <1>2, AppendProperties
    <1>4. n = 0 <=> s = <<>>
        BY <1>2, EmptySeq
    <1>5. ASSUME NEW i \in 1..n + 1
          PROVE  /\ IF i = 1 THEN r[i].role = "user" ELSE r[i].role # r[i - 1].role
                 /\ AnswersAll(r[i], UsesBefore(r, i))
        <2>1. CASE i = n + 1
            <3>1. UsesBefore(r, i) = UsesAtEnd(s)
                BY <1>2, <1>3, <1>4, <2>1 DEF UsesBefore, UsesAtEnd
            <3>2. IF i = 1 THEN r[i].role = "user" ELSE r[i].role # r[i - 1].role
                BY <1>2, <1>3, <1>4, <2>1 DEF Following
            <3> QED
                BY <1>3, <2>1, <3>1, <3>2
        <2>2. CASE i \in 1..n
            <3>1. r[i] = s[i] /\ (i # 1 => r[i - 1] = s[i - 1])
                BY <1>3, <2>2
            <3>2. UsesBefore(r, i) = UsesBefore(s, i)
                BY <3>1 DEF UsesBefore
            <3>3. /\ IF i = 1 THEN s[i].role = "user" ELSE s[i].role # s[i - 1].role
                  /\ AnswersAll(s[i], UsesBefore(s, i))
                BY <1>2, <2>2 DEF Settled
            <3> QED
                BY <3>1, <3>2, <3>3
        <2> QED
            BY <2>1, <2>2
    <1>6. Settled(r)
        BY <1>3, <1>5 DEF Settled
    <1> QED
        BY <1>1, <1>6

LEMMA IdsOfMore ==
    ASSUME NEW rs \in Seq(Blocks), NEW b \in Blocks, NEW field
    PROVE  IdsOf(Append(rs, b), field) = IdsOf(rs, field) \cup {b[field]}
    <1>1. PICK r : r = Append(rs, b)
        OBVIOUS
    <1>2. PICK n \in Nat : n = Len(rs)
        BY LenProperties
    <1>3. /\ r \in Seq(Blocks) /\ Len(r) = n + 1 /\ r[n + 1] = b /\ \A i \in 1..n : r[i] = rs[i]
        BY <1>1, <1>2, AppendProperties
    <1>4. DOMAIN rs = 1..n /\ DOMAIN r = 1..n + 1
        BY <1>2, <1>3, LenProperties
    <1>5. {r[i][field] : i \in 1..n + 1} = {rs[i][field] : i \in 1..n} \cup {b[field]}
        <2>1. 1..n + 1 = (1..n) \cup {n + 1}
            OBVIOUS
        <2> QED
            BY <1>3, <2>1
    <1> QED
        BY <1>1, <1>4, <1>5 DEF IdsOf

LEMMA IdsOfNone ==
    ASSUME NEW field
    PROVE  IdsOf(<<>>, field) = {}
    BY DEF IdsOf

LEMMA IdsOfUses ==
    ASSUME NEW calls \in Seq(CallForm)
    PROVE  IdsOf(UsesOf(calls), "id") = CallIds(calls)
    <1>1. PICK uses : uses = UsesOf(calls)
        OBVIOUS
    <1>2. DOMAIN uses = DOMAIN calls /\ \A i \in DOMAIN calls : uses[i] = ToolUse(calls[i])
        BY <1>1 DEF UsesOf
    <1>3. \A i \in DOMAIN calls : uses[i]["id"] = calls[i].id
        BY <1>2 DEF ToolUse
    <1> QED
        BY <1>1, <1>2, <1>3 DEF IdsOf, CallIds

LEMMA TurnsMerged ==
    ASSUME NEW u \in Turns, NEW t \in Turns
    PROVE  /\ UsesIn(TwoTurns(u, t)) = UsesIn(u) \o UsesIn(t)
           /\ ResultsIn(TwoTurns(u, t)) = ResultsIn(u) \o ResultsIn(t)
           /\ UsesIn(u) \in Seq(Blocks) /\ ResultsIn(u) \in Seq(Blocks)
           /\ Len(ResultsIn(u)) <= Len(u.content)
    <1>1. u.content \in Seq(Blocks) /\ t.content \in Seq(Blocks)
          /\ TwoTurns(u, t).content = u.content \o t.content
        BY TwoTurnsTyped
    <1> QED
        BY <1>1, KindsOfBoth, KindsTyped, KindsFewer DEF UsesIn, ResultsIn

\* The last of the turns u, after the settled turns s: an assistant's has the calls
\* cs, none of them answered; a user's answers those in done, and while some are due
\* it holds nothing else.
LastKept(s, u, cs, done) ==
    /\ s \in Seq(Turns) /\ u \in Turns /\ Settled(s) /\ Following(s, u)
    /\ IsFiniteSet(done)
    /\ u.role = "assistant" => /\ done = {} /\ UsesIn(u) = UsesOf(cs)
                               /\ ResultsIn(u) = <<>> /\ UsesAtEnd(s) = <<>>
    /\ u.role = "user" => /\ UsesIn(u) = <<>> /\ UsesAtEnd(s) = UsesOf(cs)
                          /\ IdsOf(ResultsIn(u), "tool_use_id") = done
                          /\ Len(ResultsIn(u)) = Cardinality(done)
                          /\ ResultsFirst(u)
                          /\ done # CallIds(cs) => Len(ResultsIn(u)) = Len(u.content)

KeptAs(turns, cs, done) ==
    \E s \in Seq(Turns), u \in Turns : turns = Append(s, u) /\ LastKept(s, u, cs, done)

LEMMA LastAnswers ==
    ASSUME NEW s, NEW u, NEW cs \in Seq(CallForm), NEW done, LastKept(s, u, cs, done),
           Distinct(cs), u.role = "assistant" \/ done = CallIds(cs)
    PROVE  AnswersAll(u, UsesAtEnd(s)) /\ Settled(Append(s, u))
    <1>1. u.role \in {"user", "assistant"} /\ s \in Seq(Turns) /\ u \in Turns
        BY TwoTurnsTyped DEF LastKept
    <1>2. AnswersAll(u, UsesAtEnd(s))
        <2>1. CASE u.role = "assistant"
            <3>1. PICK e : e = <<>>
                OBVIOUS
            <3>2. ResultsIn(u) = e /\ UsesAtEnd(s) = e /\ DOMAIN e = {}
                BY <2>1, <3>1 DEF LastKept
            <3>3. IdsOf(e, "tool_use_id") = {} /\ IdsOf(e, "id") = {}
                BY <3>1, IdsOfNone
            <3> QED
                BY <3>2, <3>3 DEF AnswersAll, ResultsFirst
        <2>2. CASE u.role = "user"
            <3>1. done = CallIds(cs)
                BY <1>1, <2>2
            <3>2. /\ UsesAtEnd(s) = UsesOf(cs) /\ ResultsFirst(u)
                  /\ IdsOf(ResultsIn(u), "tool_use_id") = CallIds(cs)
                  /\ Len(ResultsIn(u)) = Cardinality(CallIds(cs))
                BY <2>2, <3>1 DEF LastKept
            <3>3. Cardinality(CallIds(cs)) = Len(cs)
                BY CallIdsMany
            <3>4. Len(UsesOf(cs)) = Len(cs) /\ IdsOf(UsesOf(cs), "id") = CallIds(cs)
                BY UsesMade, IdsOfUses
            <3> QED
                BY <3>2, <3>3, <3>4 DEF AnswersAll
        <2> QED
            BY <1>1, <2>1, <2>2
    <1> QED
        BY <1>1, <1>2, SettledMore DEF LastKept

LEMMA NoCalls ==
    ASSUME NEW cs \in Seq(CallForm), CallIds(cs) = {}
    PROVE  cs = <<>> /\ UsesOf(cs) = <<>>
    <1>1. cs = <<>>
        <2>1. DOMAIN cs = {}
            BY DEF CallIds
        <2>2. Len(cs) \in Nat /\ DOMAIN cs = 1..Len(cs)
            BY LenProperties
        <2>3. Len(cs) = 0
            BY <2>1, <2>2
        <2> QED
            BY <2>3, EmptySeq
    <1>2. UsesOf(<<>>) = <<>>
        BY DEF UsesOf
    <1> QED
        BY <1>1, <1>2

LEMMA KeptOne ==
    ASSUME NEW u \in Turns, u.role = "user", UsesIn(u) = <<>>, ResultsIn(u) = <<>>
    PROVE  LastKept(<<>>, u, <<>>, {})
    <1>1. PICK e : e = <<>>
        OBVIOUS
    <1>2. /\ e \in Seq(Turns) /\ e \in Seq(CallForm) /\ Len(e) = 0 /\ DOMAIN e = {}
          /\ Settled(e) /\ UsesAtEnd(e) = e /\ Following(e, u)
        BY <1>1, SettledNone
    <1>3. UsesOf(e) = e /\ CallIds(e) = {} /\ IdsOf(e, "tool_use_id") = {}
        BY <1>1, IdsOfNone DEF UsesOf, CallIds
    <1>4. IsFiniteSet({}) /\ Cardinality({}) = 0
        BY FS_EmptySet
    <1>5. UsesIn(u) = e /\ ResultsIn(u) = e
        BY <1>1
    <1>6. LastKept(e, u, e, {})
        BY <1>2, <1>3, <1>4, <1>5 DEF LastKept, ResultsFirst
    <1> QED
        BY <1>1, <1>6

\* A turn of the user's that holds no results.
LEMMA KeptUser ==
    ASSUME NEW s, NEW u, NEW cs \in Seq(CallForm), NEW done, LastKept(s, u, cs, done),
           Distinct(cs), done = CallIds(cs),
           NEW t \in Turns, t.role = "user", UsesIn(t) = <<>>, ResultsIn(t) = <<>>
    PROVE  KeptAs(MergedWith(Append(s, u), t), cs, done)
    <1>1. /\ s \in Seq(Turns) /\ u \in Turns /\ u.role \in {"user", "assistant"}
          /\ u.content \in Seq(Blocks) /\ t.content \in Seq(Blocks)
        BY TwoTurnsTyped DEF LastKept
    <1>2. CASE u.role = "user"
        <2>1. PICK v : v = TwoTurns(u, t)
            OBVIOUS
        <2>2. v \in Turns /\ v.role = "user" /\ v.content = u.content \o t.content
            BY <1>1, <1>2, <2>1, TwoTurnsTyped
        <2>3. /\ UsesIn(v) = UsesIn(u) /\ ResultsIn(v) = ResultsIn(u)
              /\ Len(ResultsIn(u)) <= Len(u.content) /\ ResultsIn(u) \in Seq(Blocks)
            <3>1. /\ UsesIn(v) = UsesIn(u) \o UsesIn(t) /\ ResultsIn(v) = ResultsIn(u) \o ResultsIn(t)
                  /\ UsesIn(u) \in Seq(Blocks) /\ ResultsIn(u) \in Seq(Blocks)
                  /\ Len(ResultsIn(u)) <= Len(u.content)
                BY <1>1, <2>1, TurnsMerged
            <3>2. UsesIn(u) \o <<>> = UsesIn(u) /\ ResultsIn(u) \o <<>> = ResultsIn(u)
                BY <3>1, ConcatEmptySeq
            <3> QED
                BY <3>1, <3>2
        <2>4. ResultsFirst(v)
            <3>1. \A j \in 1..Len(u.content) : v.content[j] = u.content[j]
                <4>1. PICK c \in Seq(Blocks), d \in Seq(Blocks) : c = u.content /\ d = t.content
                    BY <1>1
                <4>2. \A j \in 1..Len(c) : (c \o d)[j] = c[j]
                    BY LenProperties, ConcatProperties
                <4> QED
                    BY <2>2, <4>1, <4>2
            <3>2. \A j \in DOMAIN ResultsIn(u) : j \in 1..Len(u.content)
                BY <1>1, <2>3, LenProperties
            <3>3. \A j \in DOMAIN ResultsIn(u) : u.content[j].type = "tool_result"
                BY <1>2 DEF LastKept, ResultsFirst
            <3> QED
                BY <2>3, <3>1, <3>2, <3>3 DEF ResultsFirst
        <2>5. Following(s, v)
            BY <1>2, <2>2 DEF LastKept, Following
        <2>6. LastKept(s, v, cs, done)
            BY <1>2, <2>2, <2>3, <2>4, <2>5 DEF LastKept
        <2>7. MergedWith(Append(s, u), t) = Append(s, v)
            BY <1>1, <1>2, <2>1, MergedMore
        <2> QED
            BY <1>1, <2>2, <2>6, <2>7 DEF KeptAs
    <1>3. CASE u.role = "assistant"
        <2>1. PICK r : r = Append(s, u)
            OBVIOUS
        <2>2. r \in Seq(Turns) /\ Settled(r) /\ UsesAtEnd(r) = UsesIn(u) /\ Following(r, t)
            BY <1>1, <1>3, <2>1, LastAnswers, EndOfMore, AppendProperties
        <2>3. done = {} /\ UsesIn(u) = UsesOf(cs) /\ IsFiniteSet(done)
            BY <1>3 DEF LastKept
        <2>4. ResultsFirst(t) /\ IdsOf(ResultsIn(t), "tool_use_id") = {} /\ Len(ResultsIn(t)) = 0
            <3>1. PICK e : e = <<>>
                OBVIOUS
            <3>2. ResultsIn(t) = e /\ DOMAIN e = {} /\ Len(e) = 0
                BY <3>1
            <3> QED
                BY <3>1, <3>2, IdsOfNone DEF ResultsFirst
        <2>5. Cardinality(done) = 0
            BY <2>3, FS_EmptySet
        <2>6. LastKept(r, t, cs, done)
            BY <2>2, <2>3, <2>4, <2>5 DEF LastKept
        <2>7. MergedWith(Append(s, u), t) = Append(r, t)
            BY <1>1, <1>3, <2>1, MergedMore
        <2> QED
            BY <2>2, <2>6, <2>7 DEF KeptAs
    <1> QED
        BY <1>1, <1>2, <1>3

\* A turn of the assistant's.
LEMMA KeptAssistant ==
    ASSUME NEW s, NEW u, NEW cs \in Seq(CallForm), NEW done, LastKept(s, u, cs, done),
           Distinct(cs), done = CallIds(cs), NEW new \in Seq(CallForm),
           NEW t \in Turns, t.role = "assistant", UsesIn(t) = UsesOf(new), ResultsIn(t) = <<>>
    PROVE  KeptAs(MergedWith(Append(s, u), t), new, {})
    <1>1. /\ s \in Seq(Turns) /\ u \in Turns /\ u.role \in {"user", "assistant"}
        BY TwoTurnsTyped DEF LastKept
    <1>2. IsFiniteSet({})
        BY FS_EmptySet
    <1>3. CASE u.role = "user"
        <2>1. PICK r : r = Append(s, u)
            OBVIOUS
        <2>2. r \in Seq(Turns) /\ Settled(r) /\ UsesAtEnd(r) = UsesIn(u) /\ Following(r, t)
            BY <1>1, <1>3, <2>1, LastAnswers, EndOfMore, AppendProperties
        <2>3. UsesIn(u) = <<>>
            BY <1>3 DEF LastKept
        <2>4. LastKept(r, t, new, {})
            BY <1>2, <2>2, <2>3 DEF LastKept
        <2>5. MergedWith(Append(s, u), t) = Append(r, t)
            BY <1>1, <1>3, <2>1, MergedMore
        <2> QED
            BY <2>2, <2>4, <2>5 DEF KeptAs
    <1>4. CASE u.role = "assistant"
        <2>1. PICK v : v = TwoTurns(u, t)
            OBVIOUS
        <2>2. v \in Turns /\ v.role = "assistant"
            BY <1>1, <1>4, <2>1, TwoTurnsTyped
        <2>3. /\ done = {} /\ UsesIn(u) = UsesOf(cs) /\ ResultsIn(u) = <<>> /\ UsesAtEnd(s) = <<>>
            BY <1>4 DEF LastKept
        <2>4. UsesOf(cs) = <<>>
            BY <2>3, NoCalls
        <2>5. UsesOf(new) \in Seq(Blocks)
            BY UsesMade
        <2>6. UsesIn(v) = UsesOf(new) /\ ResultsIn(v) = <<>>
            <3>1. UsesIn(v) = UsesIn(u) \o UsesIn(t) /\ ResultsIn(v) = ResultsIn(u) \o ResultsIn(t)
                BY <1>1, <2>1, TurnsMerged
            <3>2. PICK e : e = <<>>
                OBVIOUS
            <3>3. e \o UsesOf(new) = UsesOf(new) /\ e \o e = e
                BY <2>5, <3>2, ConcatEmptySeq
            <3> QED
                BY <2>3, <2>4, <3>1, <3>2, <3>3
        <2>7. Following(s, v)
            BY <1>4, <2>2 DEF LastKept, Following
        <2>8. LastKept(s, v, new, {})
            BY <1>2, <2>2, <2>3, <2>6, <2>7 DEF LastKept
        <2>9. MergedWith(Append(s, u), t) = Append(s, v)
            BY <1>1, <1>4, <2>1, MergedMore
        <2> QED
            BY <1>1, <2>2, <2>8, <2>9 DEF KeptAs
    <1> QED
        BY <1>1, <1>3, <1>4

\* A turn of the user's that answers one of the calls.
LEMMA KeptTool ==
    ASSUME NEW s, NEW u, NEW cs \in Seq(CallForm), NEW done, LastKept(s, u, cs, done),
           Distinct(cs), NEW id \in CallIds(cs), id \notin done,
           NEW t \in Turns, t.role = "user", NEW b \in Blocks, t.content = <<b>>,
           b.type = "tool_result", b.tool_use_id = id
    PROVE  KeptAs(MergedWith(Append(s, u), t), cs, done \cup {id})
    <1>1. /\ s \in Seq(Turns) /\ u \in Turns /\ u.role \in {"user", "assistant"}
          /\ u.content \in Seq(Blocks)
        BY TwoTurnsTyped DEF LastKept
    <1>2. PICK given : given = done \cup {id}
        OBVIOUS
    <1>3. IsFiniteSet(done) /\ IsFiniteSet(given) /\ Cardinality(given) = Cardinality(done) + 1
        <2>1. IsFiniteSet(done)
            BY DEF LastKept
        <2> QED
            BY <1>2, <2>1, FS_AddElement
    <1>4. PICK e \in Seq(Blocks) : e = <<>>
        BY EmptySeq
    <1>5. PICK one : one = Append(e, b)
        OBVIOUS
    <1>6. /\ t.content = one /\ UsesIn(t) = e /\ ResultsIn(t) = one
          /\ one \in Seq(Blocks) /\ Len(one) = 1 /\ one[1] = b /\ DOMAIN one = {1}
        <2>1. t.content = one
            BY <1>4, <1>5
        <2>2. one \in Seq(Blocks) /\ Len(one) = 1 /\ one[1] = b /\ DOMAIN one = {1}
            BY <1>4, <1>5
        <2>3. Kinds(one, "tool_use") = Kinds(e, "tool_use")
              /\ Kinds(one, "tool_result") = Append(Kinds(e, "tool_result"), b)
            BY <1>5, KindsOfMore
        <2>4. Kinds(e, "tool_use") = e /\ Kinds(e, "tool_result") = e
            BY <1>4, KindsOfNone
        <2> QED
            BY <1>5, <2>1, <2>2, <2>3, <2>4 DEF UsesIn, ResultsIn
    <1>7. CASE u.role = "user"
        <2>1. PICK v : v = TwoTurns(u, t)
            OBVIOUS
        <2>2. v \in Turns /\ v.role = "user" /\ v.content = u.content \o t.content
            BY <1>1, <1>7, <2>1, TwoTurnsTyped
        <2>3. PICK rs \in Seq(Blocks) : rs = ResultsIn(u)
            BY <1>1, TurnsMerged
        <2>4. /\ UsesIn(u) = <<>> /\ UsesAtEnd(s) = UsesOf(cs) /\ IdsOf(rs, "tool_use_id") = done
              /\ Len(rs) = Cardinality(done) /\ ResultsFirst(u) /\ Len(rs) = Len(u.content)
            BY <1>7, <2>3 DEF LastKept
        <2>5. UsesIn(v) = <<>> /\ ResultsIn(v) = Append(rs, b)
            <3>1. UsesIn(v) = UsesIn(u) \o UsesIn(t) /\ ResultsIn(v) = ResultsIn(u) \o ResultsIn(t)
                BY <1>1, <2>1, TurnsMerged
            <3>2. e \o e = e /\ rs \o <<b>> = Append(rs, b) /\ one = <<b>>
                BY <1>4, <1>5, ConcatEmptySeq, AppendIsConcat
            <3> QED
                BY <1>4, <1>6, <2>3, <2>4, <3>1, <3>2
        <2>6. PICK w, c : w = Append(rs, b) /\ c = Append(u.content, b)
            OBVIOUS
        <2>7. v.content = c
            <3>1. Append(u.content, b) = u.content \o <<b>>
                BY <1>1, AppendIsConcat
            <3>2. one = <<b>>
                BY <1>4, <1>5
            <3> QED
                BY <1>6, <2>2, <2>6, <3>1, <3>2
        <2>8. PICK n \in Nat : n = Len(rs) /\ n = Len(u.content)
            BY <2>4, LenProperties
        <2>9. /\ Len(w) = n + 1 /\ DOMAIN w = 1..n + 1
              /\ Len(c) = n + 1 /\ c[n + 1] = b /\ \A j \in 1..n : c[j] = u.content[j]
            <3>1. w \in Seq(Blocks) /\ Len(w) = n + 1
                <4>1. Append(rs, b) \in Seq(Blocks) /\ Len(Append(rs, b)) = Len(rs) + 1
                    BY ONLY rs \in Seq(Blocks), b \in Blocks, AppendProperties
                <4> QED
                    BY <2>6, <2>8, <4>1
            <3>2. /\ Len(c) = Len(u.content) + 1 /\ c[Len(u.content) + 1] = b
                  /\ \A j \in 1..Len(u.content) : c[j] = u.content[j]
                <4>1. PICK d \in Seq(Blocks) : d = u.content
                    BY <1>1
                <4>2. /\ Len(Append(d, b)) = Len(d) + 1 /\ Append(d, b)[Len(d) + 1] = b
                      /\ \A j \in 1..Len(d) : Append(d, b)[j] = d[j]
                    BY AppendProperties
                <4> QED
                    BY <2>6, <4>1, <4>2
            <3> QED
                BY <2>8, <3>1, <3>2, LenProperties
        <2>10. ResultsFirst(v)
            <3>1. DOMAIN rs = 1..n
                BY <2>8, LenProperties
            <3>2. \A j \in 1..n : u.content[j].type = "tool_result"
                BY <2>3, <2>4, <3>1 DEF ResultsFirst
            <3>3. \A j \in 1..n + 1 : c[j].type = "tool_result"
                BY <2>9, <3>2
            <3> QED
                BY <2>5, <2>6, <2>7, <2>9, <3>3 DEF ResultsFirst
        <2>11. IdsOf(w, "tool_use_id") = given
            <3>1. b["tool_use_id"] = id
                OBVIOUS
            <3>2. IdsOf(w, "tool_use_id") = IdsOf(rs, "tool_use_id") \cup {b["tool_use_id"]}
                BY <2>6, IdsOfMore
            <3> QED
                BY <1>2, <2>4, <3>1, <3>2
        <2>12. Following(s, v)
            BY <1>7, <2>2 DEF LastKept, Following
        <2>13. LastKept(s, v, cs, given)
            BY <1>3, <2>2, <2>4, <2>5, <2>6, <2>7, <2>8, <2>9, <2>10, <2>11, <2>12 DEF LastKept
        <2>14. MergedWith(Append(s, u), t) = Append(s, v)
            BY <1>1, <1>7, <2>1, MergedMore
        <2> QED
            BY <1>1, <1>2, <2>2, <2>13, <2>14 DEF KeptAs
    <1>8. CASE u.role = "assistant"
        <2>1. PICK r : r = Append(s, u)
            OBVIOUS
        <2>2. r \in Seq(Turns) /\ Settled(r) /\ UsesAtEnd(r) = UsesIn(u) /\ Following(r, t)
            BY <1>1, <1>8, <2>1, LastAnswers, EndOfMore, AppendProperties
        <2>3. done = {} /\ UsesIn(u) = UsesOf(cs)
            BY <1>8 DEF LastKept
        <2>4. Cardinality(given) = 1
            BY <1>3, <2>3, FS_EmptySet
        <2>5. ResultsFirst(t)
            BY <1>6 DEF ResultsFirst
        <2>6. IdsOf(one, "tool_use_id") = given
            <3>1. b["tool_use_id"] = id
                OBVIOUS
            <3>2. IdsOf(one, "tool_use_id") = IdsOf(e, "tool_use_id") \cup {b["tool_use_id"]}
                BY <1>5, IdsOfMore
            <3>3. IdsOf(e, "tool_use_id") = {}
                BY <1>4, IdsOfNone
            <3> QED
                BY <1>2, <2>3, <3>1, <3>2, <3>3
        <2>7. LastKept(r, t, cs, given)
            BY <1>3, <1>4, <1>6, <2>2, <2>3, <2>4, <2>5, <2>6 DEF LastKept
        <2>8. MergedWith(Append(s, u), t) = Append(r, t)
            BY <1>1, <1>8, <2>1, MergedMore
        <2> QED
            BY <1>2, <2>2, <2>7, <2>8 DEF KeptAs
    <1> QED
        BY <1>1, <1>7, <1>8

AnthropicKept(ms) ==
    /\ CallsIn(ms) \in Seq(CallForm) /\ Distinct(CallsIn(ms))
    /\ AnsweredIn(ms) \subseteq CallIds(CallsIn(ms))
    /\ Converted(ms) = <<>> => CallsIn(ms) = <<>> /\ AnsweredIn(ms) = {}
    /\ KeptAs(ConvertMessages(ms), CallsIn(ms), AnsweredIn(ms))

LEMMA NoCallsDistinct ==
    <<>> \in Seq(CallForm) /\ Distinct(<<>>) /\ CallIds(<<>>) = {}
    <1>1. PICK e : e = <<>>
        OBVIOUS
    <1>2. e \in Seq(CallForm) /\ DOMAIN e = {}
        BY <1>1
    <1>3. Distinct(e) /\ CallIds(e) = {}
        BY <1>2 DEF Distinct, CallIds
    <1> QED
        BY <1>1, <1>2, <1>3

LEMMA FirstKept ==
    ASSUME NEW u \in Turns, u.role = "user", UsesIn(u) = <<>>, ResultsIn(u) = <<>>
    PROVE  \E s \in Seq(Turns) : <<u>> = Append(s, u) /\ LastKept(s, u, <<>>, {})
    <1>1. PICK e \in Seq(Turns) : e = <<>>
        BY EmptySeq
    <1>2. Append(e, u) = <<u>>
        BY <1>1
    <1>3. LastKept(e, u, <<>>, {})
        BY <1>1, KeptOne
    <1> QED
        BY <1>2, <1>3

LEMMA FillerKept ==
    ASSUME NEW text \in Seq(Words), WordsTell(text) = <<>>
    PROVE  \E u \in Turns, s \in Seq(Turns) :
              /\ u = UserSays(text) /\ <<u>> = Append(s, u) /\ LastKept(s, u, <<>>, {})
    <1>1. PICK u \in Turns : u = UserSays(text)
        BY FillerTurn
    <1>2. u.role = "user" /\ UsesIn(u) = <<>> /\ ResultsIn(u) = <<>>
        BY <1>1, FillerTurn DEF UsesIn, ResultsIn
    <1> QED
        BY <1>1, <1>2, FirstKept

LEMMA AnthropicKeptNone == AnthropicKept(<<>>)
    <1>1. CallsIn(<<>>) = <<>> /\ AnsweredIn(<<>>) = {}
        BY BooksNone
    <1>2. PICK u \in Turns, s \in Seq(Turns) :
             u = UserSays(<<>>) /\ <<u>> = Append(s, u) /\ LastKept(s, u, <<>>, {})
        BY Fillers, FillerKept
    <1>3. ConvertMessages(<<>>) = Append(s, u)
        BY <1>2, ConvertNone
    <1> QED
        BY <1>1, <1>2, <1>3, NoCallsDistinct DEF AnthropicKept, KeptAs

LEMMA AnthropicKeptNext ==
    ASSUME NEW ms \in Seq(MessageForm), AnthropicKept(ms), NEW m, MayFollow(ms, m)
    PROVE  AnthropicKept(Append(ms, m))
    <1>1. m \in MessageForm /\ m.role \in {"system", "user", "assistant", "tool"}
          /\ m.calls \in Seq(CallForm)
        BY MessageFields DEF MayFollow
    <1>2. PICK more : more = Append(ms, m)
        OBVIOUS
    <1>3. PICK cs, done : cs = CallsIn(ms) /\ done = AnsweredIn(ms)
        OBVIOUS
    <1>4. /\ cs \in Seq(CallForm) /\ Distinct(cs) /\ done \subseteq CallIds(cs)
          /\ Converted(ms) = <<>> => cs = <<>> /\ done = {}
        BY <1>3 DEF AnthropicKept
    <1>5. PICK s \in Seq(Turns), u \in Turns :
             ConvertMessages(ms) = Append(s, u) /\ LastKept(s, u, cs, done)
        BY <1>3 DEF AnthropicKept, KeptAs
    <1>6. /\ CallsIn(more) = IF m.role = "assistant" THEN m.calls ELSE cs
          /\ AnsweredIn(more) = IF m.role = "assistant" THEN {}
                                ELSE IF m.role = "tool" THEN done \cup {m.id} ELSE done
        BY <1>1, <1>2, <1>3, BooksNext
    <1>7. m.role # "tool" => done = CallIds(cs)
        BY <1>3, <1>4, OwedIs DEF MayFollow
    <1>8. CASE m.role = "system"
        <2>1. ConvertMessages(more) = ConvertMessages(ms) /\ Converted(more) = Converted(ms)
            BY <1>1, <1>2, <1>8, ConvertSystem
        <2>2. CallsIn(more) = cs /\ AnsweredIn(more) = done
            BY <1>6, <1>8
        <2>3. AnthropicKept(more)
            BY <1>4, <1>5, <2>1, <2>2 DEF AnthropicKept, KeptAs
        <2> QED
            BY <1>2, <2>3
    <1>9. CASE m.role = "user"
        <2>1. PICK t \in Turns :
                 /\ ConvertMessage(m) = <<t>> /\ t.role = "user"
                 /\ UsesIn(t) = <<>> /\ ResultsIn(t) = <<>>
            BY <1>1, <1>9, MessageFields, UserTurn DEF UsesIn, ResultsIn
        <2>2. CallsIn(more) = cs /\ AnsweredIn(more) = done
            BY <1>6, <1>9
        <2>3. Converted(more) # <<>>
            BY <1>1, <1>2, <2>1, ConvertOther
        <2>4. KeptAs(ConvertMessages(more), cs, done)
            <3>1. CASE Converted(ms) # <<>>
                <4>1. ConvertMessages(more) = MergedWith(Append(s, u), t)
                    BY <1>1, <1>2, <1>5, <2>1, <3>1, ConvertOther
                <4>2. done = CallIds(cs)
                    BY <1>7, <1>9
                <4> QED
                    BY <1>4, <1>5, <2>1, <4>1, <4>2, KeptUser
            <3>2. CASE Converted(ms) = <<>>
                <4>1. ConvertMessages(more) = <<t>>
                    BY <1>1, <1>2, <2>1, <3>2, ConvertOther
                <4>2. PICK s2 \in Seq(Turns) : <<t>> = Append(s2, t) /\ LastKept(s2, t, <<>>, {})
                    BY <2>1, FirstKept
                <4>3. cs = <<>> /\ done = {}
                    BY <1>4, <3>2
                <4> QED
                    BY <4>1, <4>2, <4>3 DEF KeptAs
            <3> QED
                BY <3>1, <3>2
        <2>5. AnthropicKept(more)
            BY <1>4, <2>2, <2>3, <2>4 DEF AnthropicKept
        <2> QED
            BY <1>2, <2>5
    <1>10. CASE m.role = "assistant"
        <2>1. PICK t \in Turns :
                 /\ ConvertMessage(m) = <<t>> /\ t.role = "assistant"
                 /\ UsesIn(t) = UsesOf(m.calls) /\ ResultsIn(t) = <<>>
            BY <1>1, <1>10, MessageFields, AssistantTurn DEF UsesIn, ResultsIn
        <2>2. CallsIn(more) = m.calls /\ AnsweredIn(more) = {}
            BY <1>6, <1>10
        <2>3. Converted(more) # <<>>
            BY <1>1, <1>2, <2>1, ConvertOther
        <2>4. Distinct(m.calls)
            BY <1>10 DEF MayFollow
        <2>5. KeptAs(ConvertMessages(more), m.calls, {})
            <3>1. CASE Converted(ms) # <<>>
                <4>1. ConvertMessages(more) = MergedWith(Append(s, u), t)
                    BY <1>1, <1>2, <1>5, <2>1, <3>1, ConvertOther
                <4>2. done = CallIds(cs)
                    BY <1>7, <1>10
                <4> QED
                    BY <1>1, <1>4, <1>5, <2>1, <4>1, <4>2, KeptAssistant
            <3>2. CASE Converted(ms) = <<>>
                <4>1. PICK f \in Turns, e \in Seq(Turns) :
                         f = UserSays(<<Filler>>) /\ <<f>> = Append(e, f) /\ LastKept(e, f, <<>>, {})
                    BY Fillers, FillerKept
                <4>2. ConvertMessages(more) = MergedWith(Append(e, f), t)
                    BY <1>1, <1>2, <2>1, <3>2, <4>1, ConvertOther
                <4>3. PICK no : no = <<>>
                    OBVIOUS
                <4>4. no \in Seq(CallForm) /\ Distinct(no) /\ CallIds(no) = {} /\ LastKept(e, f, no, {})
                    BY <4>1, <4>3, NoCallsDistinct
                <4> QED
                    BY <1>1, <2>1, <4>2, <4>4, KeptAssistant
            <3> QED
                BY <3>1, <3>2
        <2>6. AnthropicKept(more)
            BY <1>1, <2>2, <2>3, <2>4, <2>5 DEF AnthropicKept
        <2> QED
            BY <1>2, <2>6
    <1>11. CASE m.role = "tool"
        <2>1. PICK t \in Turns, b \in Blocks :
                 /\ ConvertMessage(m) = <<t>> /\ t.role = "user" /\ t.content = <<b>>
                 /\ b.type = "tool_result" /\ b.tool_use_id = m.id
            BY <1>1, <1>11, MessageFields, ToolTurn
        <2>2. CallsIn(more) = cs /\ AnsweredIn(more) = done \cup {m.id}
            BY <1>6, <1>11
        <2>3. m.id \in CallIds(cs) /\ m.id \notin done
            BY <1>3, <1>4, <1>11, OwedIs DEF MayFollow
        <2>4. Converted(more) # <<>>
            BY <1>1, <1>2, <2>1, ConvertOther
        <2>5. Converted(ms) # <<>>
            BY <1>4, <2>3, NoCallsDistinct
        <2>6. ConvertMessages(more) = MergedWith(Append(s, u), t)
            BY <1>1, <1>2, <1>5, <2>1, <2>5, ConvertOther
        <2>7. KeptAs(MergedWith(Append(s, u), t), cs, done \cup {m.id})
            BY <1>4, <1>5, <2>1, <2>3, KeptTool
        <2>8. AnthropicKept(more)
            BY <1>4, <2>2, <2>3, <2>4, <2>6, <2>7 DEF AnthropicKept
        <2> QED
            BY <1>2, <2>8
    <1> QED
        BY <1>1, <1>8, <1>9, <1>10, <1>11

\* With no call left to answer, calls and answers are paired.
LEMMA PairedWhenAnswered ==
    ASSUME NEW ms \in Seq(MessageForm), AnthropicKept(ms), OwedIn(ms) = {}
    PROVE  AnthropicPaired(ConvertMessages(ms))
    <1>1. PICK cs, done : cs = CallsIn(ms) /\ done = AnsweredIn(ms)
        OBVIOUS
    <1>2. /\ cs \in Seq(CallForm) /\ Distinct(cs) /\ done \subseteq CallIds(cs)
        BY <1>1 DEF AnthropicKept
    <1>3. PICK s \in Seq(Turns), u \in Turns :
             ConvertMessages(ms) = Append(s, u) /\ LastKept(s, u, cs, done)
        BY <1>1 DEF AnthropicKept, KeptAs
    <1>4. done = CallIds(cs)
        BY <1>1, <1>2, OwedIs
    <1>5. PICK r : r = Append(s, u)
        OBVIOUS
    <1>6. Settled(r)
        BY <1>2, <1>3, <1>4, <1>5, LastAnswers
    <1>7. PICK n \in Nat : Len(r) = n + 1 /\ DOMAIN r = 1..n + 1 /\ Last(r) = u
        <2>1. r \in Seq(Turns) /\ Len(r) = Len(s) + 1 /\ Len(s) \in Nat
            BY <1>5, AppendProperties, LenProperties
        <2>2. Last(r) = u
            BY <1>5, FrontLast
        <2> QED
            BY <2>1, <2>2, LenProperties
    <1>8. UsesIn(u) = <<>>
        <2>1. u.role \in {"user", "assistant"}
            BY TwoTurnsTyped
        <2>2. CASE u.role = "user"
            BY <1>3, <2>2 DEF LastKept
        <2>3. CASE u.role = "assistant"
            <3>1. UsesIn(u) = UsesOf(cs) /\ CallIds(cs) = {}
                BY <1>3, <1>4, <2>3 DEF LastKept
            <3> QED
                BY <1>2, <3>1, NoCalls
        <2> QED
            BY <2>1, <2>2, <2>3
    <1>9. \A i \in 1..n + 1 :
             /\ IF i = 1 THEN r[i].role = "user" ELSE r[i].role # r[i - 1].role
             /\ AnswersAll(r[i], UsesBefore(r, i))
        BY <1>6, <1>7 DEF Settled
    <1>10. r[1].role = "user"
        BY <1>9
    <1>11. \A i \in 1..Len(r) - 1 : r[i].role # r[i + 1].role
        <2> SUFFICES ASSUME NEW i \in 1..n PROVE r[i].role # r[i + 1].role
            BY <1>7
        <2>1. i + 1 \in 1..n + 1 /\ i + 1 # 1 /\ (i + 1) - 1 = i
            OBVIOUS
        <2> QED
            BY <1>9, <2>1
    <1>12. \A i \in DOMAIN r : AnswersAll(r[i], UsesBefore(r, i))
        BY <1>7, <1>9
    <1>13. AnthropicPaired(r)
        BY <1>7, <1>8, <1>10, <1>11, <1>12
           DEF AnthropicPaired, AnswersAll, UsesBefore, UsesIn, ResultsIn, ResultsFirst
    <1> QED
        BY <1>3, <1>5, <1>13

-----------------------------------------------------------------------------
(***************************************************************************)
(* Every request.  While the client writes, the conversation keeps what    *)
(* either adapter needs (Conversation); once it is sent, the candidates    *)
(* have it as it was asked, or with the formats that MiMo's wrote into it. *)
(***************************************************************************)
Conversation(ms) == ms \in Seq(MessageForm) /\ GeminiKept(ms) /\ AnthropicKept(ms)

Asked ==
    /\ Conversation(asked) /\ OwedIn(asked) = {}
    /\ msgs \in {asked, WithFormats(asked)}
    /\ opts.choice \in ToolChoices

RequestInv ==
    /\ phase = "compose" => Conversation(msgs)
    /\ phase \in {"asked", "sent"} => Asked
    /\ phase = "sent" => provider \in Providers

LEMMA ConversationNone == Conversation(<<>>)
    BY GeminiKeptNone, AnthropicKeptNone, EmptySeq DEF Conversation

LEMMA ConversationNext ==
    ASSUME NEW ms, Conversation(ms), NEW m, MayFollow(ms, m)
    PROVE  Conversation(Append(ms, m))
    <1>1. ms \in Seq(MessageForm) /\ m \in MessageForm
        BY DEF Conversation, MayFollow
    <1>2. Append(ms, m) \in Seq(MessageForm)
        BY <1>1, AppendProperties
    <1> QED
        BY <1>1, <1>2, GeminiKeptNext, AnthropicKeptNext DEF Conversation

LEMMA PendingOwed == Pending = OwedIn(msgs)
    <1>1. LastAssistant = LastIn(msgs)
        BY DEF LastAssistant, LastIn, AssistantsIn
    <1>2. Answered = AnsweredIn(msgs)
        BY <1>1 DEF Answered, AnsweredIn
    <1>3. CASE LastIn(msgs) = 0
        <2>1. PICK e : e = <<>>
            OBVIOUS
        <2>2. CallsIn(msgs) = e /\ DOMAIN e = {}
            BY <1>3, <2>1 DEF CallsIn
        <2>3. OwedIn(msgs) = {}
            BY <2>2 DEF OwedIn
        <2> QED
            BY <1>1, <1>3, <2>3 DEF Pending
    <1>4. CASE LastIn(msgs) # 0
        BY <1>1, <1>2, <1>4 DEF Pending, OwedIn, CallsIn
    <1> QED
        BY <1>3, <1>4

\* The items that a client writes.
LEMMA Stamps ==
    ASSUME Len(msgs) \in Nat, NEW S, S \subseteq [type : ItemTypes, src : Sources, fmt : Formats],
           NEW items \in Seq(S), NEW T, T \subseteq ItemForm,
           \A x \in S, y \in ItemForm :
              y.type = x.type /\ y.src = x.src /\ y.fmt = x.fmt => y \in T
    PROVE  Stamp(items) \in Seq(T)
    <1>1. Len(items) \in Nat /\ DOMAIN items = 1..Len(items) /\ \A i \in 1..Len(items) : items[i] \in S
        BY LenProperties, ElementOfSeq
    <1>2. PICK n \in Nat \ {0} : n = Len(msgs) + 1
        OBVIOUS
    <1>3. ASSUME NEW x \in S
          PROVE  [type |-> x.type, src |-> x.src, fmt |-> x.fmt, id |-> n] \in T
        <2>1. x.type \in ItemTypes /\ x.src \in Sources /\ x.fmt \in Formats
            OBVIOUS
        <2>2. PICK y : y = [type |-> x.type, src |-> x.src, fmt |-> x.fmt, id |-> n]
            OBVIOUS
        <2>3. y \in ItemForm /\ y.type = x.type /\ y.src = x.src /\ y.fmt = x.fmt
            BY <2>1, <2>2 DEF ItemForm
        <2> QED
            BY <2>2, <2>3
    <1>4. Stamp(items) = [i \in 1..Len(items) |-> [type |-> items[i].type, src |-> items[i].src,
                                                   fmt |-> items[i].fmt, id |-> n]]
        BY <1>1, <1>2 DEF Stamp
    <1>5. Stamp(items) \in [1..Len(items) -> T]
        BY <1>1, <1>3, <1>4
    <1> QED
        BY <1>1, <1>5

LEMMA StampedUser ==
    ASSUME Len(msgs) \in Nat, NEW content \in UserContents
    PROVE  Stamp(content) \in Seq(ItemForm)
    <1>1. PICK S : S = [type : ItemTypes, src : Sources, fmt : STRING]
        OBVIOUS
    <1>2. content \in Seq(S)
        BY <1>1, ExchangeAssumption
    <1>3. S \subseteq [type : ItemTypes, src : Sources, fmt : Formats]
        BY <1>1 DEF Formats
    <1> QED
        BY <1>2, <1>3, Stamps

LEMMA StampedText ==
    ASSUME Len(msgs) \in Nat
    PROVE  /\ Said \in Seq(TextItems)
           /\ \A pictured \in BOOLEAN :
                 Stamp(<<TextItem>> \o IF pictured THEN <<Picture>> ELSE <<>>) \in Seq(AnswerItems)
    <1>1. PICK x, y : x = TextItem /\ y = Picture
        OBVIOUS
    <1>2. /\ x \in [type : ItemTypes, src : Sources, fmt : Formats] /\ x.type = "text"
          /\ y \in [type : ItemTypes, src : Sources, fmt : Formats] /\ y.type = "image_url"
        BY <1>1 DEF TextItem, Picture, ItemTypes, Sources, Formats
    <1>3. TextItems \subseteq ItemForm /\ AnswerItems \subseteq ItemForm
        BY DEF TextItems, AnswerItems
    <1>4. Said \in Seq(TextItems)
        <2>1. PICK one : one = <<x>>
            OBVIOUS
        <2>2. PICK S : S = {x}
            OBVIOUS
        <2>3. one \in Seq(S) /\ S \subseteq [type : ItemTypes, src : Sources, fmt : Formats]
            BY <1>2, <2>1, <2>2
        <2>4. \A v \in S, w \in ItemForm :
                 w.type = v.type /\ w.src = v.src /\ w.fmt = v.fmt => w \in TextItems
            BY <1>2, <2>2 DEF TextItems
        <2>5. Stamp(one) \in Seq(TextItems)
            BY <1>3, <2>3, <2>4, Stamps
        <2> QED
            BY <1>1, <2>1, <2>5 DEF Said
    <1>5. ASSUME NEW pictured \in BOOLEAN
          PROVE  Stamp(<<TextItem>> \o IF pictured THEN <<Picture>> ELSE <<>>) \in Seq(AnswerItems)
        <2>1. PICK all : all = <<x>> \o IF pictured THEN <<y>> ELSE <<>>
            OBVIOUS
        <2>2. PICK S : S = {x, y}
            OBVIOUS
        <2>3. all \in Seq(S) /\ S \subseteq [type : ItemTypes, src : Sources, fmt : Formats]
            <3>1. <<x>> \in Seq(S) /\ <<y>> \in Seq(S) /\ <<>> \in Seq(S)
                BY <2>2, SingleList, EmptySeq
            <3>2. (IF pictured THEN <<y>> ELSE <<>>) \in Seq(S)
                BY <3>1
            <3>3. all \in Seq(S)
                BY <2>1, <3>1, <3>2, ConcatProperties
            <3> QED
                BY <1>2, <2>2, <3>3
        <2>4. \A v \in S, w \in ItemForm :
                 w.type = v.type /\ w.src = v.src /\ w.fmt = v.fmt => w \in AnswerItems
            BY <1>2, <2>2 DEF AnswerItems
        <2>5. Stamp(all) \in Seq(AnswerItems)
            BY <1>3, <2>3, <2>4, Stamps
        <2> QED
            BY <1>1, <2>1, <2>5
    <1> QED
        BY <1>4, <1>5

\* What a client writes may follow what it has written.
Writes(m) == MayFollow(msgs, m) /\ msgs' = Append(msgs, m) /\ phase' = "compose" /\ phase = "compose"

LEMMA SystemMayWrite ==
    ASSUME Conversation(msgs), SystemSays
    PROVE  \E m : Writes(m)
    <1>1. PICK m : m = [role |-> "system", content |-> Said, calls |-> <<>>]
        OBVIOUS
    <1>2. OwedIn(msgs) = {} /\ Write(m)
        BY <1>1, PendingOwed DEF SystemSays
    <1>3. Said \in Seq(TextItems)
        BY StampedText, LenProperties DEF Conversation
    <1>4. m \in SystemForm /\ m.role = "system"
        BY <1>1, <1>3 DEF SystemForm
    <1>5. MayFollow(msgs, m)
        BY <1>2, <1>4 DEF MayFollow, MessageForm
    <1> QED
        BY <1>2, <1>5 DEF Writes, Write

LEMMA UserMayWrite ==
    ASSUME Conversation(msgs), NEW content \in UserContents, UserWrites(content)
    PROVE  \E m : Writes(m)
    <1>1. PICK m : m = [role |-> "user", content |-> Stamp(content), calls |-> <<>>]
        OBVIOUS
    <1>2. OwedIn(msgs) = {} /\ Write(m)
        BY <1>1, PendingOwed DEF UserWrites
    <1>3. Stamp(content) \in Seq(ItemForm)
        BY StampedUser, LenProperties DEF Conversation
    <1>4. m \in UserForm /\ m.role = "user"
        BY <1>1, <1>3 DEF UserForm
    <1>5. MayFollow(msgs, m)
        BY <1>2, <1>4 DEF MayFollow, MessageForm
    <1> QED
        BY <1>2, <1>5 DEF Writes, Write

LEMMA AssistantMayWrite ==
    ASSUME Conversation(msgs), NEW text \in BOOLEAN, NEW calls \in CallLists, AssistantSaid(text, calls)
    PROVE  \E m : Writes(m)
    <1>1. PICK m : m = [role |-> "assistant", content |-> IF text THEN Said ELSE <<>>, calls |-> calls]
        OBVIOUS
    <1>2. OwedIn(msgs) = {} /\ Write(m)
        BY <1>1, PendingOwed DEF AssistantSaid
    <1>3. Said \in Seq(TextItems)
        BY StampedText, LenProperties DEF Conversation
    <1>4. calls \in Seq(CallForm) /\ Distinct(calls)
        BY ExchangeAssumption DEF CallForm, Distinct
    <1>5. m \in AssistantForm /\ m.role = "assistant" /\ m.calls = calls
        <2>1. (IF text THEN Said ELSE <<>>) \in Seq(TextItems)
            BY <1>3, EmptySeq
        <2> QED
            BY <1>1, <1>4, <2>1 DEF AssistantForm
    <1>6. MayFollow(msgs, m)
        BY <1>2, <1>4, <1>5 DEF MayFollow, MessageForm
    <1> QED
        BY <1>2, <1>6 DEF Writes, Write

LEMMA ToolMayWrite ==
    ASSUME Conversation(msgs), NEW c \in Pending, NEW pictured \in BOOLEAN, NEW named \in BOOLEAN,
           ToolAnswers(c, pictured, named)
    PROVE  \E m : Writes(m)
    <1>1. PICK items : items = Stamp(<<TextItem>> \o IF pictured THEN <<Picture>> ELSE <<>>)
        OBVIOUS
    <1>2. PICK m : m = [role |-> "tool", id |-> c.id, name |-> c.name, named |-> named,
                        content |-> items, calls |-> <<>>]
        OBVIOUS
    <1>3. Write(m)
        BY <1>1, <1>2 DEF ToolAnswers
    <1>4. items \in Seq(AnswerItems)
        BY <1>1, StampedText, LenProperties DEF Conversation
    <1>5. c \in OwedIn(msgs) /\ c.id \in CallId /\ c.name \in ToolName
        <2>1. c \in OwedIn(msgs)
            BY PendingOwed
        <2>2. CallsIn(msgs) \in Seq(CallForm)
            BY DEF Conversation, AnthropicKept
        <2>3. PICK i \in DOMAIN CallsIn(msgs) : c = CallsIn(msgs)[i]
            BY <2>1 DEF OwedIn
        <2>4. c \in CallForm
            BY <2>2, <2>3, LenProperties, ElementOfSeq
        <2> QED
            BY <2>1, <2>4 DEF CallForm
    <1>6. m \in ToolForm /\ m.role = "tool" /\ m.id = c.id /\ m.name = c.name
        BY <1>2, <1>4, <1>5 DEF ToolForm
    <1>7. MayFollow(msgs, m)
        BY <1>5, <1>6 DEF MayFollow, MessageForm
    <1> QED
        BY <1>3, <1>7 DEF Writes, Write

LEMMA RequestStep ==
    ASSUME RequestInv, Next
    PROVE  RequestInv'
    <1>1. ASSUME NEW m, Conversation(msgs), Writes(m) PROVE RequestInv'
        <2>1. Conversation(Append(msgs, m))
            BY <1>1, ConversationNext DEF Writes
        <2>2. Conversation(msgs')
            BY <1>1, <2>1 DEF Writes
        <2>3. phase' = "compose" /\ Conversation(msgs)'
            BY <1>1, <2>2 DEF Writes
        <2> QED
            BY <2>3 DEF RequestInv
    <1>2. phase = "compose" => Conversation(msgs)
        BY DEF RequestInv
    <1>3. CASE Compose
        <2>1. CASE SystemSays
            <3>1. Conversation(msgs)
                BY <1>2, <2>1 DEF SystemSays, Write
            <3> QED
                BY <1>1, <2>1, <3>1, SystemMayWrite
        <2>2. CASE \E content \in UserContents : UserWrites(content)
            <3>1. Conversation(msgs)
                BY <1>2, <2>2 DEF UserWrites, Write
            <3> QED
                BY <1>1, <2>2, <3>1, UserMayWrite
        <2>3. CASE \E text \in BOOLEAN, calls \in CallLists : AssistantSaid(text, calls)
            <3>1. Conversation(msgs)
                BY <1>2, <2>3 DEF AssistantSaid, Write
            <3> QED
                BY <1>1, <2>3, <3>1, AssistantMayWrite
        <2>4. CASE \E c \in Pending, pictured, named \in BOOLEAN : ToolAnswers(c, pictured, named)
            <3>1. Conversation(msgs)
                BY <1>2, <2>4 DEF ToolAnswers, Write
            <3> QED
                BY <1>1, <2>4, <3>1, ToolMayWrite
        <2>5. CASE \E o \in Options : Ask(o)
            <3>1. PICK o \in Options : Ask(o)
                BY <2>5
            <3>2. o.choice \in ToolChoices
                BY ExchangeAssumption
            <3>3. /\ phase = "compose" /\ phase' = "asked" /\ asked' = msgs /\ msgs' = msgs /\ opts' = o
                  /\ OwedIn(msgs) = {}
                BY <3>1, PendingOwed DEF Ask
            <3>4. PICK ms : ms = msgs
                OBVIOUS
            <3>5. Conversation(ms) /\ OwedIn(ms) = {} /\ asked' = ms /\ msgs' = ms
                BY <1>2, <3>3, <3>4
            <3>6. Asked'
                BY <3>2, <3>3, <3>5 DEF Asked
            <3> QED
                BY <3>3, <3>6 DEF RequestInv
        <2> QED
            BY <1>3, <2>1, <2>2, <2>3, <2>4, <2>5 DEF Compose
    <1>4. CASE \E p \in Providers : Try(p)
        <2>1. PICK p \in Providers : Try(p)
            BY <1>4
        <2>2. /\ phase \in {"asked", "sent"} /\ phase' = "sent" /\ provider' = p
              /\ asked' = asked /\ opts' = opts
              /\ msgs' = IF p = "mimo" THEN WithFormats(msgs) ELSE msgs
            BY <2>1 DEF Try
        <2>3. PICK ms : ms = asked
            OBVIOUS
        <2>4. Conversation(ms) /\ OwedIn(ms) = {} /\ msgs \in {ms, WithFormats(ms)}
              /\ opts.choice \in ToolChoices
            BY <2>2, <2>3 DEF RequestInv, Asked
        <2>5. WithFormats(WithFormats(ms)) = WithFormats(ms)
            BY <2>4, FormatsImages DEF Conversation
        <2>6. msgs' \in {ms, WithFormats(ms)}
            BY <2>2, <2>4, <2>5
        <2>7. Asked'
            BY <2>2, <2>3, <2>4, <2>6 DEF Asked
        <2> QED
            BY <2>2, <2>7 DEF RequestInv
    <1>5. CASE \/ Accept \/ AnthropicStream \/ GeminiStream \/ OpenAIStream \/ StreamError
               \/ \E p \in Providers, q \in MediaRequests : MediaAsk(p, q)
               \/ \E a \in MediaAnswers : MediaAnswered(a)
        <2>1. phase' \notin {"compose", "asked", "sent"}
            <3>1. CASE Accept \/ StreamError
                BY <3>1 DEF Accept, StreamError
            <3>2. CASE \/ \E p \in Providers, q \in MediaRequests : MediaAsk(p, q)
                       \/ \E a \in MediaAnswers : MediaAnswered(a)
                BY <3>2 DEF MediaAsk, MediaAnswered
            <3>3. CASE AnthropicStream
                <4>1. ASSUME NEW data, NEW after, NEW ended, AnthropicSends(data, after, ended)
                      PROVE  phase' \in {"streaming", "eof"}
                    BY <4>1 DEF AnthropicSends, Streaming
                <4>2. ASSUME AnthropicEnds PROVE phase' = "ended"
                    BY <4>2 DEF AnthropicEnds
                <4>3. ASSUME NEW usage, MessageStart(usage) PROVE phase' \in {"streaming", "eof"}
                    BY <4>1, <4>3, Zenon DEF MessageStart
                <4>4. ASSUME NEW type, NEW name, BlockStart(type, name) PROVE phase' \in {"streaming", "eof"}
                    BY <4>1, <4>4, Zenon DEF BlockStart
                <4>5. ASSUME NEW b, BlockDelta(b) PROVE phase' \in {"streaming", "eof"}
                    BY <4>1, <4>5, Zenon DEF BlockDelta
                <4>6. ASSUME NEW stop, NEW input, NEW ended, MessageDelta(stop, input, ended)
                      PROVE  phase' \in {"streaming", "eof"}
                    BY <4>1, <4>6, Zenon DEF MessageDelta
                <4> QED
                    BY <3>3, <4>2, <4>3, <4>4, <4>5, <4>6 DEF AnthropicStream
            <3>4. CASE GeminiStream
                <4>1. ASSUME NEW candidate, NEW kinds, NEW finish, NEW usage,
                             GeminiSends(candidate, kinds, finish, usage)
                      PROVE  phase' = "streaming"
                    BY <4>1 DEF GeminiSends, Streaming
                <4>2. ASSUME GeminiEnds PROVE phase' = "ended"
                    BY <4>2 DEF GeminiEnds
                <4> QED
                    BY <3>4, <4>1, <4>2 DEF GeminiStream
            <3>5. CASE OpenAIStream
                <4>1. ASSUME NEW line, OpenAISends(line), phase = "streaming"
                      PROVE  phase' \in {"streaming", "ended"}
                    BY <4>1 DEF OpenAISends
                <4> QED
                    BY <3>5, <4>1 DEF OpenAIStream
            <3> QED
                BY <1>5, <3>1, <3>2, <3>3, <3>4, <3>5
        <2> QED
            BY <2>1 DEF RequestInv
    <1> QED
        BY <1>3, <1>4, <1>5 DEF Next

LEMMA RequestCorrect == Spec => []RequestInv
    <1>1. Init => RequestInv
        <2>1. Init => phase = "compose" /\ msgs = <<>>
            BY DEF Init
        <2> QED
            BY <2>1, ConversationNone DEF RequestInv
    <1>2. RequestInv /\ UNCHANGED vars => RequestInv'
        <2> SUFFICES ASSUME RequestInv, UNCHANGED vars PROVE RequestInv'
            OBVIOUS
        <2>1. phase' = phase /\ msgs' = msgs /\ asked' = asked /\ opts' = opts /\ provider' = provider
            BY DEF vars, request
        <2> QED
            BY <2>1 DEF RequestInv, Asked
    <1> QED
        BY <1>1, <1>2, RequestStep, PTL DEF Spec

-----------------------------------------------------------------------------
(* The call of the candidate tried last.                                    *)
ContentsHold(ms, contents) ==
    /\ contents \in Seq(ContentForm)
    /\ Joined(TellsOfContent, contents) = Joined(Telled("gemini"), ms)
    /\ SameNames(Joined(ResponsesOf, contents), Joined(AnswersOf, ms))

LEMMA ContentsConverted ==
    ASSUME NEW ms \in Seq(MessageForm), GeminiKept(ms)
    PROVE  ContentsHold(ms, ConvertContents(ms))
    <1>1. PICK all : all = ToldAfter(ms).contents
        OBVIOUS
    <1>2. /\ all \in Seq(ContentForm)
          /\ Joined(TellsOfContent, all) = Joined(Telled("gemini"), ms)
          /\ SameNames(Joined(ResponsesOf, all), Joined(AnswersOf, ms))
        BY <1>1 DEF GeminiKept
    <1>3. PICK parts : parts = <<TextPart(<<>>)>>
        OBVIOUS
    <1>4. PICK c : c = [role |-> "user", parts |-> parts]
        OBVIOUS
    <1>5. ConvertContents(ms) = IF all = <<>> THEN <<c>> ELSE all
        BY <1>1, <1>3, <1>4 DEF ConvertContents, ToldAfter
    <1>6. CASE all # <<>>
        BY <1>2, <1>5, <1>6 DEF ContentsHold
    <1>7. CASE all = <<>>
        <2>1. parts \in Seq(OtherParts) /\ parts \in Seq(Parts) /\ Joined(TellsOfPart, parts) = <<>>
            BY <1>3, EmptyPartMade
        <2>2. c \in ContentForm /\ c.parts = parts
            BY <1>4, <2>1 DEF ContentForm
        <2>3. TellsOfContent[c] = <<>> /\ ResponsesOf[c] = <<>>
            BY <2>1, <2>2, NoResponses DEF TellsOfContent, ResponsesOf
        <2>4. Joined(TellsOfContent, <<c>>) = <<>> /\ Joined(ResponsesOf, <<c>>) = <<>>
            <3>1. Joined(TellsOfContent, <<c>>) = TellsOfContent[c]
                BY <2>2, ContentsTell, JoinedOne
            <3>2. Joined(ResponsesOf, <<c>>) = ResponsesOf[c]
                BY <2>2, ResponsesAndAnswers, JoinedOne
            <3> QED
                BY <2>3, <3>1, <3>2
        <2>5. Joined(TellsOfContent, all) = <<>> /\ Joined(ResponsesOf, all) = <<>>
            BY <1>7, JoinedEmpty
        <2>6. <<c>> \in Seq(ContentForm)
            BY <2>2, SingleList
        <2> QED
            BY <1>2, <1>5, <1>7, <2>4, <2>5, <2>6 DEF ContentsHold
    <1> QED
        BY <1>6, <1>7

TellsOfAll(p, ms) == Each(LAMBDA m : MessageTells(p, m), ms)
AnswersIn(ms) == Each(LAMBDA m : IF m.role = "tool" THEN <<m>> ELSE <<>>, ms)
ResponsesIn(contents) == Each(LAMBDA c : Responses(c.parts), contents)

LEMMA MembersSpelt ==
    ASSUME NEW ms \in Seq(MessageForm)
    PROVE  /\ \A p : TellsOfAll(p, ms) = Joined(Telled(p), ms)
           /\ AnswersIn(ms) = Joined(AnswersOf, ms)
           /\ \A contents \in Seq(ContentForm) : ResponsesIn(contents) = Joined(ResponsesOf, contents)
    <1>1. \A i \in DOMAIN ms : ms[i] \in MessageForm
        BY LenProperties, ElementOfSeq
    <1>2. ASSUME NEW p PROVE TellsOfAll(p, ms) = Joined(Telled(p), ms)
        <2>1. Images(Telled(p), ms) = [i \in DOMAIN ms |-> MessageTells(p, ms[i])]
            BY <1>1 DEF Images, Telled
        <2> QED
            BY <2>1 DEF TellsOfAll, Each, Joined
    <1>3. AnswersIn(ms) = Joined(AnswersOf, ms)
        <2>1. Images(AnswersOf, ms) = [i \in DOMAIN ms |-> IF ms[i].role = "tool" THEN <<ms[i]>> ELSE <<>>]
            BY <1>1 DEF Images, AnswersOf
        <2> QED
            BY <2>1 DEF AnswersIn, Each, Joined
    <1>4. ASSUME NEW contents \in Seq(ContentForm)
          PROVE  ResponsesIn(contents) = Joined(ResponsesOf, contents)
        <2>1. \A i \in DOMAIN contents : contents[i] \in ContentForm
            BY LenProperties, ElementOfSeq
        <2>2. Images(ResponsesOf, contents) = [i \in DOMAIN contents |-> Responses(contents[i].parts)]
            BY <2>1 DEF Images, ResponsesOf
        <2> QED
            BY <2>2 DEF ResponsesIn, Each, Joined
    <1> QED
        BY <1>2, <1>3, <1>4

\* What the calls hold, whatever candidates were tried before.
LEMMA CallHolds ==
    ASSUME RequestInv, phase = "sent"
    PROVE  /\ asked \in Seq(MessageForm)
           /\ Call.protocol \in {"anthropic", "gemini", "openai"}
           /\ Call.protocol = "anthropic" =>
                 /\ Call.messages = ConvertMessages(asked) /\ Call.system = SystemText(asked)
                 /\ Call.choice = AnthropicChoice(opts.choice)
           /\ Call.protocol = "gemini" =>
                 /\ Call.contents = ConvertContents(asked) /\ Call.system = GeminiSystem(asked)
                 /\ opts.tools => Call.choice = GeminiChoice(opts.choice)
           /\ Call.protocol = "openai" =>
                 /\ Call.messages \in {asked, WithFormats(asked)}
                 /\ Call.choice = opts.choice
    <1>1. /\ Conversation(asked) /\ msgs \in {asked, WithFormats(asked)} /\ provider \in Providers
        BY DEF RequestInv, Asked
    <1>2. asked \in Seq(MessageForm)
        BY <1>1 DEF Conversation
    <1>3. /\ ConvertMessages(msgs) = ConvertMessages(asked) /\ SystemText(msgs) = SystemText(asked)
          /\ GeminiSystem(msgs) = GeminiSystem(asked) /\ ToldAfter(msgs) = ToldAfter(asked)
          /\ WithFormats(msgs) = WithFormats(asked)
        BY <1>1, <1>2, FormatsMeanSame, FormatsImages
    <1>4. ConvertContents(msgs) = ConvertContents(asked)
        BY <1>3 DEF ConvertContents, ToldAfter
    <1>5. CASE provider = "anthropic"
        <2>1. Call = AnthropicCall(msgs, opts)
            BY <1>5 DEF Call, BuildChatCall
        <2>2. /\ AnthropicCall(msgs, opts).protocol = "anthropic"
              /\ AnthropicCall(msgs, opts).messages = ConvertMessages(msgs)
              /\ AnthropicCall(msgs, opts).system = SystemText(msgs)
              /\ AnthropicCall(msgs, opts).choice = AnthropicChoice(opts.choice)
            BY DEF AnthropicCall
        <2> QED
            BY <1>2, <1>3, <2>1, <2>2
    <1>6. CASE provider = "gemini"
        <2>1. Call = GeminiCall(msgs, opts)
            BY <1>6 DEF Call, BuildChatCall
        <2>2. /\ GeminiCall(msgs, opts).protocol = "gemini"
              /\ GeminiCall(msgs, opts).contents = ConvertContents(msgs)
              /\ GeminiCall(msgs, opts).system = GeminiSystem(msgs)
              /\ opts.tools => GeminiCall(msgs, opts).choice = GeminiChoice(opts.choice)
            BY DEF GeminiCall, GeminiSystem
        <2> QED
            BY <1>2, <1>3, <1>4, <2>1, <2>2
    <1>7. CASE provider \in {"openai", "mimo"}
        <2>1. PICK ms \in {asked, WithFormats(asked)} : Call = OpenAICall(ms, opts)
            BY <1>1, <1>3, <1>7 DEF Call, BuildChatCall
        <2>2. /\ OpenAICall(ms, opts).protocol = "openai" /\ OpenAICall(ms, opts).messages = ms
              /\ OpenAICall(ms, opts).choice = opts.choice
            BY DEF OpenAICall
        <2> QED
            BY <1>2, <2>1, <2>2
    <1> QED
        BY <1>1, <1>5, <1>6, <1>7 DEF Providers

(***************************************************************************)
(* Whatever conversation a client writes, however long, with ids that come *)
(* back and answers in any order, and whatever candidates were tried       *)
(* before: in the call to Anthropic the turns alternate and each turn's    *)
(* calls are answered by the first blocks of the next; in the call to      *)
(* Gemini every answer bears the name of its function.                     *)
(***************************************************************************)
THEOREM PairsKept == Spec => []ToolsPaired
    <1>1. RequestInv => ToolsPaired
        <2> SUFFICES ASSUME RequestInv, phase = "sent"
                     PROVE  CASE Call.protocol = "anthropic" -> AnthropicPaired(Call.messages)
                              [] Call.protocol = "gemini"    -> GeminiPaired(Call.contents)
                              [] OTHER                       -> TRUE
            BY DEF ToolsPaired
        <2>1. Conversation(asked) /\ OwedIn(asked) = {}
            BY DEF RequestInv, Asked
        <2>2. asked \in Seq(MessageForm) /\ GeminiKept(asked) /\ AnthropicKept(asked)
            BY <2>1 DEF Conversation
        <2>3. CASE Call.protocol = "anthropic"
            <3>1. AnthropicPaired(ConvertMessages(asked))
                BY <2>1, <2>2, PairedWhenAnswered
            <3>2. Call.messages = ConvertMessages(asked)
                BY <2>3, CallHolds
            <3> QED
                BY <2>3, <3>1, <3>2
        <2>4. CASE Call.protocol = "gemini"
            <3>1. PICK contents : contents = ConvertContents(asked)
                OBVIOUS
            <3>2. Call.contents = contents
                BY <2>4, <3>1, CallHolds
            <3>3. ContentsHold(asked, contents)
                BY <2>2, <3>1, ContentsConverted
            <3>4. SameNames(ResponsesIn(contents), AnswersIn(asked))
                BY <2>2, <3>3, MembersSpelt DEF ContentsHold
            <3>5. GeminiPaired(contents)
                BY <3>4 DEF GeminiPaired, SameNames, ResponsesIn, AnswersIn
            <3> QED
                BY <2>4, <3>2, <3>5
        <2> QED
            BY <2>3, <2>4
    <1> QED
        BY <1>1, RequestCorrect, PTL

(***************************************************************************)
(* And every call says what the client asked, item by item and in its      *)
(* order, with the words of the system in their place, and forces a call   *)
(* of a tool when the client does.                                         *)
(***************************************************************************)
THEOREM AllSaid == Spec => []NothingLost
    <1>1. RequestInv => NothingLost
        <2> SUFFICES ASSUME RequestInv, phase = "sent"
                     PROVE  /\ CallTells = TellsOfAll(Call.protocol, asked)
                            /\ Call.protocol # "openai" => WordsTell(Call.system) = SystemSaid(asked)
                            /\ opts.tools =>
                                  (Call.choice \in {"any", "tool", "ANY", "required", "function"})
                                     = (opts.choice \in {"required", "function"})
            BY DEF NothingLost, TellsOfAll, SystemTells, SystemSaid
        <2>1. asked \in Seq(MessageForm) /\ GeminiKept(asked) /\ opts.choice \in ToolChoices
            BY DEF RequestInv, Asked, Conversation
        <2>2. WordsTell(SystemText(asked)) = SystemSaid(asked)
              /\ WordsTell(GeminiSystem(asked)) = SystemSaid(asked)
            BY <2>1, SystemSpelt
        <2>3. CASE Call.protocol = "anthropic"
            <3>1. PICK turns : turns = ConvertMessages(asked)
                OBVIOUS
            <3>2. /\ Call.messages = turns /\ Call.system = SystemText(asked)
                  /\ Call.choice = AnthropicChoice(opts.choice)
                BY <2>3, <3>1, CallHolds
            <3>3. CallTells = TurnsTell(turns)
                BY <2>3, <3>2 DEF CallTells, TurnsTell
            <3>4. TurnsTell(turns) = Joined(Telled("anthropic"), asked)
                BY <2>1, <3>1, AnthropicTells, TurnsTold
            <3>5. CallTells = TellsOfAll(Call.protocol, asked)
                BY <2>1, <2>3, <3>3, <3>4, MembersSpelt
            <3>6. (Call.choice \in {"any", "tool", "ANY", "required", "function"})
                     = (opts.choice \in {"required", "function"})
                BY <2>1, <3>2 DEF AnthropicChoice, ToolChoices
            <3> QED
                BY <2>2, <3>2, <3>5, <3>6
        <2>4. CASE Call.protocol = "gemini"
            <3>1. PICK contents : contents = ConvertContents(asked)
                OBVIOUS
            <3>2. /\ Call.contents = contents /\ Call.system = GeminiSystem(asked)
                  /\ opts.tools => Call.choice = GeminiChoice(opts.choice)
                BY <2>4, <3>1, CallHolds
            <3>3. CallTells = ContentsSay(contents)
                BY <2>4, <3>2 DEF CallTells, ContentsSay
            <3>4. ContentsSay(contents) = Joined(Telled("gemini"), asked)
                BY <2>1, <3>1, ContentsConverted, ContentsTell DEF ContentsHold
            <3>5. CallTells = TellsOfAll(Call.protocol, asked)
                BY <2>1, <2>4, <3>3, <3>4, MembersSpelt
            <3>6. opts.tools =>
                     (Call.choice \in {"any", "tool", "ANY", "required", "function"})
                        = (opts.choice \in {"required", "function"})
                BY <2>1, <3>2 DEF GeminiChoice, ToolChoices
            <3> QED
                BY <2>2, <3>2, <3>5, <3>6
        <2>5. CASE Call.protocol = "openai"
            <3>1. PICK ms \in {asked, WithFormats(asked)} : Call.messages = ms /\ Call.choice = opts.choice
                BY <2>5, CallHolds
            <3>2. ms \in Seq(MessageForm) /\ Joined(Telled("openai"), ms) = Joined(Telled("openai"), asked)
                BY <2>1, <3>1, FormatsImages, FormatsMeanSame
            <3>3. CallTells = TellsOfAll("openai", ms)
                BY <2>5, <3>1 DEF CallTells, TellsOfAll
            <3>4. CallTells = TellsOfAll(Call.protocol, asked)
                BY <2>1, <2>5, <3>2, <3>3, MembersSpelt
            <3>5. (Call.choice \in {"any", "tool", "ANY", "required", "function"})
                     = (opts.choice \in {"required", "function"})
                BY <2>1, <3>1 DEF ToolChoices
            <3> QED
                BY <2>5, <3>4, <3>5
        <2> QED
            BY <2>3, <2>4, <2>5, CallHolds
    <1> QED
        BY <1>1, RequestCorrect, PTL
=============================================================================
