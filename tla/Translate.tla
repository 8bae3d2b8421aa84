----------------------------- MODULE Translate -----------------------------
(***************************************************************************)
(* Conversion of an Anthropic request into the form the provider gets:     *)
(* AnthropicToIR, StripAnthropicFeatures for wires other than "anthropic", *)
(* and IRToOpenAI or the IRToAnthropic functions.                          *)
(*                                                                         *)
(* A request is [protocol, parses, model, stream, system, messages, tools,  *)
(* choice, thinking, rest]; a message is [role, content]; a block is       *)
(* [type, id, rest, mark, inner], where id stands for its text, call or    *)
(* source, mark is its cache_control and inner is what a tool result       *)
(* contains.  rest stands for the fields that the structs of the           *)
(* transformer do not declare: stop_sequences, top_p and the like of a     *)
(* request, the signature of a thinking block, the ttl of cache_control.   *)
(***************************************************************************)
EXTENDS Integers, Sequences

\* cache_control is absent, null or an object.
Marks == {"no", "null", "yes"}

\* What the API allows in a request.
BlockTypes ==
    {"text", "tool_use", "tool_result", "thinking", "redacted_thinking", "image", "document"}
Parts == [type : BlockTypes, id : STRING, rest : STRING, mark : Marks, inner : {<<>>}]
Blocks ==
    {b \in [type : BlockTypes, id : STRING, rest : STRING, mark : Marks, inner : Seq(Parts)] :
        b.type # "tool_result" => b.inner = <<>>}
Bodies ==
    [protocol : STRING, parses : BOOLEAN, model : STRING, stream : BOOLEAN,
     system : Seq(Blocks), messages : Seq([role : STRING, content : Seq(Blocks)]),
     tools : Seq([name : STRING, mark : Marks]), choice : {"", "auto", "any", "tool", "none"},
     thinking : {"absent", "null", "enabled", "disabled"}, rest : STRING]

\* Block types whose content the two switches carry over.
Carried == {"text", "tool_use", "tool_result", "thinking"}

\* A block without what is inside it, in the IR.  A null cache_control leaves the
\* pointer nil.
LeafToIR(b) ==
    [type |-> b.type, id |-> IF b.type \in Carried THEN b.id ELSE "",
     cached |-> b.mark = "yes", inner |-> <<>>]

anthropicBlockToIR(b) ==
    [LeafToIR(b) EXCEPT !.inner =
        IF b.type = "tool_result" THEN [i \in DOMAIN b.inner |-> LeafToIR(b.inner[i])] ELSE <<>>]

BlocksToIR(blocks) == [i \in DOMAIN blocks |-> anthropicBlockToIR(blocks[i])]

\* A thinking object of either type enables thinking.
AnthropicToIR(body) ==
    [model    |-> body.model,
     stream   |-> body.stream,
     system   |-> BlocksToIR(body.system),
     messages |-> [i \in DOMAIN body.messages |->
                      [role |-> body.messages[i].role,
                       content |-> BlocksToIR(body.messages[i].content)]],
     tools    |-> [i \in DOMAIN body.tools |-> body.tools[i].name],
     choice   |-> IF body.choice = "tool" THEN "specific" ELSE body.choice,
     thinking |-> IF body.thinking \in {"absent", "null"} THEN "absent" ELSE "enabled"]

-----------------------------------------------------------------------------
\* Blocks of the request that carry cache_control; blocks inside tool results are
\* not looked at.
IsCached(blocks) == \E i \in DOMAIN blocks : blocks[i].cached

Uncached(blocks) == [i \in DOMAIN blocks |-> [blocks[i] EXCEPT !.cached = FALSE]]

UncachedMessages(messages) ==
    [i \in DOMAIN messages |-> [messages[i] EXCEPT !.content = Uncached(messages[i].content)]]

StripSkipsSystem(req) ==
    [req |-> [req EXCEPT !.messages = UncachedMessages(req.messages), !.thinking = "absent"],
     degraded |->
        (IF req.thinking = "enabled" THEN {"extended_thinking"} ELSE {})
        \union (IF \E i \in DOMAIN req.messages : IsCached(req.messages[i].content)
                THEN {"cache_control"} ELSE {})]

StripAnthropicFeatures(req) ==
    [req |-> [req EXCEPT !.messages = UncachedMessages(req.messages),
                         !.system = Uncached(req.system),
                         !.thinking = "absent"],
     degraded |->
        (IF req.thinking = "enabled" THEN {"extended_thinking"} ELSE {})
        \union (IF \/ IsCached(req.system)
                   \/ \E i \in DOMAIN req.messages : IsCached(req.messages[i].content)
                THEN {"cache_control"} ELSE {})]

-----------------------------------------------------------------------------
\* The position of the last block of one of these types, 0 when there is none.
LastOf(blocks, types) ==
    CHOOSE i \in 0..Len(blocks) :
        /\ i > 0 => blocks[i].type \in types
        /\ \A j \in (i + 1)..Len(blocks) : blocks[j].type \notin types

\* The text a block contributes to the message; of a tool result, the text
\* of its first part.
ContentOf(b) ==
    IF b.type = "text" THEN b.id
    ELSE IF b.inner # <<>> /\ b.inner[1].type = "text" THEN b.inner[1].id ELSE ""

\* One OpenAI message per message: the last text or tool result is its content, the
\* last tool result its tool_call_id; thinking and images are left out.
OpenAIMessage(msg) ==
    LET blocks  == msg.content
        content == LastOf(blocks, {"text", "tool_result"})
        result  == LastOf(blocks, {"tool_result"})
        uses    == SelectSeq(blocks, LAMBDA b : b.type = "tool_use")
    IN  [role    |-> IF msg.role \in {"assistant", "tool"} THEN msg.role ELSE "user",
         content |-> IF content = 0 THEN "" ELSE ContentOf(blocks[content]),
         calls   |-> [i \in DOMAIN uses |-> uses[i].id],
         callId  |-> IF result = 0 THEN "" ELSE blocks[result].id]

\* The whole request; system blocks and the tool choice have no place in it.
IRToOpenAI(req) ==
    [model    |-> req.model,
     stream   |-> req.stream,
     messages |-> [i \in DOMAIN req.messages |-> OpenAIMessage(req.messages[i])],
     tools    |-> req.tools]

LeafToAnthropic(b) ==
    [type |-> b.type, id |-> IF b.type \in Carried THEN b.id ELSE "", rest |-> "",
     mark |-> IF b.cached THEN "yes" ELSE "no", inner |-> <<>>]

irBlockToAnthropicBlock(b) ==
    [LeafToAnthropic(b) EXCEPT !.inner =
        IF b.type = "tool_result" THEN [i \in DOMAIN b.inner |-> LeafToAnthropic(b.inner[i])]
        ELSE <<>>]

BlocksToAnthropic(blocks) == [i \in DOMAIN blocks |-> irBlockToAnthropicBlock(blocks[i])]

\* IRToAnthropicMessages, -System, -Tools, -ToolChoice and -Thinking, put together by
\* anthropicShapedDo under the model of the chosen member.
IRToAnthropic(req, model) ==
    [model    |-> model,
     stream   |-> TRUE,
     system   |-> BlocksToAnthropic(req.system),
     messages |-> [i \in DOMAIN req.messages |->
                      [role |-> req.messages[i].role,
                       content |-> BlocksToAnthropic(req.messages[i].content)]],
     tools    |-> [i \in DOMAIN req.tools |-> [name |-> req.tools[i], mark |-> "no"]],
     choice   |-> IF req.choice = "specific" THEN "tool" ELSE req.choice,
     thinking |-> req.thinking,
     rest     |-> ""]

=============================================================================
