------------------------------ MODULE Promises ------------------------------
(***************************************************************************)
(* What the API promises of a request on a content: the content after it   *)
(* and the answer, which are those of the handlers, a key or value that    *)
(* was left out read as empty.                                             *)
(***************************************************************************)
EXTENDS TableCommands

Plain(r) ==
    LET pair(p) == Pair(p.key, Octets(p.value))
    IN CASE r.type = "RANGE" ->
              [r EXCEPT !.range =
                 RangeResponse(Map(pair, @.kvs), @.count, @.more)]
         [] r.type = "PUT" -> r
         [] r.type = "DELETE" -> [r EXCEPT !.prevKvs = Map(pair, @)]

Written(handled) ==
    [result |-> handled.result, responses |-> Map(Plain, handled.responses)]

Pairs(content) ==
    LET pair(key) == Pair(key, content[key])
    IN Map(pair, SetToSortSeq(Present(content), <))

PromisedAnswer(content, req) ==
    CASE req.type = "RANGE" ->
           [result |-> TRUE,
            responses |-> <<Plain([type |-> "RANGE",
                                   range |-> Lookup(content, req)])>>]
      [] req.type = "BACKUP" ->
           [result |-> TRUE, responses |-> Pairs(content)]
      [] OTHER -> Written(HandleCommand(Context(content), req).responses)

PromisedContent(content, req) == HandleCommand(Context(content), req).ctx.kv
=============================================================================
