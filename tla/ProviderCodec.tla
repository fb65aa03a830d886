---------------------------- MODULE ProviderCodec ----------------------------
(***************************************************************************)
(* The way from a transport's payloads to the centre's events and response *)
(* in src/agent_core/providers.py: ChatCompletionsLLMProviderCodec,        *)
(* TransportLLMProvider.stream and LLMStreamAccumulator; and the way back  *)
(* of a model's tool calls into the next request.                          *)
(*                                                                         *)
(* A payload is what the decoder tells apart.  A text is a piece of        *)
(* content, NoText is the empty one; a tool call in a payload has an id, a *)
(* name (NoText in a continuation) and arguments that are the JSON of an   *)
(* object, or are not.                                                     *)
(***************************************************************************)
EXTENDS Naturals, Sequences, Lists

CONSTANTS
  Texts,        \* pieces of content
  CallIds, CallNames, Arguments,
  MaxChunks     \* bound of the model: chunks of one stream

NoText == ""
NotJson == "not json"
NoArguments == "{}"

\* A call that comes without an id is given one by the decoder.
ASSUME CodecAssumption == NoText \notin CallIds

PayloadCalls == [id : CallIds, name : CallNames \cup {NoText},
                 arguments : Arguments \cup {NotJson, NoArguments}]

\* A chunk carries an error, or usage and a choice, each or none; a choice brings a
\* delta of text and at most one call, and a finish reason.
Chunks ==
  {chunk \in [error : BOOLEAN, usage : BOOLEAN, choice : BOOLEAN, finish : BOOLEAN,
              text : Texts \cup {NoText}, calls : {<< >>} \cup {<<c>> : c \in PayloadCalls}] :
     /\ chunk.error => ~chunk.usage /\ ~chunk.choice
     /\ ~chunk.choice => chunk.text = NoText /\ chunk.calls = << >> /\ ~chunk.finish}

VARIABLE stream

NoResponse == [content |-> << >>, calls |-> << >>, usage |-> FALSE, finish |-> NoText]

CodecInit ==
  stream = [chunks |-> << >>, response |-> NoResponse, events |-> << >>, status |-> "open"]

-----------------------------------------------------------------------------
(* Decoding.                                                                *)

NamedCalls == {c \in PayloadCalls : c.name # NoText}

\* Arguments that are no JSON object count as none.
Mended(call) == [call EXCEPT !.arguments = IF @ = NotJson THEN NoArguments ELSE @]

\* _chat_completions_tool_calls_from_message: a call without a name is passed over.
DecodedCalls(calls) ==
  LET named == Filtered(calls, NamedCalls)
  IN [i \in DOMAIN named |-> Mended(named[i])]

\* _chat_completions_message_text
Pieces(text) == IF text = NoText THEN << >> ELSE <<text>>

Event(type, chunk) ==
  [type |-> type,
   delta |-> IF type = "delta" THEN Pieces(chunk.text) ELSE << >>,
   calls |-> IF type = "tool_call" THEN <<Head(DecodedCalls(chunk.calls))>> ELSE << >>]

\* decode_stream_event: a chunk becomes one event, whatever else it carries.
Decoded(chunk) ==
  LET delta == IF chunk.choice THEN chunk.text ELSE NoText
      calls == IF chunk.choice THEN DecodedCalls(chunk.calls) ELSE << >>
  IN IF chunk.error THEN Event("error", chunk)
     ELSE IF chunk.usage /\ ~chunk.choice THEN Event("usage", chunk)
     ELSE IF calls # << >> THEN Event("tool_call", chunk)
     ELSE IF delta # NoText THEN Event("delta", chunk)
     ELSE IF chunk.choice /\ chunk.finish THEN Event("message_end", chunk)
     ELSE Event("message_start", chunk)

\* An accumulator that keeps the latest call only.
AddedLatest(response, event) ==
  [response EXCEPT !.content = @ \o event.delta,
                   !.calls = IF event.calls = << >> THEN @ ELSE event.calls,
                   !.usage = @ \/ event.type = "usage",
                   !.finish = IF event.type = "message_end" /\ @ = NoText THEN "stop" ELSE @]

\* LLMStreamAccumulator.add
Added(response, event) ==
  [response EXCEPT !.content = @ \o event.delta,
                   !.calls = @ \o event.calls,
                   !.usage = @ \/ event.type = "usage",
                   !.finish = IF event.type = "message_end" /\ @ = NoText THEN "stop" ELSE @]

\* The transport's next chunk: an error event is raised, any other is collected.
Receive(chunk) ==
  /\ stream.status = "open" /\ Len(stream.chunks) < MaxChunks
  /\ stream' = [stream EXCEPT
       !.chunks = Append(@, chunk),
       !.status = IF Decoded(chunk).type = "error" THEN "raised" ELSE "open",
       !.response = IF Decoded(chunk).type = "error" THEN @ ELSE Added(@, Decoded(chunk)),
       !.events = IF Decoded(chunk).type = "error" THEN @ ELSE Append(@, Decoded(chunk).type)]

\* The transport ends the stream, with or without a last chunk that says so.
EndOfStream ==
  /\ stream.status = "open"
  /\ stream' = [stream EXCEPT !.status = "ended"]

CodecNext == (\E chunk \in Chunks : Receive(chunk)) \/ EndOfStream

CodecSpec == CodecInit /\ [][CodecNext]_stream

-----------------------------------------------------------------------------
(* The answer that is not streamed, and calls that are sent back.           *)

\* decode_response of a message that holds the parts of all chunks.
WholeResponse(chunks) ==
  [content |-> Joined([i \in DOMAIN chunks |-> Pieces(chunks[i].text)]),
   calls |-> DecodedCalls(Joined([i \in DOMAIN chunks |-> chunks[i].calls])),
   usage |-> \E i \in DOMAIN chunks : chunks[i].usage]

\* _chat_completions_tool_calls_payload_from_metadata
EncodedCalls(calls) == Filtered(calls, {c \in NamedCalls : c.id # NoText})

-----------------------------------------------------------------------------
(* Properties.                                                              *)

\* Usage comes in a chunk without a choice, and a choice brings one thing at a time.
PlainlyChunked(chunk) ==
  /\ chunk.usage => ~chunk.choice
  /\ chunk.text # NoText => chunk.calls = << >>

Raised == stream.status = "raised"

\* However an answer is cut into plain chunks, what the accumulator collects from them is
\* what decode_response makes of the whole: the same content, calls and usage, in order.
StreamEqualsWhole ==
  (~Raised /\ \A i \in DOMAIN stream.chunks : PlainlyChunked(stream.chunks[i])) =>
    LET whole == WholeResponse(stream.chunks)
    IN /\ stream.response.content = whole.content
       /\ stream.response.calls = whole.calls
       /\ stream.response.usage = whole.usage

\* Calls decoded from an answer go back in the next request as they are: with their ids,
\* names and arguments, none left out, and decode to themselves again.
CallsRoundTrip ==
  LET calls == stream.response.calls
  IN EncodedCalls(calls) = calls /\ DecodedCalls(EncodedCalls(calls)) = calls

\* The variable keeps its type.
CodecTypeOK ==
  stream \in [chunks : Seq(Chunks), status : {"open", "raised", "ended"},
              events : Seq({"message_start", "delta", "tool_call", "usage", "message_end"}),
              response : [content : Seq(Texts), calls : Seq(PayloadCalls), usage : BOOLEAN,
                          finish : {NoText, "stop"}]]

\* An answer means the same however it comes and goes: the two properties above.
CodecAgrees == StreamEqualsWhole /\ CallsRoundTrip
=============================================================================
