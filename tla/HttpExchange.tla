---------------------------- MODULE HttpExchange ----------------------------
(* One outgoing HTTP request of the tailnet client: TailscaleHttpClient.send,  *)
(* the writer of the request body and _HttpResponseParser on the main isolate, *)
(* runHttpFdRequest in Go.  Go answers on a byte stream: a length prefix, a    *)
(* head, the body; the stream reaches the parser in chunks of any size.        *)
(*                                                                             *)
(* Abstracted: the contents of heads and bodies (a byte is its position in the *)
(* stream), the codec of the head, which Go writes well-formed, and the two    *)
(* transports (FdTransport), which deliver, fail or close.                     *)
EXTENDS Naturals, Sequences

CONSTANTS
    PrefixBytes,      \* _responseHeadPrefixBytes
    HeadBytes,        \* bound: the length of the head
    BodyBytes         \* bound: the longest body

ASSUME ExchangeAssumption ==
    PrefixBytes \in Nat \ {0} /\ HeadBytes \in Nat \ {0} /\ BodyBytes \in Nat

VARIABLES
    exSend,           \* send(): adopting the response descriptor, running, or failed
    exGo,             \* runHttpFdRequest: asking the peer, copying the body, closed
    exHead,           \* the head it wrote
    exSent,           \* how many bytes Go has written to the stream
    exTaken,          \* how many the parser was given
    exInput,          \* the subscription of the parser to the response transport
    exHeadComplete,   \* _headComplete
    exReply,          \* the future that send() returns
    exBody,           \* the bytes added to the stream of the body
    exBodyState,      \* that stream: open, closed, ended by an error, or cancelled by its reader
    exRequest,        \* _writeRequestBody
    exRequestDone,    \* _requestBodyDone
    exResponseDone    \* _responseBodyDone

exGoVars == <<exGo, exHead, exSent>>
exReplyVars == <<exHeadComplete, exReply, exBody>>
exVars == <<exSend, exGoVars, exTaken, exInput, exReplyVars, exBodyState, exRequest,
            exRequestDone, exResponseDone>>

HeadEnd == PrefixBytes + HeadBytes

ExTypeOK ==
    /\ exSend \in {"adopting", "running", "failed"}
    /\ exGo \in {"asking", "copying", "closed"} /\ exHead \in {"none", "ok", "error"}
    /\ exSent \in 0..(HeadEnd + BodyBytes) /\ exTaken \in 0..exSent
    /\ exInput \in {"on", "cancelled", "ended"}
    /\ exHeadComplete \in BOOLEAN /\ exReply \in {"pending", "ok", "error"}
    /\ exBody \in Seq(Nat)
    /\ exBodyState \in {"open", "closed", "error", "cancelled"}
    /\ exRequest \in {"writing", "done", "failed"}
    /\ exRequestDone \in BOOLEAN /\ exResponseDone \in BOOLEAN

ExInit ==
    /\ exSend = "adopting" /\ exGo = "asking" /\ exHead = "none" /\ exSent = 0 /\ exTaken = 0
    /\ exInput = "on" /\ exHeadComplete = FALSE /\ exReply = "pending" /\ exBody = <<>>
    /\ exBodyState = "open" /\ exRequest = "writing"
    /\ exRequestDone = FALSE /\ exResponseDone = FALSE

\* The response descriptor is adopted, or send() closes the other one and throws.
ExAdopt ==
    /\ exSend = "adopting"
    /\ \/ exSend' = "running" /\ UNCHANGED exReply
       \/ exSend' = "failed" /\ exReply' = "error"
    /\ UNCHANGED <<exGoVars, exTaken, exInput, exHeadComplete, exBody, exBodyState, exRequest,
                   exRequestDone, exResponseDone>>
-----------------------------------------------------------------------------
(* runHttpFdRequest.  What it writes after the parser cancelled is lost. *)

\* The peer answers, early or late: the request body need not have been read.
ExGoAnswers ==
    /\ exGo = "asking"
    /\ exGo' = "copying" /\ exHead' = "ok" /\ exSent' = HeadEnd
    /\ UNCHANGED <<exSend, exTaken, exInput, exReplyVars, exBodyState, exRequest,
                   exRequestDone, exResponseDone>>

\* It does not: the error is the head.
ExGoFails ==
    /\ exGo = "asking"
    /\ exGo' = "closed" /\ exHead' = "error" /\ exSent' = HeadEnd
    /\ UNCHANGED <<exSend, exTaken, exInput, exReplyVars, exBodyState, exRequest,
                   exRequestDone, exResponseDone>>

\* A head that is too large, or that cannot be written: the defers close both ends.
ExGoWritesNothing ==
    /\ exGo = "asking" /\ exGo' = "closed"
    /\ UNCHANGED <<exSend, exHead, exSent, exTaken, exInput, exReplyVars, exBodyState, exRequest,
                   exRequestDone, exResponseDone>>

ExGoCopies ==
    /\ exGo = "copying" /\ exSent < HeadEnd + BodyBytes
    /\ exSent' = exSent + 1
    /\ UNCHANGED <<exSend, exGo, exHead, exTaken, exInput, exReplyVars, exBodyState, exRequest,
                   exRequestDone, exResponseDone>>

\* The body ends, or its copy fails; either way the stream ends.
ExGoEnds ==
    /\ exGo = "copying" /\ exGo' = "closed"
    /\ UNCHANGED <<exSend, exHead, exSent, exTaken, exInput, exReplyVars, exBodyState, exRequest,
                   exRequestDone, exResponseDone>>
-----------------------------------------------------------------------------
(* _HttpResponseParser. *)

\* _fail: the first error settles the reply and the body; the transport is closed.
ExFail ==
    /\ exReply' = IF exReply = "pending" THEN "error" ELSE exReply
    /\ exBodyState' = IF exBodyState = "open" THEN "error" ELSE exBodyState
    /\ exInput' = "cancelled"

\* Mutant: the body does not wait for the end of the request body.
ExResponseOver == exHeadComplete /\ exResponseDone'

\* What _maybeCloseBody looks at, in a step that sets its flags.
ExBothOver == exHeadComplete /\ exResponseDone' /\ exRequestDone'

\* _maybeCloseBody
ExMaybeCloseBody ==
    exBodyState' = IF ExBothOver /\ exBodyState = "open" THEN "closed" ELSE exBodyState

\* Mutant: every chunk is added whole.
ExFromChunk == exTaken

\* Where the body begins in the chunk: what precedes the end of the head is not of it.
ExBodyFrom == IF exHeadComplete THEN exTaken ELSE HeadEnd

\* The bytes of the stream behind its first b, up to its first t.
ExStretch(b, t) == [i \in 1..(t - b) |-> b + i]

\* _handleChunk: the next n bytes.
ExChunk(n) ==
    /\ exSend = "running" /\ exInput = "on" /\ exTaken + n <= exSent
    /\ exTaken' = exTaken + n
    /\ LET rest == ExStretch(ExBodyFrom, exTaken + n)
       IN  \/ /\ ~exHeadComplete /\ exTaken + n < HeadEnd
              /\ UNCHANGED <<exHeadComplete, exReply, exBody, exBodyState, exInput>>
           \/ /\ ~exHeadComplete /\ exTaken + n >= HeadEnd /\ exHead = "error"
              /\ ExFail /\ UNCHANGED <<exHeadComplete, exBody>>
           \/ /\ ~exHeadComplete /\ exTaken + n >= HeadEnd /\ exHead = "ok"
              /\ exHeadComplete' = TRUE /\ exReply' = "ok" /\ exBody' = rest
              /\ UNCHANGED <<exBodyState, exInput>>
           \/ /\ exHeadComplete
              /\ exBody' = exBody \o rest
              /\ UNCHANGED <<exHeadComplete, exReply, exBodyState, exInput>>
    /\ UNCHANGED <<exSend, exGoVars, exRequest, exRequestDone, exResponseDone>>

\* _handleDone: the stream ends, before the head is complete or after.
ExDone ==
    /\ exSend = "running" /\ exInput = "on" /\ exGo = "closed" /\ exTaken = exSent
    /\ IF exHeadComplete
       THEN /\ exResponseDone' = TRUE /\ UNCHANGED exRequestDone /\ ExMaybeCloseBody
            /\ exInput' = "ended" /\ UNCHANGED exReply
       ELSE ExFail /\ UNCHANGED <<exResponseDone, exRequestDone>>
    /\ UNCHANGED <<exSend, exGoVars, exTaken, exHeadComplete, exBody, exRequest>>

\* _handleError: the transport fails.
ExInputFails ==
    /\ exSend = "running" /\ exInput = "on" /\ ExFail
    /\ UNCHANGED <<exSend, exGoVars, exTaken, exHeadComplete, exBody, exRequest, exRequestDone,
                   exResponseDone>>

\* The reader of the body cancels it: onCancel closes the transport.
ExCancel ==
    /\ exReply = "ok" /\ exBodyState = "open"
    /\ exBodyState' = "cancelled" /\ exInput' = "cancelled"
    /\ UNCHANGED <<exSend, exGoVars, exTaken, exReplyVars, exRequest, exRequestDone,
                   exResponseDone>>
-----------------------------------------------------------------------------
(* _writeRequestBody and what the parser makes of its end. *)

\* Mutant: only the end of the response closes the body.
ExBodyStays == UNCHANGED exBodyState

\* requestBodyDone ends with _maybeCloseBody.
ExBodyAfterRequest == ExMaybeCloseBody

ExRequestSent ==
    /\ exSend = "running" /\ exRequest = "writing"
    /\ exRequest' = "done" /\ exRequestDone' = TRUE
    /\ UNCHANGED exResponseDone /\ ExBodyAfterRequest
    /\ UNCHANGED <<exSend, exGoVars, exTaken, exInput, exReplyVars>>

\* The source of the body, the adoption or a write fails, the write also when Go is done with
\* the request: fatal before the head is complete, an error of the body after.
ExRequestFails ==
    /\ exSend = "running" /\ exRequest = "writing" /\ exRequest' = "failed"
    /\ exReply' = IF exReply = "pending" THEN "error" ELSE exReply
    /\ exBodyState' = IF exBodyState = "open" THEN "error" ELSE exBodyState
    /\ exInput' = IF exInput = "on" THEN "cancelled" ELSE exInput
    /\ UNCHANGED <<exSend, exGoVars, exTaken, exHeadComplete, exBody, exRequestDone,
                   exResponseDone>>
-----------------------------------------------------------------------------
ExNext ==
    \/ ExAdopt
    \/ ExGoAnswers \/ ExGoFails \/ ExGoWritesNothing \/ ExGoCopies \/ ExGoEnds
    \/ (\E n \in 1..(HeadEnd + BodyBytes) : ExChunk(n))
    \/ ExDone \/ ExInputFails \/ ExCancel
    \/ ExRequestSent \/ ExRequestFails

ExSpec == ExInit /\ [][ExNext]_exVars

\* The transport delivers what was written and its end.
ExFairness == WF_exVars((\E n \in 1..(HeadEnd + BodyBytes) : ExChunk(n)) \/ ExDone)
-----------------------------------------------------------------------------
\* However the stream is cut into chunks, across the prefix, the head and the body, the body
\* that the application reads is what follows the head, from its first byte on, in order and
\* without a gap.
ExBodyExact ==
    /\ exBody = [i \in 1..Len(exBody) |-> HeadEnd + i]
    /\ exHeadComplete => HeadEnd + Len(exBody) = exTaken

\* A body that ends without an error ended after everything Go wrote was read and the whole
\* request body was sent.
ExCleanEnd == exBodyState = "closed" => exGo = "closed" /\ exTaken = exSent /\ exRequest = "done"

\* Once Go has closed the stream and the request body is sent or failed, the reply is settled
\* and the body over, in whichever order the two happened.
ExSettles ==
    []<>(exSend = "running" /\ exGo = "closed" /\ exRequest # "writing"
        => (exReply # "pending" /\ (exReply = "ok" => exBodyState # "open")))
=============================================================================
