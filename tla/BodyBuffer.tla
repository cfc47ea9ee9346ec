------------------------------ MODULE BodyBuffer ------------------------------
(***************************************************************************)
(* The body of a request or response: parseBodyStream, which buffers a     *)
(* live stream once and hands out any number of streams of the full body,  *)
(* with streamToBuffer and bufferThenStream underneath it.                 *)
(*                                                                         *)
(* Chunks are numbered in the order the input delivers them and all have   *)
(* size 1.  The input flows from the first asBuffer or asStream call.      *)
(* Backpressure is left out: it delays chunks, and never drops them.       *)
(***************************************************************************)
EXTENDS Integers, Sequences

CONSTANTS
    Reader,    \* the streams that asStream returns
    MaxSize,   \* maxBodySize
    MaxChunks  \* bound: chunks the input delivers

ASSUME BodyAssumption == MaxSize \in Nat /\ MaxChunks \in Nat

VARIABLES
    input,     \* the live stream: "open", "ended" or "aborted"
    pos,       \* chunks delivered so far
    promise,   \* bufferPromise
    chunks,    \* its currentChunks, while the buffer still listens
    truncated, \* the buffer went over MaxSize and stopped listening
    value,     \* what bufferPromise resolved to
    completed, \* completedBuffer is set
    kind,      \* the state of each stream
    late,      \* the stream was asked for after the truncation
    out        \* the chunks that each stream carried

vars == <<input, pos, promise, chunks, truncated, value, completed, kind, late, out>>

Chunk == 1..MaxChunks

\* The whole of the input up to its n-th chunk.
UpTo(n) == [i \in 1..n |-> i]

TypeOK ==
    /\ input \in {"open", "ended", "aborted"}
    /\ pos \in 0..MaxChunks
    /\ promise \in {"none", "pending", "failing", "resolved", "rejected"}
    /\ chunks \in Seq(Chunk)
    /\ truncated \in BOOLEAN
    /\ value \in Seq(Chunk)
    /\ completed \in BOOLEAN
    /\ kind \in [Reader -> {"none", "lazy", "live", "ended", "failed"}]
    /\ late \in [Reader -> BOOLEAN]
    /\ out \in [Reader -> Seq(Chunk)]

Init ==
    /\ input = "open"
    /\ pos = 0
    /\ promise = "none"
    /\ chunks = <<>>
    /\ truncated = FALSE
    /\ value = <<>>
    /\ completed = FALSE
    /\ kind = [r \in Reader |-> "none"]
    /\ late = [r \in Reader |-> FALSE]
    /\ out = [r \in Reader |-> <<>>]

-----------------------------------------------------------------------------
(* asBuffer and asStream *)

\* streamToBuffer starts once; an input that was aborted fails it a turn later.
Buffering ==
    IF promise = "none"
        THEN IF input = "aborted" THEN "failing" ELSE "pending"
        ELSE promise

AsBuffer ==
    /\ promise = "none"
    /\ promise' = Buffering
    /\ UNCHANGED <<input, pos, chunks, truncated, value, completed, kind, late, out>>

\* The body is already buffered: stream out the buffer.
StreamOfBuffer(r) ==
    /\ kind[r] = "none"
    /\ completed
    /\ kind' = [kind EXCEPT ![r] = "ended"]
    /\ late' = [late EXCEPT ![r] = truncated]
    /\ out' = [out EXCEPT ![r] = value]
    /\ UNCHANGED <<input, pos, promise, chunks, truncated, value, completed>>

\* Otherwise a stream that is not active until its first read.
StreamOfInput(r) ==
    /\ kind[r] = "none"
    /\ ~completed
    /\ promise' = Buffering
    /\ kind' = [kind EXCEPT ![r] = "lazy"]
    /\ late' = [late EXCEPT ![r] = truncated]
    /\ UNCHANGED <<input, pos, chunks, truncated, value, completed, out>>

\* The first read: write what is buffered, then pipe the input.
Activate(r) ==
    /\ kind[r] = "lazy"
    /\ promise # "rejected"
    /\ input # "aborted"
    /\ kind' = [kind EXCEPT ![r] = IF input = "ended" THEN "ended" ELSE "live"]
    /\ out' = [out EXCEPT ![r] = chunks]
    /\ UNCHANGED <<input, pos, promise, chunks, truncated, value, completed, late>>

\* The first read of a stream whose input or buffer failed.
ActivateFailed(r) ==
    /\ kind[r] = "lazy"
    /\ promise = "rejected" \/ input = "aborted"
    /\ kind' = [kind EXCEPT ![r] = "failed"]
    /\ UNCHANGED <<input, pos, promise, chunks, truncated, value, completed, late, out>>

-----------------------------------------------------------------------------
(* The input *)

\* Mutant: chunks without end.
InputFlowsOn == input = "open" /\ promise # "none"

InputFlows == input = "open" /\ promise # "none" /\ pos < MaxChunks

Overflows == Len(chunks) + 1 > MaxSize

\* Streams that are piped from the input receive the next chunk.
Forwarded == [r \in Reader |->
                 IF kind[r] = "live" THEN Append(out[r], pos + 1) ELSE out[r]]

\* Mutant: the limit is not checked.
ChunkUnlimited ==
    /\ InputFlows
    /\ ~truncated
    /\ pos' = pos + 1
    /\ chunks' = Append(chunks, pos + 1)
    /\ out' = Forwarded
    /\ UNCHANGED <<input, promise, truncated, value, completed, kind, late>>

\* A chunk that the buffer keeps.
ChunkBuffered ==
    /\ InputFlows
    /\ ~truncated
    /\ ~Overflows
    /\ pos' = pos + 1
    /\ chunks' = Append(chunks, pos + 1)
    /\ out' = Forwarded
    /\ UNCHANGED <<input, promise, truncated, value, completed, kind, late>>

\* Mutant: the data is dropped before `truncate` is emitted.
ChunkOverflowsDropped ==
    /\ InputFlows
    /\ ~truncated
    /\ Overflows
    /\ pos' = pos + 1
    /\ chunks' = <<>>
    /\ truncated' = TRUE
    /\ promise' = IF promise = "pending" THEN "resolved" ELSE promise
    /\ kind' = [r \in Reader |-> IF kind[r] = "lazy" THEN "live" ELSE kind[r]]
    /\ out' = Forwarded
    /\ UNCHANGED <<input, value, completed, late>>

(***************************************************************************)
(* The chunk that goes over the limit.  `truncate` makes every stream that *)
(* has not started take what is buffered, this chunk included, and then    *)
(* the buffer drops its data, stops listening and resolves as empty.       *)
(***************************************************************************)
ChunkOverflows ==
    /\ InputFlows
    /\ ~truncated
    /\ Overflows
    /\ pos' = pos + 1
    /\ chunks' = <<>>
    /\ truncated' = TRUE
    /\ promise' = IF promise = "pending" THEN "resolved" ELSE promise
    /\ kind' = [r \in Reader |-> IF kind[r] = "lazy" THEN "live" ELSE kind[r]]
    /\ out' = [r \in Reader |->
                  IF kind[r] = "lazy" THEN Append(chunks, pos + 1) ELSE Forwarded[r]]
    /\ UNCHANGED <<input, value, completed, late>>

\* A chunk after the truncation: only the streams take it.
ChunkPassed ==
    /\ InputFlows
    /\ truncated
    /\ pos' = pos + 1
    /\ out' = Forwarded
    /\ UNCHANGED <<input, promise, chunks, truncated, value, completed, kind, late>>

\* Mutant: nobody listens for `end` on the buffer.
InputEndsUnheard ==
    /\ input = "open"
    /\ promise # "none"
    /\ input' = "ended"
    /\ kind' = [r \in Reader |-> IF kind[r] = "live" THEN "ended" ELSE kind[r]]
    /\ UNCHANGED <<pos, promise, value, chunks, truncated, completed, late, out>>

\* The input ends: the buffer resolves, unless it did, and pipes end.
InputEnds ==
    /\ input = "open"
    /\ promise # "none"
    /\ input' = "ended"
    /\ IF promise = "pending"
          THEN promise' = "resolved" /\ value' = chunks
          ELSE UNCHANGED <<promise, value>>
    /\ kind' = [r \in Reader |-> IF kind[r] = "live" THEN "ended" ELSE kind[r]]
    /\ UNCHANGED <<pos, chunks, truncated, completed, late, out>>

\* Mutant: an abort resolves the buffer with what there is.
InputAbortsResolved ==
    /\ input = "open"
    /\ input' = "aborted"
    /\ IF promise = "pending"
          THEN promise' = "resolved" /\ value' = chunks
          ELSE UNCHANGED <<promise, value>>
    /\ kind' = [r \in Reader |-> IF kind[r] = "live" THEN "failed" ELSE kind[r]]
    /\ UNCHANGED <<pos, chunks, truncated, completed, late, out>>

\* `aborted` and `error`, at any time: the buffer rejects and pipes are told.
InputAborts ==
    /\ input = "open"
    /\ input' = "aborted"
    /\ promise' = IF promise = "pending" THEN "rejected" ELSE promise
    /\ kind' = [r \in Reader |-> IF kind[r] = "live" THEN "failed" ELSE kind[r]]
    /\ UNCHANGED <<pos, chunks, truncated, value, completed, late, out>>

\* setImmediate(failWithAbortError)
FailLater ==
    /\ promise = "failing"
    /\ promise' = "rejected"
    /\ UNCHANGED <<input, pos, chunks, truncated, value, completed, kind, late, out>>

\* .then((buffer) => completedBuffer = buffer)
Complete ==
    /\ promise = "resolved"
    /\ ~completed
    /\ completed' = TRUE
    /\ UNCHANGED <<input, pos, promise, chunks, truncated, value, kind, late, out>>

Next ==
    \/ AsBuffer
    \/ \E r \in Reader :
          StreamOfBuffer(r) \/ StreamOfInput(r) \/ Activate(r) \/ ActivateFailed(r)
    \/ ChunkBuffered \/ ChunkOverflows \/ ChunkPassed
    \/ InputEnds \/ InputAborts
    \/ FailLater \/ Complete

Spec == Init /\ [][Next]_vars

\* Consumers read the streams they ask for, the sender ends or aborts what it
\* sends, and the event loop runs the rest.
FairSpec ==
    /\ Spec
    /\ WF_vars(InputEnds \/ InputAborts)
    /\ WF_vars(FailLater)
    /\ WF_vars(Complete)
    /\ \A r \in Reader : WF_vars(Activate(r) \/ ActivateFailed(r))

-----------------------------------------------------------------------------
(* Properties *)

(***************************************************************************)
(* What holds the rest together: until the truncation the buffer has the   *)
(* whole of the input, afterwards it has nothing and has resolved so.      *)
(***************************************************************************)
BufferInv ==
    /\ promise = "none" => pos = 0 /\ input # "ended"
    /\ promise \in {"failing", "rejected"} => input = "aborted"
    /\ ~truncated => chunks = UpTo(pos) /\ pos <= MaxSize
    /\ truncated =>
          chunks = <<>> /\ value = <<>> /\ pos > MaxSize /\ promise = "resolved"
    /\ promise = "resolved" /\ ~truncated => input = "ended" /\ value = UpTo(pos)
    /\ promise # "resolved" => value = <<>>
    /\ completed => promise = "resolved"
    /\ promise = "pending" => input = "open"

\* The stream r has carried all of the input, as far as it has come.
HasFullBody(r) ==
    kind[r] \in {"live", "ended"} => out[r] = UpTo(pos)

(***************************************************************************)
(* However buffering, truncation, the input and the first reads interleave *)
(* a stream that was asked for before the body was truncated carries every *)
(* chunk, once and in order, and ends only after the last.                 *)
(***************************************************************************)
StreamsHaveFullBody ==
    \A r \in Reader :
        ~late[r] => HasFullBody(r) /\ (kind[r] = "ended" => input = "ended")

\* Streams not started yet, or not asked for yet, missed no truncation.
StreamInv ==
    \A r \in Reader :
        /\ kind[r] = "none" => ~late[r]
        /\ kind[r] = "lazy" => late[r] = truncated /\ promise # "none"
        /\ late[r] => truncated
        /\ kind[r] = "live" => input = "open" /\ promise # "none"

(***************************************************************************)
(* The buffer resolves to the whole of a body that ended, or to nothing if *)
(* it is over MaxSize, and is never a part of it.                          *)
(***************************************************************************)
BufferWholeOrEmpty ==
    promise = "resolved" =>
        \/ ~truncated /\ input = "ended" /\ value = UpTo(pos) /\ pos <= MaxSize
        \/ truncated /\ value = <<>> /\ pos > MaxSize

(***************************************************************************)
(* The memory the buffer holds stays within MaxSize.                       *)
(***************************************************************************)
BufferBounded == Len(chunks) <= MaxSize /\ Len(value) <= MaxSize

(***************************************************************************)
(* Whoever waits for the buffer, or reads a stream to its end, gets an     *)
(* answer: neither an abort nor a truncation leaves them waiting.          *)
(***************************************************************************)
EveryoneAnswered ==
    /\ promise # "none" ~> promise \in {"resolved", "rejected"}
    /\ \A r \in Reader : kind[r] # "none" ~> kind[r] \in {"ended", "failed"}

=============================================================================
