------------------------- MODULE BodyBuffer_proofs -------------------------
(***************************************************************************)
(* Every stream asked for before a truncation carries the full body, and   *)
(* the buffer is the whole body or nothing, for any number of streams and  *)
(* any limit.                                                              *)
(***************************************************************************)
EXTENDS BodyBuffer, TLAPS

IInv == TypeOK /\ BufferInv /\ StreamInv /\ StreamsHaveFullBody

-----------------------------------------------------------------------------
(* The input, numbered, is a sequence that grows one chunk at a time.      *)
LEMMA UpToIsSeq ==
    ASSUME NEW n \in 0..MaxChunks
    PROVE  UpTo(n) \in Seq(Chunk) /\ Len(UpTo(n)) = n
BY BodyAssumption DEF UpTo, Chunk

LEMMA UpToGrows ==
    ASSUME NEW n \in 0..MaxChunks, n < MaxChunks
    PROVE  Append(UpTo(n), n + 1) = UpTo(n + 1)
BY BodyAssumption DEF UpTo

LEMMA UpToZero == UpTo(0) = <<>>
BY DEF UpTo

-----------------------------------------------------------------------------
LEMMA InitIInv == Init => IInv
<1> SUFFICES ASSUME Init PROVE IInv
    OBVIOUS
<1> USE BodyAssumption, UpToZero DEF Init
<1>1. <<>> \in Seq(Chunk) /\ 0 \in 0..MaxChunks
    OBVIOUS
<1>2. TypeOK
    BY <1>1 DEF TypeOK
<1>3. BufferInv
    BY DEF BufferInv
<1>4. StreamInv
    BY DEF StreamInv
<1>5. StreamsHaveFullBody
    BY DEF StreamsHaveFullBody, HasFullBody
<1> QED BY <1>2, <1>3, <1>4, <1>5 DEF IInv

(* Asking for the buffer, or for a stream.                                 *)
LEMMA AsBufferIInv ==
    ASSUME IInv, AsBuffer
    PROVE  IInv'
<1> USE DEF IInv, AsBuffer, Buffering
<1>1. TypeOK'
    BY DEF TypeOK
<1>2. BufferInv'
    BY DEF TypeOK, BufferInv
<1>3. StreamInv'
    BY DEF TypeOK, StreamInv
<1>4. StreamsHaveFullBody'
    BY DEF StreamsHaveFullBody, HasFullBody
<1> QED BY <1>1, <1>2, <1>3, <1>4

LEMMA StreamOfBufferIInv ==
    ASSUME IInv, NEW r \in Reader, StreamOfBuffer(r)
    PROVE  IInv'
<1> USE DEF IInv, StreamOfBuffer
<1>1. TypeOK'
    BY DEF TypeOK
<1>2. BufferInv'
    BY DEF BufferInv
<1>3. StreamInv'
    BY DEF TypeOK, StreamInv
<1>4. ~truncated => value = UpTo(pos) /\ input = "ended"
    BY DEF BufferInv
<1>5. StreamsHaveFullBody'
    BY <1>4 DEF TypeOK, StreamsHaveFullBody, HasFullBody
<1> QED BY <1>1, <1>2, <1>3, <1>5

LEMMA StreamOfInputIInv ==
    ASSUME IInv, NEW r \in Reader, StreamOfInput(r)
    PROVE  IInv'
<1> USE DEF IInv, StreamOfInput, Buffering
<1>1. TypeOK'
    BY DEF TypeOK
<1>2. BufferInv'
    BY DEF TypeOK, BufferInv
<1>3. StreamInv'
    BY DEF TypeOK, StreamInv
<1>4. StreamsHaveFullBody'
    BY DEF TypeOK, StreamsHaveFullBody, HasFullBody
<1> QED BY <1>1, <1>2, <1>3, <1>4

(* The first read of a stream.                                             *)
LEMMA ActivateIInv ==
    ASSUME IInv, NEW r \in Reader, Activate(r)
    PROVE  IInv'
<1> USE DEF IInv, Activate
<1>1. TypeOK'
    BY DEF TypeOK
<1>2. BufferInv'
    BY DEF BufferInv
<1>3. promise # "none"
    BY DEF StreamInv
<1>4. StreamInv'
    BY <1>3 DEF TypeOK, StreamInv
<1>5. ~late[r] => chunks = UpTo(pos)
    BY DEF StreamInv, BufferInv
<1>6. StreamsHaveFullBody'
    BY <1>5 DEF TypeOK, StreamsHaveFullBody, HasFullBody
<1> QED BY <1>1, <1>2, <1>4, <1>6

LEMMA ActivateFailedIInv ==
    ASSUME IInv, NEW r \in Reader, ActivateFailed(r)
    PROVE  IInv'
<1> USE DEF IInv, ActivateFailed
<1>1. TypeOK'
    BY DEF TypeOK
<1>2. BufferInv'
    BY DEF BufferInv
<1>3. StreamInv'
    BY DEF TypeOK, StreamInv
<1>4. StreamsHaveFullBody'
    BY DEF TypeOK, StreamsHaveFullBody, HasFullBody
<1> QED BY <1>1, <1>2, <1>3, <1>4

-----------------------------------------------------------------------------
(* A chunk arrives: streams that are piped keep up with the input.         *)
LEMMA ForwardedFollows ==
    ASSUME IInv, InputFlows
    PROVE  /\ pos + 1 \in Chunk
           /\ Forwarded \in [Reader -> Seq(Chunk)]
           /\ \A r \in Reader : kind[r] = "live" /\ ~late[r] =>
                  Forwarded[r] = UpTo(pos + 1)
<1> USE BodyAssumption DEF IInv, InputFlows
<1>1. pos + 1 \in Chunk /\ pos \in 0..MaxChunks /\ pos < MaxChunks
    BY DEF TypeOK, Chunk
<1>2. Forwarded \in [Reader -> Seq(Chunk)]
    BY <1>1 DEF TypeOK, Forwarded
<1>3. \A r \in Reader : kind[r] = "live" /\ ~late[r] =>
          Forwarded[r] = UpTo(pos + 1)
    BY <1>1, UpToGrows DEF Forwarded, StreamsHaveFullBody, HasFullBody
<1> QED BY <1>1, <1>2, <1>3

(* While the input flows no stream that was asked for in time has ended.   *)
LEMMA FlowingNotEnded ==
    ASSUME IInv, InputFlows, NEW r \in Reader, ~late[r]
    PROVE  kind[r] # "ended"
BY DEF IInv, InputFlows, StreamsHaveFullBody

LEMMA ChunkBufferedIInv ==
    ASSUME IInv, ChunkBuffered
    PROVE  IInv'
<1> USE BodyAssumption DEF ChunkBuffered
<1>1. pos \in 0..MaxChunks /\ pos < MaxChunks /\ pos' = pos + 1 /\ chunks = UpTo(pos)
    BY DEF IInv, TypeOK, BufferInv, InputFlows
<1>2. chunks' = UpTo(pos') /\ Len(chunks) = pos
    BY <1>1, UpToGrows, UpToIsSeq
<1>3. pos' <= MaxSize
    BY <1>1, <1>2 DEF Overflows
<1>4. TypeOK'
    BY <1>1, ForwardedFollows DEF IInv, TypeOK
<1>5. BufferInv'
    BY <1>2, <1>3 DEF IInv, BufferInv, InputFlows
<1>6. StreamInv'
    BY DEF IInv, StreamInv
<1>7. StreamsHaveFullBody'
    BY <1>1, ForwardedFollows, FlowingNotEnded
    DEF IInv, StreamsHaveFullBody, HasFullBody
<1> QED BY <1>4, <1>5, <1>6, <1>7 DEF IInv

LEMMA ChunkOverflowsIInv ==
    ASSUME IInv, ChunkOverflows
    PROVE  IInv'
<1> USE BodyAssumption DEF ChunkOverflows
<1>1. pos \in 0..MaxChunks /\ pos < MaxChunks /\ pos' = pos + 1 /\ chunks = UpTo(pos)
    BY DEF IInv, TypeOK, BufferInv, InputFlows
<1>2. Append(chunks, pos + 1) = UpTo(pos') /\ Len(chunks) = pos
    BY <1>1, UpToGrows, UpToIsSeq
<1>3. pos' > MaxSize
    BY <1>1, <1>2 DEF Overflows
<1>4. promise = "pending"
    BY DEF IInv, TypeOK, BufferInv, InputFlows
<1>5. Append(chunks, pos + 1) \in Seq(Chunk)
    BY <1>1, <1>2, UpToIsSeq DEF Chunk
<1>6. TypeOK'
    BY <1>1, <1>5, ForwardedFollows DEF IInv, TypeOK
<1>7. BufferInv'
    BY <1>3, <1>4 DEF IInv, BufferInv, InputFlows
<1>8. \A r \in Reader : ~late[r]
    BY DEF IInv, StreamInv
<1>9. StreamInv'
    BY <1>4, <1>8 DEF IInv, TypeOK, StreamInv, InputFlows
<1>10. StreamsHaveFullBody'
  <2> SUFFICES ASSUME NEW r \in Reader
               PROVE  /\ kind'[r] \in {"live", "ended"} => out'[r] = UpTo(pos')
                      /\ kind'[r] # "ended"
      BY DEF StreamsHaveFullBody, HasFullBody
  <2>1. kind[r] # "ended"
      BY <1>8, FlowingNotEnded
  <2>2. CASE kind[r] = "lazy"
      BY <2>2, <1>2 DEF IInv, TypeOK
  <2>3. CASE kind[r] # "lazy"
      BY <2>1, <2>3, <1>1, <1>8, ForwardedFollows DEF IInv, TypeOK
  <2> QED BY <2>2, <2>3
<1> QED BY <1>6, <1>7, <1>9, <1>10 DEF IInv

LEMMA ChunkPassedIInv ==
    ASSUME IInv, ChunkPassed
    PROVE  IInv'
<1> USE BodyAssumption DEF ChunkPassed
<1>1. pos \in 0..MaxChunks /\ pos < MaxChunks /\ pos' = pos + 1
    BY DEF IInv, TypeOK, InputFlows
<1>2. TypeOK'
    BY <1>1, ForwardedFollows DEF IInv, TypeOK
<1>3. BufferInv'
    BY <1>1 DEF IInv, BufferInv, InputFlows
<1>4. StreamInv'
    BY DEF IInv, StreamInv
<1>5. StreamsHaveFullBody'
    BY <1>1, ForwardedFollows, FlowingNotEnded
    DEF IInv, StreamsHaveFullBody, HasFullBody
<1> QED BY <1>2, <1>3, <1>4, <1>5 DEF IInv

-----------------------------------------------------------------------------
(* The input ends or is aborted, and what follows a turn later.            *)
LEMMA InputEndsIInv ==
    ASSUME IInv, InputEnds
    PROVE  IInv'
<1> USE DEF IInv, InputEnds
<1>1. TypeOK'
    BY DEF TypeOK
<1>2. BufferInv'
    BY DEF TypeOK, BufferInv
<1>3. StreamInv'
    BY DEF TypeOK, StreamInv
<1>4. StreamsHaveFullBody'
    BY DEF TypeOK, StreamsHaveFullBody, HasFullBody
<1> QED BY <1>1, <1>2, <1>3, <1>4

LEMMA InputAbortsIInv ==
    ASSUME IInv, InputAborts
    PROVE  IInv'
<1> USE DEF IInv, InputAborts
<1>1. TypeOK'
    BY DEF TypeOK
<1>2. BufferInv'
    BY DEF TypeOK, BufferInv
<1>3. StreamInv'
    BY DEF TypeOK, BufferInv, StreamInv
<1>4. StreamsHaveFullBody'
    BY DEF TypeOK, StreamsHaveFullBody, HasFullBody
<1> QED BY <1>1, <1>2, <1>3, <1>4

LEMMA FailLaterIInv ==
    ASSUME IInv, FailLater
    PROVE  IInv'
BY DEF IInv, FailLater, TypeOK, BufferInv, StreamInv, StreamsHaveFullBody, HasFullBody

LEMMA CompleteIInv ==
    ASSUME IInv, Complete
    PROVE  IInv'
BY DEF IInv, Complete, TypeOK, BufferInv, StreamInv, StreamsHaveFullBody, HasFullBody

LEMMA NextIInv == IInv /\ [Next]_vars => IInv'
<1> SUFFICES ASSUME IInv, [Next]_vars PROVE IInv'
    OBVIOUS
<1>1. CASE AsBuffer
    BY <1>1, AsBufferIInv
<1>2. CASE \E r \in Reader :
              StreamOfBuffer(r) \/ StreamOfInput(r) \/ Activate(r) \/ ActivateFailed(r)
    BY <1>2, StreamOfBufferIInv, StreamOfInputIInv, ActivateIInv, ActivateFailedIInv
<1>3. CASE ChunkBuffered
    BY <1>3, ChunkBufferedIInv
<1>4. CASE ChunkOverflows
    BY <1>4, ChunkOverflowsIInv
<1>5. CASE ChunkPassed
    BY <1>5, ChunkPassedIInv
<1>6. CASE InputEnds
    BY <1>6, InputEndsIInv
<1>7. CASE InputAborts
    BY <1>7, InputAbortsIInv
<1>8. CASE FailLater
    BY <1>8, FailLaterIInv
<1>9. CASE Complete
    BY <1>9, CompleteIInv
<1>10. CASE UNCHANGED vars
    BY <1>10 DEF IInv, vars, TypeOK, BufferInv, StreamInv, StreamsHaveFullBody, HasFullBody
<1> QED BY <1>1, <1>2, <1>3, <1>4, <1>5, <1>6, <1>7, <1>8, <1>9, <1>10 DEF Next

LEMMA SpecIInv == Spec => []IInv
BY InitIInv, NextIInv, PTL DEF Spec

-----------------------------------------------------------------------------
(* What each property takes from the invariant.                            *)
LEMMA InvBuffer == IInv => BufferWholeOrEmpty /\ BufferBounded
<1> SUFFICES ASSUME IInv PROVE BufferWholeOrEmpty /\ BufferBounded
    OBVIOUS
<1> USE BodyAssumption DEF IInv
<1>1. BufferWholeOrEmpty
    BY DEF BufferInv, BufferWholeOrEmpty
<1>2. pos \in 0..MaxChunks /\ Len(UpTo(pos)) = pos
    BY UpToIsSeq DEF TypeOK
<1>3. Len(chunks) <= MaxSize
    BY <1>2 DEF BufferInv
<1>4. Len(value) <= MaxSize
    BY <1>2 DEF BufferInv
<1> QED BY <1>1, <1>3, <1>4 DEF BufferBounded

(* Type correctness of the body, its buffer and its streams.               *)
THEOREM BodyTypeOK == Spec => []TypeOK
BY SpecIInv, PTL DEF IInv

(* parseBodyStream: a stream asked for before the body is truncated        *)
(* carries every chunk once and in order, whenever it is first read.       *)
THEOREM BodyStreamsFull == Spec => []StreamsHaveFullBody
BY SpecIInv, PTL DEF IInv

(* streamToBuffer: the buffer resolves to the whole body or to nothing.    *)
THEOREM BodyBufferWhole == Spec => []BufferWholeOrEmpty
BY SpecIInv, InvBuffer, PTL

(* streamToBuffer: it never keeps more than maxBodySize.                   *)
THEOREM BodyBufferBounded == Spec => []BufferBounded
BY SpecIInv, InvBuffer, PTL

=============================================================================
