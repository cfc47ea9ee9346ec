----------------------- MODULE RequestLifecycle_proofs -----------------------
(***************************************************************************)
(* What subscribers hear of a request, for any number of requests whose    *)
(* callbacks wait in the queue together, and any number of resets.         *)
(*                                                                         *)
(* The argument follows each event of each request from `Unsaid` (the code *)
(* may still announce it) to the queue and to those who hear it: it leaves *)
(* each of them once, and what must come before it has left `Unsaid`       *)
(* before.                                                                 *)
(***************************************************************************)
EXTENDS Requests, FiniteSetTheorems, SequenceTheorems, WellFoundedInduction, TLAPS

Unstarted == {"new", "rejected"}
Unanswered == {"new", "matching", "handling"}

\* The code can still get to an announcement of event e of a request at stage s, whose body is
\* owed to listeners or not, with response r and result x.
CanCome(s, owes, r, x, e) ==
    \/ e = "request-initiated" /\ s = "new"
    \/ e = "request" /\ (s \in {"new", "matching"} \/ owes)
    \/ e = "response-initiated" /\ s \in Unanswered /\ ~r.head
    \/ e = "response" /\ s \in Unanswered
    \/ e = "abort" /\ x = "none"

Unsaid(q, e) == CanCome(stage[q], owed[q], response[q], result[q], e)

\* What event e says is the case, with body b, response r and result x.
IsTrue(b, r, x, e) ==
    /\ e = "request" => b \in Resolved
    /\ e = "response" => x = "responded" /\ (r.ended \/ r.over)
    /\ e = "abort" => x = "aborted"

Holds(q, e) == IsTrue(body[q], response[q], result[q], e)

\* Event e is heard before f, if both are.
Precedes(e, f) ==
    \/ e = "request-initiated" /\ f \in Event \ {e}
    \/ e = "response-initiated" /\ f = "response"

\* Nothing happens to a request before it starts, and its body is waited for
\* when the rule is known.
UnstartedOK ==
    \A q \in Request :
        /\ stage[q] \in Unstarted =>
               result[q] = "none" /\ ~response[q].ended /\ heard[q] = <<>>
        /\ owed[q] => stage[q] \in {"handling", "settled"}

\* A callback for event e of q that waits in the queue: what it says is true and not heard yet.
WaitingOK(q, e) ==
    /\ stage[q] \notin Unstarted
    /\ e \in Event => ~Unsaid(q, e) /\ Holds(q, e)
    /\ \A f \in Event : Precedes(f, e) => ~Unsaid(q, f)
    /\ \A k \in DOMAIN heard[q] :
           heard[q][k].event # e /\ ~Precedes(e, heard[q][k].event)

\* Callback c may wait before d.
InOrder(c, d) ==
    d.for = c.for /\ c.do \in Event => d.do # c.do /\ ~Precedes(d.do, c.do)

QueueOK ==
    \A i \in DOMAIN queue :
        /\ WaitingOK(queue[i].for, queue[i].do)
        /\ \A j \in DOMAIN queue : i < j => InOrder(queue[i], queue[j])

\* Event e was heard of q: it was true, and what comes before it was said.
HeardWell(q, e) ==
    /\ ~Unsaid(q, e)
    /\ Holds(q, e)
    /\ \A f \in Event : Precedes(f, e) => ~Unsaid(q, f)

\* It was heard from the emitter that the request has, once, and in order.
HeardOK ==
    \A q \in Request : \A i \in DOMAIN heard[q] :
        /\ HeardWell(q, heard[q][i].event)
        /\ heard[q][i].epoch = emitter[q]
        /\ \A j \in DOMAIN heard[q] :
               i < j => /\ heard[q][j].event # heard[q][i].event
                        /\ ~Precedes(heard[q][j].event, heard[q][i].event)

IInv == TypeOK /\ UnstartedOK /\ QueueOK /\ HeardOK

-----------------------------------------------------------------------------
(* The sequences of callbacks that a step adds to the queue.               *)

\* s has event e of request q once at most, and nothing else.
IsAnnouncement(s, q, e) == s = <<>> \/ s = <<[do |-> e, for |-> q]>>

LEMMA CallbacksAnnounce ==
    ASSUME NEW q \in Request, NEW e \in Event \cup {"close"}
    PROVE  IsAnnouncement(Callbacks(q, e), q, e)
BY DEF IsAnnouncement, Callbacks, Callback

LEMMA NothingAnnounces ==
    ASSUME NEW q, NEW e
    PROVE  IsAnnouncement(<<>>, q, e)
BY DEF IsAnnouncement

LEMMA AnnouncementAnnounces ==
    ASSUME NEW q \in Request, NEW e \in Event
    PROVE  IsAnnouncement(Announcement(q, e), q, e)
BY CallbacksAnnounce, NothingAnnounces DEF Announcement

LEMMA HeadAnnounces ==
    ASSUME NEW q \in Request
    PROVE  /\ IsAnnouncement(HeadAnnouncement(q), q, "response-initiated")
           /\ response[q].head => HeadAnnouncement(q) = <<>>
BY AnnouncementAnnounces, NothingAnnounces DEF HeadAnnouncement, Event

LEMMA ResponseAnnounces ==
    ASSUME NEW q \in Request
    PROVE  /\ IsAnnouncement(ResponseAnnouncement(q), q, "response")
           /\ Responded(q) # "responded" => ResponseAnnouncement(q) = <<>>
BY AnnouncementAnnounces, NothingAnnounces DEF ResponseAnnouncement, Event

LEMMA AbortAnnounces ==
    ASSUME NEW q \in Request
    PROVE  /\ IsAnnouncement(AbortCallbacks(q), q, "abort")
           /\ result[q] # "none" => AbortCallbacks(q) = <<>>
BY CallbacksAnnounce, NothingAnnounces DEF AbortCallbacks, Event

-----------------------------------------------------------------------------
(* Steps, by what they do to the queue and to a request.                   *)

\* The code may announce event e of request q in this step, and not again.
MaySay(q, e) ==
    /\ stage'[q] \notin Unstarted
    /\ e \in Event =>
           /\ Unsaid(q, e) /\ ~CanCome(stage'[q], owed'[q], response'[q], result'[q], e)
           /\ IsTrue(body'[q], response'[q], result'[q], e)
    /\ \A f \in Event :
           Precedes(f, e) => ~CanCome(stage'[q], owed'[q], response'[q], result'[q], f)

\* The queue loses its first d callbacks, and gets what request q announces.
Queues(q, d) ==
    LET kept == Len(queue) - d
    IN  /\ queue' \in Seq(Callback)
        /\ kept <= Len(queue')
        /\ \A i \in 1..kept : queue'[i] = queue[i + d]
        /\ \A i \in (kept + 1)..Len(queue') :
               /\ queue'[i].for = q /\ MaySay(q, queue'[i].do)
               /\ \A j \in (kept + 1)..Len(queue') :
                      i < j => /\ queue'[j].do # queue'[i].do
                               /\ ~Precedes(queue'[j].do, queue'[i].do)

\* Request q goes on, and what was said of it remains true.
GoesOn(q) ==
    /\ \A p \in Request \ {q} :
           /\ stage'[p] = stage[p] /\ result'[p] = result[p] /\ body'[p] = body[p]
           /\ owed'[p] = owed[p] /\ response'[p] = response[p]
           /\ emitter'[p] = emitter[p]
    /\ stage'[q] \in Unstarted => stage[q] \in Unstarted
    /\ stage'[q] \in Unstarted => result'[q] = "none" /\ ~response'[q].ended
    /\ owed'[q] => stage'[q] \in {"handling", "settled"}
    /\ \A e \in Event : (Unsaid(q, e)' => Unsaid(q, e)) /\ (Holds(q, e) => Holds(q, e)')
    /\ emitter'[q] = emitter[q] \/ stage[q] \in Unstarted

(* Two sequences of one element at most, at the end of another.            *)
\* all is Q, with x after it if A is not empty, and y after that if B is not.
Adds(S, Q, x, y, A, B, all) ==
    /\ all \in Seq(S)
    /\ Len(Q) <= Len(all)
    /\ \A i \in 1..Len(Q) : all[i] = Q[i]
    /\ \A i \in (Len(Q) + 1)..Len(all) :
           (all[i] = x /\ A = <<x>>) \/ (all[i] = y /\ B = <<y>>)
    /\ \A i, j \in (Len(Q) + 1)..Len(all) : i < j => all[i] = x /\ all[j] = y

LEMMA AddTwo ==
    ASSUME NEW S, NEW Q \in Seq(S), NEW x \in S, NEW y \in S,
           NEW A, NEW B, NEW all,
           A = <<>> \/ A = <<x>>, B = <<>> \/ B = <<y>>, all = (Q \o A) \o B
    PROVE  Adds(S, Q, x, y, A, B, all)
<1> USE DEF Adds
<1>1. CASE A = <<>> /\ B = <<>>
  <2>1. all = Q
      BY <1>1
  <2> QED BY <2>1
<1>2. CASE A = <<x>> /\ B = <<>>
  <2>1. all = Append(Q, x)
      BY <1>2
  <2>2. all \in Seq(S) /\ Len(all) = Len(Q) + 1 /\ all[Len(Q) + 1] = x
      BY <2>1
  <2> QED BY <2>1, <2>2, <1>2
<1>3. CASE A = <<>> /\ B = <<y>>
  <2>1. all = Append(Q, y)
      BY <1>3
  <2> QED BY <2>1, <1>3
<1>4. CASE A = <<x>> /\ B = <<y>>
  <2>1. Q \o A = Append(Q, x) /\ Append(Q, x) \in Seq(S)
      BY <1>4
  <2>2. all = Append(Append(Q, x), y)
      BY <2>1, <1>4
  <2> QED BY <2>2, <1>4
<1> QED BY <1>1, <1>2, <1>3, <1>4

\* What one step may add: nothing, one announcement or two.
LEMMA QueuesTwo ==
    ASSUME TypeOK, NEW q \in Request, NEW d \in {0, 1},
           NEW Q \in Seq(Callback), Len(Q) = Len(queue) - d,
           \A i \in 1..Len(Q) : Q[i] = queue[i + d],
           NEW A, NEW B, NEW e \in Event \cup {"close"}, NEW f \in Event \cup {"close"},
           IsAnnouncement(A, q, e), IsAnnouncement(B, q, f),
           e # f, ~Precedes(f, e),
           A # <<>> => MaySay(q, e), B # <<>> => MaySay(q, f),
           queue' = (Q \o A) \o B
    PROVE  Queues(q, d)
<1> DEFINE x == [do |-> e, for |-> q]
           y == [do |-> f, for |-> q]
<1>1. /\ x \in Callback /\ x.do = e /\ x.for = q
      /\ y \in Callback /\ y.do = f /\ y.for = q
    BY DEF Callback
<1>2. (A = <<>> \/ A = <<x>>) /\ (B = <<>> \/ B = <<y>>)
    BY DEF IsAnnouncement
<1>3. <<x>> # <<>> /\ <<y>> # <<>>
    OBVIOUS
<1> HIDE DEF x, y
<1>4. Adds(Callback, Q, x, y, A, B, queue')
    BY <1>1, <1>2, AddTwo, Zenon
<1>5. \A i \in (Len(Q) + 1)..Len(queue') :
          queue'[i].for = q /\ MaySay(q, queue'[i].do)
    BY <1>1, <1>3, <1>4, Zenon DEF Adds
<1>6. \A i, j \in (Len(Q) + 1)..Len(queue') : i < j =>
          queue'[j].do # queue'[i].do /\ ~Precedes(queue'[j].do, queue'[i].do)
    BY <1>1, <1>4, Zenon DEF Adds
<1>7. /\ queue' \in Seq(Callback) /\ Len(Q) <= Len(queue')
      /\ \A i \in 1..Len(Q) : queue'[i] = queue[i + d]
    BY <1>4, Zenon DEF Adds
<1> QED BY <1>5, <1>6, <1>7, Zenon DEF Queues

LEMMA QueuesOne ==
    ASSUME TypeOK, NEW q \in Request, NEW A, NEW e \in Event \cup {"close"},
           IsAnnouncement(A, q, e), A # <<>> => MaySay(q, e),
           queue' = queue \o A
    PROVE  Queues(q, 0)
<1>1. queue \in Seq(Callback) /\ A \in Seq(Callback)
  <2>1. [do |-> e, for |-> q] \in Callback
      BY DEF Callback
  <2>2. <<[do |-> e, for |-> q]>> \in Seq(Callback) /\ <<>> \in Seq(Callback)
      BY <2>1
  <2> QED BY <2>2 DEF TypeOK, IsAnnouncement
<1>2. queue' = (queue \o A) \o <<>>
    BY <1>1
<1>3. PICK f \in {"abort", "request"} : f # e /\ ~Precedes(f, e)
    BY DEF Precedes
<1>4. IsAnnouncement(<<>>, q, f) /\ f \in Event \cup {"close"}
    BY NothingAnnounces DEF Event
<1>5. /\ 0 \in {0, 1} /\ Len(queue) = Len(queue) - 0
      /\ \A i \in 1..Len(queue) : queue[i] = queue[i + 0]
    BY <1>1
<1>6. <<>> # <<>> => MaySay(q, f)
    OBVIOUS
<1> QED BY <1>1, <1>2, <1>3, <1>4, <1>5, <1>6, QueuesTwo

LEMMA QueuesNone ==
    ASSUME TypeOK, NEW q \in Request, queue' = queue
    PROVE  Queues(q, 0)
<1>1. queue' = queue \o <<>> /\ "close" \in Event \cup {"close"}
    BY DEF TypeOK
<1>2. <<>> # <<>> => MaySay(q, "close")
    OBVIOUS
<1> QED BY <1>1, <1>2, NothingAnnounces, QueuesOne

(* The types of what is in a queue and of what was heard.                  *)
LEMMA SeqElement ==
    ASSUME NEW S, NEW s \in Seq(S), NEW i \in DOMAIN s
    PROVE  s[i] \in S
OBVIOUS

LEMMA CallbackTypes ==
    ASSUME NEW Q \in Seq(Callback), NEW i \in DOMAIN Q
    PROVE  Q[i].for \in Request /\ Q[i].do \in Event \cup {"close"}
<1>1. Q[i] \in Callback
    OBVIOUS
<1> QED BY <1>1 DEF Callback

LEMMA HeardTypes ==
    ASSUME TypeOK, NEW q \in Request, NEW i \in DOMAIN heard[q]
    PROVE  heard[q][i].event \in Event
<1>1. heard[q] \in Seq([event : Event, epoch : Epoch])
    BY DEF TypeOK
<1>2. heard[q][i] \in [event : Event, epoch : Epoch]
    BY <1>1, SeqElement, Zenon
<1> QED BY <1>2

(* Where a callback of the new queue comes from.                           *)
LEMMA OldOrNew ==
    ASSUME TypeOK, NEW q \in Request, NEW d \in {0, 1}, d <= Len(queue), Queues(q, d),
           NEW i \in DOMAIN queue'
    PROVE  /\ \/ i + d \in DOMAIN queue /\ queue'[i] = queue[i + d]
              \/ queue'[i].for = q /\ MaySay(q, queue'[i].do)
           /\ \A j \in DOMAIN queue' : i < j =>
                  \/ /\ i + d \in DOMAIN queue /\ queue'[i] = queue[i + d]
                     /\ j + d \in DOMAIN queue /\ queue'[j] = queue[j + d]
                     /\ i + d < j + d
                  \/ /\ i + d \in DOMAIN queue /\ queue'[i] = queue[i + d]
                     /\ queue'[j].for = q /\ MaySay(q, queue'[j].do)
                  \/ InOrder(queue'[i], queue'[j])
<1> DEFINE kept == Len(queue) - d
<1>1. queue \in Seq(Callback) /\ queue' \in Seq(Callback)
    BY DEF TypeOK, Queues
<1>2. /\ Len(queue) \in Nat /\ DOMAIN queue = 1..Len(queue)
      /\ Len(queue') \in Nat /\ DOMAIN queue' = 1..Len(queue')
    BY <1>1
<1>3. kept \in Nat
    BY <1>2
<1>4. \A j \in DOMAIN queue' : j <= kept \/ j \in (kept + 1)..Len(queue')
    BY <1>2, <1>3
<1>5. ASSUME NEW j \in DOMAIN queue', j <= kept
      PROVE  j + d \in DOMAIN queue /\ queue'[j] = queue[j + d]
  <2>1. j \in 1..kept /\ j + d \in 1..Len(queue)
      BY <1>2, <1>3, <1>5
  <2> QED BY <1>2, <2>1 DEF Queues
<1>6. ASSUME NEW j \in (kept + 1)..Len(queue')
      PROVE  queue'[j].for = q /\ MaySay(q, queue'[j].do)
    BY <1>6 DEF Queues
<1>7. ASSUME NEW j \in (kept + 1)..Len(queue'), i < j, i \in (kept + 1)..Len(queue')
      PROVE  InOrder(queue'[i], queue'[j])
    BY <1>7 DEF Queues, InOrder
<1>8. \A j \in DOMAIN queue' : i < j => i + d < j + d /\ (j <= kept => i <= kept)
    BY <1>2, <1>3
<1> HIDE DEF kept
<1> QED BY <1>4, <1>5, <1>6, <1>7, <1>8, Zenon

-----------------------------------------------------------------------------
(* A step that announces, and lets nobody hear anything.                   *)
LEMMA GoesOnKeeps ==
    ASSUME NEW q \in Request, GoesOn(q), NEW p \in Request, NEW e \in Event
    PROVE  (Unsaid(p, e)' => Unsaid(p, e)) /\ (Holds(p, e) => Holds(p, e)')
<1>1. CASE p = q
    BY <1>1 DEF GoesOn
<1>2. CASE p # q
    BY <1>2 DEF GoesOn, Unsaid, CanCome, Holds, IsTrue
<1> QED BY <1>1, <1>2

LEMMA WaitingKept ==
    ASSUME NEW q \in Request, GoesOn(q), UNCHANGED heard,
           NEW p \in Request, NEW e \in Event \cup {"close"}, WaitingOK(p, e)
    PROVE  WaitingOK(p, e)'
<1>1. stage'[p] \notin Unstarted
    BY DEF GoesOn, WaitingOK
<1>2. e \in Event => ~Unsaid(p, e)' /\ Holds(p, e)'
    BY GoesOnKeeps DEF WaitingOK
<1>3. \A f \in Event : Precedes(f, e) => ~Unsaid(p, f)'
    BY GoesOnKeeps DEF WaitingOK
<1>4. \A k \in DOMAIN heard'[p] :
          heard'[p][k].event # e /\ ~Precedes(e, heard'[p][k].event)
    BY DEF WaitingOK
<1> QED BY <1>1, <1>2, <1>3, <1>4 DEF WaitingOK

LEMMA WaitingNew ==
    ASSUME IInv, NEW q \in Request, UNCHANGED heard,
           NEW e \in Event \cup {"close"}, MaySay(q, e)
    PROVE  WaitingOK(q, e)'
<1>1. ASSUME NEW k \in DOMAIN heard[q]
      PROVE  heard[q][k].event # e /\ ~Precedes(e, heard[q][k].event)
  <2>1. heard[q][k].event \in Event /\ HeardWell(q, heard[q][k].event)
      BY HeardTypes DEF IInv, HeardOK
  <2>2. CASE e \in Event
      BY <2>1, <2>2 DEF HeardWell, MaySay
  <2>3. CASE e = "close"
      BY <2>1, <2>3 DEF Event, Precedes
  <2> QED BY <2>2, <2>3
<1> QED BY <1>1 DEF WaitingOK, MaySay, Unsaid, Holds

LEMMA AnnouncingStep ==
    ASSUME IInv, TypeOK', NEW q \in Request, NEW d \in {0, 1}, d <= Len(queue),
           Queues(q, d), GoesOn(q), UNCHANGED heard
    PROVE  IInv'
<1> USE DEF IInv
<1>1. \A p \in Request : stage'[p] \in Unstarted => stage[p] \in Unstarted
    BY DEF GoesOn
<1>2. UnstartedOK'
    BY <1>1 DEF UnstartedOK, GoesOn
<1>3. HeardOK'
  <2> SUFFICES ASSUME NEW p \in Request, NEW i \in DOMAIN heard[p], NEW e, e = heard[p][i].event
               PROVE  HeardWell(p, e)' /\ heard[p][i].epoch = emitter'[p]
      BY DEF HeardOK, HeardWell
  <2>1. e \in Event /\ HeardWell(p, e) /\ heard[p][i].epoch = emitter[p]
      BY HeardTypes DEF HeardOK
  <2>2. stage[p] \notin Unstarted
      BY DEF UnstartedOK
  <2>3. emitter'[p] = emitter[p]
      BY <2>2 DEF GoesOn
  <2>4. HeardWell(p, e)'
      BY <2>1, GoesOnKeeps DEF HeardWell
  <2> QED BY <2>1, <2>3, <2>4
<1>4. ASSUME NEW i \in DOMAIN queue'
      PROVE  WaitingOK(queue[i].for, queue[i].do)'
  <2> SUFFICES ASSUME NEW p, p = queue'[i].for, NEW e, e = queue'[i].do
               PROVE  WaitingOK(p, e)'
      BY DEF WaitingOK
  <2>1. p \in Request /\ e \in Event \cup {"close"}
      BY CallbackTypes DEF TypeOK
  <2>2. CASE i + d \in DOMAIN queue /\ queue'[i] = queue[i + d]
      BY <2>1, <2>2, WaitingKept DEF QueueOK
  <2>3. CASE p = q /\ MaySay(q, e)
      BY <2>1, <2>3, WaitingNew
  <2> QED BY <2>2, <2>3, OldOrNew
<1>5. ASSUME NEW i \in DOMAIN queue', NEW j \in DOMAIN queue', i < j
      PROVE  InOrder(queue'[i], queue'[j])
  <2>1. queue'[j].do \in Event \cup {"close"}
      BY CallbackTypes DEF TypeOK
  <2>2. CASE /\ i + d \in DOMAIN queue /\ queue'[i] = queue[i + d]
             /\ j + d \in DOMAIN queue /\ queue'[j] = queue[j + d]
             /\ i + d < j + d
      BY <2>2 DEF QueueOK
  <2>3. CASE /\ i + d \in DOMAIN queue /\ queue'[i] = queue[i + d]
             /\ queue'[j].for = q /\ MaySay(q, queue'[j].do)
    <3>1. WaitingOK(queue'[i].for, queue'[i].do)
        BY <2>3 DEF QueueOK
    <3>2. CASE queue'[j].do \in Event
        BY <3>1, <3>2, <2>3 DEF InOrder, WaitingOK, MaySay
    <3>3. CASE queue'[j].do = "close"
        BY <3>3 DEF InOrder, Event, Precedes
    <3> QED BY <2>1, <3>2, <3>3
  <2> QED BY <1>5, <2>2, <2>3, OldOrNew
<1>6. QueueOK'
    BY <1>4, <1>5 DEF QueueOK
<1> QED BY <1>2, <1>3, <1>6

-----------------------------------------------------------------------------
(* What a step writes of a response.                                       *)

Responses == [Request -> Response]

\* new has the responses of old, but for that of request q.
WritesOnly(old, new, q) ==
    /\ new \in Responses
    /\ \A p \in Request \ {q} : new[p] = old[p]

LEMMA ResponseRewritten ==
    ASSUME NEW old \in Responses, NEW q \in Request, NEW r \in Response
    PROVE  WritesOnly(old, [old EXCEPT ![q] = r], q) /\ [old EXCEPT ![q] = r][q] = r
BY DEF WritesOnly, Responses

LEMMA HeadWritten ==
    ASSUME NEW old \in Responses, NEW q \in Request
    PROVE  LET new == [old EXCEPT ![q].head = TRUE]
           IN  /\ WritesOnly(old, new, q)
               /\ new[q].head /\ new[q].ended = old[q].ended /\ new[q].over = old[q].over
<1> DEFINE r == [old[q] EXCEPT !.head = TRUE]
           new == [old EXCEPT ![q] = r]
<1>1. r \in Response /\ r.head /\ r.ended = old[q].ended /\ r.over = old[q].over
    BY DEF Responses, Response
<1>2. [old EXCEPT ![q].head = TRUE] = new
    OBVIOUS
<1> HIDE DEF r
<1>3. WritesOnly(old, new, q) /\ new[q] = r
    BY <1>1, ResponseRewritten
<1> HIDE DEF new
<1> QED BY <1>1, <1>2, <1>3

LEMMA OverWritten ==
    ASSUME NEW old \in Responses, NEW q \in Request
    PROVE  LET new == [old EXCEPT ![q].over = TRUE]
           IN  /\ WritesOnly(old, new, q)
               /\ new[q].head = old[q].head /\ new[q].ended = old[q].ended /\ new[q].over
<1> DEFINE r == [old[q] EXCEPT !.over = TRUE]
           new == [old EXCEPT ![q] = r]
<1>1. r \in Response /\ r.head = old[q].head /\ r.ended = old[q].ended /\ r.over
    BY DEF Responses, Response
<1>2. [old EXCEPT ![q].over = TRUE] = new
    OBVIOUS
<1> HIDE DEF r
<1>3. WritesOnly(old, new, q) /\ new[q] = r
    BY <1>1, ResponseRewritten
<1> HIDE DEF new
<1> QED BY <1>1, <1>2, <1>3

LEMMA WholeWritten ==
    ASSUME NEW old \in Responses, NEW q \in Request
    PROVE  LET new == [old EXCEPT ![q].head = TRUE, ![q].ended = TRUE]
           IN  /\ WritesOnly(old, new, q)
               /\ new[q].head /\ new[q].ended
<1> DEFINE r == [old[q] EXCEPT !.head = TRUE, !.ended = TRUE]
           new == [old EXCEPT ![q] = r]
<1>1. r \in Response /\ r.head /\ r.ended
    BY DEF Responses, Response
<1>2. [old EXCEPT ![q].head = TRUE, ![q].ended = TRUE] = new
    OBVIOUS
<1> HIDE DEF r
<1>3. WritesOnly(old, new, q) /\ new[q] = r
    BY <1>1, ResponseRewritten
<1> HIDE DEF new
<1> QED BY <1>1, <1>2, <1>3

LEMMA Destroyed ==
    ASSUME NEW old \in Responses, NEW q \in Request
    PROVE  LET new == [old EXCEPT ![q].destroyed = TRUE]
           IN  /\ WritesOnly(old, new, q)
               /\ new[q].head = old[q].head /\ new[q].ended = old[q].ended
               /\ new[q].over = old[q].over
<1> DEFINE r == [old[q] EXCEPT !.destroyed = TRUE]
           new == [old EXCEPT ![q] = r]
<1>1. r \in Response /\ r.head = old[q].head /\ r.ended = old[q].ended /\ r.over = old[q].over
    BY DEF Responses, Response
<1>2. [old EXCEPT ![q].destroyed = TRUE] = new
    OBVIOUS
<1> HIDE DEF r
<1>3. WritesOnly(old, new, q) /\ new[q] = r
    BY <1>1, ResponseRewritten
<1> HIDE DEF new
<1> QED BY <1>1, <1>2, <1>3

LEMMA DestroyedAndClosed ==
    ASSUME NEW old \in Responses, NEW q \in Request
    PROVE  LET new == [old EXCEPT ![q].destroyed = TRUE, ![q].closed = TRUE]
           IN  /\ WritesOnly(old, new, q)
               /\ new[q].head = old[q].head /\ new[q].ended = old[q].ended
               /\ new[q].over = old[q].over
<1> DEFINE r == [old[q] EXCEPT !.destroyed = TRUE, !.closed = TRUE]
           new == [old EXCEPT ![q] = r]
<1>1. r \in Response /\ r.head = old[q].head /\ r.ended = old[q].ended /\ r.over = old[q].over
    BY DEF Responses, Response
<1>2. [old EXCEPT ![q].destroyed = TRUE, ![q].closed = TRUE] = new
    OBVIOUS
<1> HIDE DEF r
<1>3. WritesOnly(old, new, q) /\ new[q] = r
    BY <1>1, ResponseRewritten
<1> HIDE DEF new
<1> QED BY <1>1, <1>2, <1>3

LEMMA DeliveredAndClosed ==
    ASSUME NEW old \in Responses, NEW q \in Request
    PROVE  LET new == [old EXCEPT ![q].closed = TRUE, ![q].delivered = TRUE]
           IN  /\ WritesOnly(old, new, q)
               /\ new[q].head = old[q].head /\ new[q].ended = old[q].ended
               /\ new[q].over = old[q].over
<1> DEFINE r == [old[q] EXCEPT !.closed = TRUE, !.delivered = TRUE]
           new == [old EXCEPT ![q] = r]
<1>1. r \in Response /\ r.head = old[q].head /\ r.ended = old[q].ended /\ r.over = old[q].over
    BY DEF Responses, Response
<1>2. [old EXCEPT ![q].closed = TRUE, ![q].delivered = TRUE] = new
    OBVIOUS
<1> HIDE DEF r
<1>3. WritesOnly(old, new, q) /\ new[q] = r
    BY <1>1, ResponseRewritten
<1> HIDE DEF new
<1> QED BY <1>1, <1>2, <1>3

(* The types hold after a step that keeps each of them.                    *)
LEMMA NextTypes ==
    ASSUME TypeOK, UNCHANGED <<epoch, listening, emitter, buffering, heard>>,
           stage' \in [Request -> {"new", "rejected", "matching", "handling", "settled"}],
           result' \in [Request -> {"none", "responded", "aborted"}],
           body' \in [Request -> Resolved \cup {"arriving", "cut"}],
           owed' \in [Request -> BOOLEAN],
           response' \in Responses, queue' \in Seq(Callback)
    PROVE  TypeOK'
BY DEF TypeOK, Responses

LEMMA TypesNow ==
    ASSUME TypeOK
    PROVE  /\ stage \in [Request -> {"new", "rejected", "matching", "handling", "settled"}]
           /\ result \in [Request -> {"none", "responded", "aborted"}]
           /\ body \in [Request -> Resolved \cup {"arriving", "cut"}]
           /\ owed \in [Request -> BOOLEAN]
           /\ response \in Responses /\ queue \in Seq(Callback)
BY DEF TypeOK, Responses

LEMMA ResponseHeads ==
    ASSUME TypeOK, NEW q \in Request, response' = [response EXCEPT ![q].head = TRUE]
    PROVE  /\ response' \in [Request -> Response]
           /\ \A p \in Request \ {q} : response'[p] = response[p]
           /\ response'[q].head /\ response'[q].ended = response[q].ended
           /\ response'[q].over = response[q].over
<1>1. /\ WritesOnly(response, response', q) /\ response'[q].head
      /\ response'[q].ended = response[q].ended /\ response'[q].over = response[q].over
    BY HeadWritten, TypesNow
<1> QED BY <1>1, Zenon DEF WritesOnly, Responses

LEMMA ResponseOutgrows ==
    ASSUME TypeOK, NEW q \in Request, response' = [response EXCEPT ![q].over = TRUE]
    PROVE  /\ WritesOnly(response, response', q)
           /\ response'[q].head = response[q].head /\ response'[q].ended = response[q].ended
           /\ response'[q].over
BY OverWritten, TypesNow

LEMMA ResponseDestroyed ==
    ASSUME TypeOK, NEW q \in Request, response' = [response EXCEPT ![q].destroyed = TRUE]
    PROVE  /\ response' \in [Request -> Response]
           /\ \A p \in Request \ {q} : response'[p] = response[p]
           /\ response'[q].head = response[q].head /\ response'[q].ended = response[q].ended
           /\ response'[q].over = response[q].over
<1>1. /\ WritesOnly(response, response', q)
      /\ response'[q].head = response[q].head /\ response'[q].ended = response[q].ended
      /\ response'[q].over = response[q].over
    BY Destroyed, TypesNow
<1> QED BY <1>1, Zenon DEF WritesOnly, Responses

LEMMA ResponseEnds ==
    ASSUME TypeOK, NEW q \in Request,
           response' = [response EXCEPT ![q].head = TRUE, ![q].ended = TRUE]
    PROVE  WritesOnly(response, response', q) /\ response'[q].head /\ response'[q].ended
BY WholeWritten, TypesNow

LEMMA ResponseDelivers ==
    ASSUME TypeOK, NEW q \in Request,
           response' = [response EXCEPT ![q].closed = TRUE, ![q].delivered = TRUE]
    PROVE  /\ WritesOnly(response, response', q)
           /\ response'[q].head = response[q].head /\ response'[q].ended = response[q].ended
           /\ response'[q].over = response[q].over
BY DeliveredAndClosed, TypesNow

LEMMA ResponseCloses ==
    ASSUME TypeOK, NEW q \in Request, response' = Close(q)
    PROVE  /\ response' \in [Request -> Response]
           /\ \A p \in Request \ {q} : response'[p] = response[p]
           /\ response'[q].head = response[q].head /\ response'[q].ended = response[q].ended
           /\ response'[q].over = response[q].over
<1>1. /\ WritesOnly(response, Close(q), q)
      /\ Close(q)[q].head = response[q].head /\ Close(q)[q].ended = response[q].ended
      /\ Close(q)[q].over = response[q].over
    BY DestroyedAndClosed, TypesNow DEF Close
<1>2. /\ WritesOnly(response, response', q)
      /\ response'[q].head = response[q].head /\ response'[q].ended = response[q].ended
      /\ response'[q].over = response[q].over
    BY <1>1
<1> QED BY <1>2, Zenon DEF WritesOnly, Responses

-----------------------------------------------------------------------------
(* The steps.                                                              *)

LEMMA AppendingStep ==
    ASSUME IInv, TypeOK', NEW q \in Request, Queues(q, 0), GoesOn(q), UNCHANGED heard
    PROVE  IInv'
<1>1. 0 \in {0, 1} /\ 0 <= Len(queue)
    BY DEF IInv, TypeOK
<1> QED BY <1>1, AnnouncingStep

LEMMA InitIInv == Init => IInv
<1> SUFFICES ASSUME Init
             PROVE  IInv
    OBVIOUS
<1>1. TypeOK
    BY MaxEpochAssumption DEF Init, TypeOK, Epoch, NewResponse, Response
<1>2. UnstartedOK /\ QueueOK /\ HeardOK
    BY DEF Init, UnstartedOK, QueueOK, HeardOK, NewResponse
<1> QED BY <1>1, <1>2 DEF IInv

\* Listeners come and go, which takes nothing back.
LEMMA ListenersStep ==
    ASSUME IInv, epoch' \in Epoch, listening' \in SUBSET Event,
           UNCHANGED <<emitter, stage, result, buffering, body, owed, response,
                       queue, heard>>
    PROVE  IInv'
<1> USE DEF IInv
<1>1. TypeOK'
    BY DEF TypeOK
<1>2. UnstartedOK'
    BY DEF UnstartedOK
<1>3. \A q \in Request, e \in Event :
          Unsaid(q, e)' = Unsaid(q, e) /\ Holds(q, e)' = Holds(q, e)
    BY DEF Unsaid, CanCome, Holds, IsTrue
<1>4. HeardOK'
  <2>1. \A q \in Request : \A i \in DOMAIN heard[q] : HeardWell(q, heard[q][i].event)'
      BY DEF HeardOK, HeardWell, Unsaid, CanCome, Holds, IsTrue
  <2> QED BY <2>1 DEF HeardOK
<1>5. QueueOK'
  <2>1. \A i \in DOMAIN queue : WaitingOK(queue[i].for, queue[i].do)'
      BY DEF QueueOK, WaitingOK, Unsaid, CanCome, Holds, IsTrue
  <2> QED BY <2>1 DEF QueueOK
<1> QED BY <1>1, <1>2, <1>4, <1>5

LEMMA RejectRequestStep ==
    ASSUME IInv, NEW q \in Request, RejectRequest(q)
    PROVE  IInv'
<1> USE DEF IInv, RejectRequest
<1>1. TypeOK'
    BY DEF TypeOK
<1>2. Queues(q, 0)
    BY QueuesNone
<1>3. GoesOn(q)
    BY DEF TypeOK, UnstartedOK, GoesOn, Unsaid, CanCome, Holds, IsTrue, Unstarted, Unanswered
<1> QED BY <1>1, <1>2, <1>3, AppendingStep

LEMMA StartRequestStep ==
    ASSUME IInv, NEW q \in Request, StartRequest(q)
    PROVE  IInv'
<1> USE DEF IInv, StartRequest
<1> DEFINE A == IF "request-initiated" \in listening
                  THEN Callbacks(q, "request-initiated") ELSE <<>>
<1>1. IsAnnouncement(A, q, "request-initiated") /\ "request-initiated" \in Event
    BY CallbacksAnnounce, NothingAnnounces DEF Event
<1>2. MaySay(q, "request-initiated")
    BY DEF MaySay, TypeOK, Unsaid, CanCome, Holds, IsTrue, Precedes, Unstarted
<1>3. Queues(q, 0)
    BY <1>1, <1>2, QueuesOne
<1>4. TypeOK'
  <2>1. queue' \in Seq(Callback)
      BY <1>3 DEF Queues
  <2>2. PICK b \in BOOLEAN : b = ("response" \in listening)
    <3>1. CASE "response" \in listening
        BY <3>1, Zenon
    <3>2. CASE "response" \notin listening
      <4>1. FALSE = ("response" \in listening)
          BY <3>2
      <4> QED BY <4>1, Zenon
    <3> QED BY <3>1, <3>2
  <2>3. buffering' = [buffering EXCEPT ![q] = b]
      BY <2>2, Zenon
  <2>4. buffering' \in [Request -> BOOLEAN]
      BY <2>3, Zenon DEF TypeOK
  <2> QED BY <2>1, <2>4 DEF TypeOK
<1>5. GoesOn(q)
    BY DEF TypeOK, UnstartedOK, GoesOn, Unsaid, CanCome, Holds, IsTrue, Unstarted, Unanswered
<1> QED BY <1>3, <1>4, <1>5, AppendingStep

LEMMA MatchingEndsStep ==
    ASSUME IInv, NEW q \in Request, MatchingEnds(q)
    PROVE  IInv'
<1> USE DEF IInv, MatchingEnds
<1> DEFINE A == IF body[q] \in Resolved THEN Announcement(q, "request") ELSE <<>>
<1>1. IsAnnouncement(A, q, "request") /\ "request" \in Event
    BY AnnouncementAnnounces, NothingAnnounces DEF Event
<1>2. ASSUME A # <<>>
      PROVE  MaySay(q, "request")
    BY <1>2 DEF MaySay, TypeOK, Unsaid, CanCome, Holds, IsTrue, Resolved, Precedes, Unstarted
<1>3. Queues(q, 0)
    BY <1>1, <1>2, QueuesOne
<1>4. TypeOK'
    BY <1>3 DEF Queues, TypeOK, HasListener
<1>5. GoesOn(q)
    BY DEF TypeOK, UnstartedOK, GoesOn, Unsaid, CanCome, Holds, IsTrue, Unstarted, Unanswered
<1> QED BY <1>3, <1>4, <1>5, AppendingStep

LEMMA BodyEndsStep ==
    ASSUME IInv, NEW q \in Request, BodyEnds(q)
    PROVE  IInv'
<1> USE DEF IInv, BodyEnds
<1> DEFINE A == IF owed[q] THEN Callbacks(q, "request") ELSE <<>>
<1>0. PICK b \in Resolved : body' = [body EXCEPT ![q] = b]
    OBVIOUS
<1>1. IsAnnouncement(A, q, "request") /\ "request" \in Event
    BY CallbacksAnnounce, NothingAnnounces DEF Event
<1>2. ASSUME A # <<>>
      PROVE  MaySay(q, "request")
    BY <1>0, <1>2 DEF MaySay, TypeOK, UnstartedOK, Unsaid, CanCome, Holds, IsTrue, Precedes, Unstarted
<1>3. Queues(q, 0)
    BY <1>1, <1>2, QueuesOne
<1>4. TypeOK'
    BY <1>0, <1>3 DEF Queues, TypeOK
<1>5. GoesOn(q)
    BY <1>0
    DEF TypeOK, UnstartedOK, GoesOn, Unsaid, CanCome, Holds, IsTrue, Unstarted, Unanswered, Live
<1> QED BY <1>3, <1>4, <1>5, AppendingStep

LEMMA WriteHeadStep ==
    ASSUME IInv, NEW q \in Request, WriteHead(q)
    PROVE  IInv'
<1> USE DEF IInv, WriteHead
<1>1. IsAnnouncement(HeadAnnouncement(q), q, "response-initiated") /\ "response-initiated" \in Event
    BY HeadAnnounces DEF Event
<1>2. MaySay(q, "response-initiated")
    BY DEF MaySay, TypeOK, Response, Unsaid, CanCome, Holds, IsTrue, Precedes, Unstarted, Unanswered
<1>3. Queues(q, 0)
    BY <1>1, <1>2, QueuesOne
<1>4. TypeOK'
  <2>1. response' \in [Request -> Response]
      BY DEF TypeOK, Response
  <2>2. queue' \in Seq(Callback)
      BY <1>3 DEF Queues
  <2> QED BY <2>1, <2>2 DEF TypeOK
<1>5. GoesOn(q)
    BY
    DEF TypeOK, Response, UnstartedOK, GoesOn, Unsaid, CanCome, Holds, IsTrue, Unstarted, Unanswered
<1> QED BY <1>3, <1>4, <1>5, AppendingStep

LEMMA EndResponseStep ==
    ASSUME IInv, NEW q \in Request, EndResponse(q)
    PROVE  IInv'
<1> USE DEF IInv, EndResponse
<1> DEFINE A == HeadAnnouncement(q)
           B == ResponseAnnouncement(q)
           e == "response-initiated"
           f == "response"
<1>1. IsAnnouncement(A, q, e) /\ IsAnnouncement(B, q, f)
    BY HeadAnnounces, ResponseAnnounces
<1>2. /\ e \in Event \cup {"close"} /\ f \in Event \cup {"close"} /\ e # f /\ ~Precedes(f, e)
      /\ e \in Event /\ f \in Event
    BY DEF Event, Precedes
<1>3. ASSUME A # <<>>
      PROVE  MaySay(q, e)
  <2>1. ~response[q].head
      BY <1>3, HeadAnnounces
  <2> QED BY <2>1
      DEF MaySay, TypeOK, Response, Unsaid, CanCome, Holds, IsTrue, Precedes, Unstarted, Unanswered
<1>4. ASSUME B # <<>>
      PROVE  MaySay(q, f)
  <2>1. Responded(q) = "responded"
      BY <1>4, ResponseAnnounces
  <2> QED BY <2>1
      DEF MaySay, TypeOK, Response, Unsaid, CanCome, Holds, IsTrue, Precedes, Unstarted, Unanswered
<1>5. /\ queue \in Seq(Callback) /\ 0 \in {0, 1} /\ Len(queue) = Len(queue) - 0
      /\ \A i \in 1..Len(queue) : queue[i] = queue[i + 0]
    BY DEF TypeOK
<1>6. queue' = (queue \o A) \o B
    OBVIOUS
<1>7. Queues(q, 0)
  <2> HIDE DEF A, B, e, f
  <2> QED BY <1>1, <1>2, <1>3, <1>4, <1>5, <1>6, QueuesTwo, Zenon
<1>8. WritesOnly(response, response', q) /\ response'[q].head /\ response'[q].ended
    BY ResponseEnds
<1>9. queue' \in Seq(Callback)
    BY <1>7 DEF Queues
<1>10. /\ stage' \in [Request -> {"new", "rejected", "matching", "handling", "settled"}]
       /\ \A p \in Request \ {q} : stage'[p] = stage[p]
       /\ stage[q] = "handling" /\ stage'[q] = "settled"
    BY TypesNow
<1>11. Responded(q) \in {"none", "responded", "aborted"}
    BY TypesNow DEF Responded
<1>12. /\ result' \in [Request -> {"none", "responded", "aborted"}]
       /\ \A p \in Request \ {q} : result'[p] = result[p]
       /\ result'[q] = Responded(q)
    BY <1>11, TypesNow
<1>13. UNCHANGED <<epoch, listening, emitter, buffering, body, owed, heard>>
    OBVIOUS
<1> HIDE DEF EndResponse
<1>14. TypeOK'
    BY <1>8, <1>9, <1>10, <1>12, <1>13, TypesNow, NextTypes DEF WritesOnly
<1>15. GoesOn(q)
    BY <1>8, <1>10, <1>12, <1>13
    DEF WritesOnly, GoesOn, Unsaid, CanCome, Holds, IsTrue, Unstarted, Unanswered, Responded
<1> QED BY <1>7, <1>13, <1>14, <1>15, AppendingStep

LEMMA ResponseOverflowsStep ==
    ASSUME IInv, NEW q \in Request, ResponseOverflows(q)
    PROVE  IInv'
<1> USE DEF IInv, ResponseOverflows
<1>1. Queues(q, 0)
    BY QueuesNone
<1>2. /\ WritesOnly(response, response', q)
      /\ response'[q].head = response[q].head /\ response'[q].ended = response[q].ended
      /\ response'[q].over
    BY ResponseOutgrows
<1>3. TypeOK'
    BY <1>2, TypesNow, NextTypes DEF WritesOnly
<1>4. /\ UNCHANGED <<emitter, stage, result, body, owed>>
      /\ owed[q] => stage[q] \in {"handling", "settled"}
      /\ stage[q] \notin Unstarted
    BY DEF UnstartedOK, Unstarted
<1>5. GoesOn(q)
  <2> HIDE DEF IInv, ResponseOverflows
  <2> QED BY <1>2, <1>4 DEF WritesOnly, GoesOn, Unsaid, CanCome, Holds, IsTrue
<1> QED BY <1>1, <1>3, <1>5, AppendingStep

LEMMA ReturnUnendedStep ==
    ASSUME IInv, NEW q \in Request, ReturnUnended(q)
    PROVE  IInv'
<1> USE DEF IInv, ReturnUnended
<1> DEFINE A == IF response[q].over THEN ResponseAnnouncement(q) ELSE <<>>
<1>1. IsAnnouncement(A, q, "response") /\ "response" \in Event
    BY ResponseAnnounces, NothingAnnounces DEF Event
<1>2. ASSUME A # <<>>
      PROVE  MaySay(q, "response")
  <2>1. response[q].over /\ Responded(q) = "responded"
      BY <1>2, ResponseAnnounces
  <2> QED BY <2>1
      DEF MaySay, TypeOK, Unsaid, CanCome, Holds, IsTrue, Precedes, Unstarted, Unanswered
<1>3. Queues(q, 0)
    BY <1>1, <1>2, QueuesOne
<1>4. TypeOK'
    BY <1>3 DEF Queues, TypeOK, Responded
<1>5. GoesOn(q)
    BY
    DEF TypeOK, UnstartedOK, GoesOn, Unsaid, CanCome, Holds, IsTrue, Unstarted, Unanswered, Responded
<1> QED BY <1>3, <1>4, <1>5, AppendingStep

(* An abort is announced for a request that has started.                   *)
LEMMA AbortMaySay ==
    ASSUME IInv, NEW q \in Request, result' = AbortResult(q),
           stage'[q] \notin Unstarted
    PROVE  /\ result' \in [Request -> {"none", "responded", "aborted"}]
           /\ AbortCallbacks(q) # <<>> => MaySay(q, "abort")
           /\ \A p \in Request \ {q} : result'[p] = result[p]
           /\ result'[q] # "none"
           /\ result[q] # "none" => result'[q] = result[q]
<1> USE DEF IInv, TypeOK, AbortResult
<1>1. ASSUME AbortCallbacks(q) # <<>>
      PROVE  MaySay(q, "abort")
  <2>1. result[q] = "none"
      BY <1>1, AbortAnnounces
  <2> QED BY <2>1 DEF MaySay, Unsaid, CanCome, Holds, IsTrue, Precedes, Unstarted
<1> QED BY <1>1

LEMMA CloseMaySay ==
    ASSUME NEW q, stage'[q] \notin Unstarted
    PROVE  MaySay(q, "close")
BY DEF MaySay, Event, Precedes

LEMMA HandlerAbortsStep ==
    ASSUME IInv, NEW q \in Request, HandlerAborts(q)
    PROVE  IInv'
<1> USE DEF IInv, HandlerAborts
<1>1. stage'[q] \notin Unstarted
    BY DEF TypeOK, Unstarted
<1>2. IsAnnouncement(AbortCallbacks(q), q, "abort") /\ "abort" \in Event
    BY AbortAnnounces DEF Event
<1>3. Queues(q, 0)
    BY <1>1, <1>2, AbortMaySay, QueuesOne
<1>4. /\ response' \in [Request -> Response]
      /\ \A p \in Request \ {q} : response'[p] = response[p]
      /\ response'[q].head = response[q].head /\ response'[q].ended = response[q].ended
      /\ response'[q].over = response[q].over
    BY ResponseDestroyed
<1>5. /\ stage' \in [Request -> {"new", "rejected", "matching", "handling", "settled"}]
      /\ \A p \in Request \ {q} : stage'[p] = stage[p]
      /\ stage[q] = "handling" /\ stage'[q] = "settled"
    BY DEF TypeOK
<1>6. TypeOK'
    BY <1>1, <1>3, <1>4, <1>5, AbortMaySay DEF Queues, TypeOK
<1>7. GoesOn(q)
    BY <1>1, <1>4, <1>5, AbortMaySay DEF GoesOn, Unsaid, CanCome, Holds, IsTrue, Unanswered
<1> QED BY <1>3, <1>6, <1>7, AppendingStep

LEMMA ResponseErrorsStep ==
    ASSUME IInv, NEW q \in Request, ResponseErrors(q)
    PROVE  IInv'
<1> USE DEF IInv, ResponseErrors
<1>1. stage'[q] \notin Unstarted
    BY DEF TypeOK, Unstarted
<1>2. IsAnnouncement(AbortCallbacks(q), q, "abort") /\ "abort" \in Event
    BY AbortAnnounces DEF Event
<1>3. Queues(q, 0)
    BY <1>1, <1>2, AbortMaySay, QueuesOne
<1>4. TypeOK'
    BY <1>1, <1>3, AbortMaySay DEF Queues, TypeOK
<1>5. /\ \A p \in Request \ {q} : result'[p] = result[p]
      /\ result'[q] # "none" /\ (result[q] # "none" => result'[q] = result[q])
    BY <1>1, AbortMaySay
<1>6. /\ stage[q] = "handling"
      /\ UNCHANGED <<emitter, stage, body, owed, response, heard>>
    OBVIOUS
<1> HIDE DEF ResponseErrors, IInv
<1>7. GoesOn(q)
    BY <1>1, <1>5, <1>6 DEF GoesOn, Unsaid, CanCome, Holds, IsTrue
<1> QED BY <1>3, <1>4, <1>6, <1>7, AppendingStep

LEMMA ThrowUnsendableStep ==
    ASSUME IInv, NEW q \in Request, ThrowUnsendable(q)
    PROVE  IInv'
<1> USE DEF IInv, ThrowUnsendable
<1> DEFINE A == HeadAnnouncement(q)
           B == AbortCallbacks(q)
           e == "response-initiated"
           f == "abort"
<1>1. stage'[q] \notin Unstarted
    BY DEF TypeOK, Unstarted
<1>2. IsAnnouncement(A, q, e) /\ IsAnnouncement(B, q, f)
    BY HeadAnnounces, AbortAnnounces
<1>3. e \in Event \cup {"close"} /\ f \in Event \cup {"close"} /\ e # f /\ ~Precedes(f, e)
    BY DEF Event, Precedes
<1>4. ASSUME A # <<>>
      PROVE  MaySay(q, e)
  <2>1. ~response[q].head
      BY <1>4, HeadAnnounces
  <2> QED BY <2>1
      DEF MaySay, TypeOK, Response, Unsaid, CanCome, Holds, IsTrue, Precedes, Unstarted, Unanswered
<1>5. B # <<>> => MaySay(q, f)
    BY <1>1, AbortMaySay
<1>6. /\ queue \in Seq(Callback) /\ 0 \in {0, 1} /\ Len(queue) = Len(queue) - 0
      /\ \A i \in 1..Len(queue) : queue[i] = queue[i + 0]
    BY DEF TypeOK
<1>7. queue' = (queue \o A) \o B
    OBVIOUS
<1>8. Queues(q, 0)
  <2> HIDE DEF A, B, e, f
  <2> QED BY <1>2, <1>3, <1>4, <1>5, <1>6, <1>7, QueuesTwo, Zenon
<1>9. /\ response' \in [Request -> Response]
      /\ \A p \in Request \ {q} : response'[p] = response[p]
      /\ response'[q].head /\ response'[q].ended = response[q].ended
      /\ response'[q].over = response[q].over
    BY ResponseHeads
<1>10. /\ stage' \in [Request -> {"new", "rejected", "matching", "handling", "settled"}]
       /\ \A p \in Request \ {q} : stage'[p] = stage[p]
       /\ stage[q] = "handling" /\ stage'[q] = "settled"
    BY DEF TypeOK
<1>11. TypeOK'
    BY <1>1, <1>8, <1>9, <1>10, AbortMaySay DEF Queues, TypeOK
<1>12. GoesOn(q)
    BY <1>1, <1>9, <1>10, AbortMaySay DEF GoesOn, Unsaid, CanCome, Holds, IsTrue, Unanswered
<1> QED BY <1>8, <1>11, <1>12, AppendingStep

LEMMA DisconnectStep ==
    ASSUME IInv, NEW q \in Request, Disconnect(q)
    PROVE  IInv'
<1> USE DEF IInv, Disconnect
<1>1. stage'[q] \notin Unstarted /\ stage[q] \notin Unstarted
    BY DEF TypeOK, Unstarted, Live
<1>2. "close" \in Event \cup {"close"} /\ IsAnnouncement(Callbacks(q, "close"), q, "close")
    BY CallbacksAnnounce
<1>3. MaySay(q, "close")
    BY <1>1, CloseMaySay
<1>0. /\ response' \in [Request -> Response]
      /\ \A p \in Request \ {q} : response'[p] = response[p]
      /\ response'[q].head = response[q].head /\ response'[q].ended = response[q].ended
      /\ response'[q].over = response[q].over
    BY ResponseCloses
<1>4. /\ response' \in [Request -> Response] /\ body' \in [Request -> Resolved \cup {"arriving", "cut"}]
      /\ owed' \in [Request -> BOOLEAN]
    BY <1>0, TypesNow DEF Cut
<1>5. /\ \A p \in Request \ {q} :
             body'[p] = body[p] /\ owed'[p] = owed[p] /\ response'[p] = response[p]
      /\ response'[q].head = response[q].head /\ response'[q].ended = response[q].ended
      /\ response'[q].over = response[q].over
      /\ body[q] \in Resolved => body'[q] \in Resolved
      /\ ~owed'[q]
    BY <1>0, TypesNow DEF Cut, Resolved
<1>6. CASE result' = AbortResult(q) /\ queue' = queue \o AbortCallbacks(q) \o Callbacks(q, "close")
  <2> DEFINE A == AbortCallbacks(q)
             B == Callbacks(q, "close")
             e == "abort"
             f == "close"
  <2>1. /\ IsAnnouncement(A, q, e) /\ IsAnnouncement(B, q, f)
        /\ e \in Event \cup {"close"} /\ f \in Event \cup {"close"} /\ e # f /\ ~Precedes(f, e)
      BY <1>2, AbortAnnounces DEF Event, Precedes
  <2>2. (A # <<>> => MaySay(q, e)) /\ (B # <<>> => MaySay(q, f))
      BY <1>1, <1>3, <1>6, AbortMaySay
  <2>3. /\ queue \in Seq(Callback) /\ 0 \in {0, 1} /\ Len(queue) = Len(queue) - 0
        /\ \A i \in 1..Len(queue) : queue[i] = queue[i + 0]
      BY DEF TypeOK
  <2>4. queue' = (queue \o A) \o B
      BY <1>6
  <2>5. Queues(q, 0)
    <3> HIDE DEF A, B, e, f
    <3> QED BY <2>1, <2>2, <2>3, <2>4, QueuesTwo, Zenon
  <2>6. TypeOK'
      BY <1>1, <1>4, <1>6, <2>5, AbortMaySay DEF Queues, TypeOK
  <2>7. GoesOn(q)
      BY <1>1, <1>5, <1>6, AbortMaySay DEF GoesOn, Unsaid, CanCome, Holds, IsTrue
  <2> QED BY <2>5, <2>6, <2>7, AppendingStep
<1>7. CASE queue' = queue \o Callbacks(q, "close") /\ UNCHANGED result
  <2>1. Queues(q, 0)
      BY <1>2, <1>3, <1>7, QueuesOne
  <2>2. TypeOK'
      BY <1>4, <1>7, <2>1 DEF Queues, TypeOK
  <2>3. GoesOn(q)
      BY <1>1, <1>5, <1>7 DEF GoesOn, Unsaid, CanCome, Holds, IsTrue
  <2> QED BY <2>1, <2>2, <2>3, AppendingStep
<1> QED BY <1>6, <1>7

LEMMA DeliverStep ==
    ASSUME IInv, NEW q \in Request, Deliver(q)
    PROVE  IInv'
<1> USE DEF IInv, Deliver
<1>1. stage'[q] \notin Unstarted
    BY DEF UnstartedOK
<1>2. "close" \in Event \cup {"close"} /\ IsAnnouncement(Callbacks(q, "close"), q, "close")
    BY CallbacksAnnounce
<1>3. Queues(q, 0)
    BY <1>1, <1>2, CloseMaySay, QueuesOne
<1>0. /\ WritesOnly(response, response', q)
      /\ response'[q].head = response[q].head /\ response'[q].ended = response[q].ended
      /\ response'[q].over = response[q].over
    BY ResponseDelivers
<1>4. TypeOK'
    BY <1>3, <1>0, TypesNow, NextTypes DEF Queues, WritesOnly
<1>5. /\ UNCHANGED <<emitter, stage, result, body, owed>>
      /\ owed[q] => stage[q] \in {"handling", "settled"}
    BY DEF UnstartedOK
<1>6. GoesOn(q)
  <2> HIDE DEF IInv, Deliver
  <2> QED BY <1>1, <1>0, <1>5 DEF WritesOnly, GoesOn, Unsaid, CanCome, Holds, IsTrue
<1> QED BY <1>3, <1>4, <1>6, AppendingStep

(* The first callback and the rest.                                        *)
LEMMA TailOf ==
    ASSUME NEW S, NEW s \in Seq(S), s # <<>>
    PROVE  /\ Tail(s) \in Seq(S)
           /\ Len(Tail(s)) = Len(s) - 1
           /\ \A i \in DOMAIN Tail(s) : Tail(s)[i] = s[i + 1] /\ 1 < i + 1 /\ i + 1 \in DOMAIN s
           /\ DOMAIN Tail(s) = 1..Len(Tail(s))
           /\ 1 \in DOMAIN s /\ Head(s) = s[1] /\ 1 <= Len(s)
OBVIOUS

LEMMA AppendOf ==
    ASSUME NEW S, NEW s \in Seq(S), NEW x \in S
    PROVE  /\ Append(s, x) \in Seq(S)
           /\ \A i \in DOMAIN Append(s, x) :
                  (i \in DOMAIN s /\ Append(s, x)[i] = s[i])
                  \/ (i = Len(s) + 1 /\ Append(s, x)[i] = x)
           /\ \A i, j \in DOMAIN Append(s, x) : i < j => i \in DOMAIN s /\ Append(s, x)[i] = s[i]
OBVIOUS

\* A `close` is run: the request is aborted if it has no outcome yet.
LEMMA RunCloseStep ==
    ASSUME IInv, queue # <<>>, NEW q \in Request, Head(queue) = [do |-> "close", for |-> q],
           result' = AbortResult(q), queue' = Tail(queue) \o AbortCallbacks(q),
           UNCHANGED <<epoch, listening, emitter, stage, buffering, body, owed, response, heard>>
    PROVE  IInv'
<1> USE DEF IInv
<1>1. queue \in Seq(Callback)
    BY DEF TypeOK
<1>2. queue[1] = [do |-> "close", for |-> q] /\ 1 \in DOMAIN queue /\ 1 <= Len(queue)
    BY <1>1, TailOf, Zenon
<1>3. stage'[q] \notin Unstarted
    BY <1>2 DEF QueueOK, WaitingOK
<1>4. Queues(q, 1)
  <2> DEFINE Q == Tail(queue)
             A == AbortCallbacks(q)
             B == <<>>
             e == "abort"
             f == "close"
  <2>1. /\ IsAnnouncement(A, q, e) /\ IsAnnouncement(B, q, f)
        /\ e \in Event \cup {"close"} /\ f \in Event \cup {"close"} /\ e # f /\ ~Precedes(f, e)
      BY AbortAnnounces, NothingAnnounces DEF Event, Precedes
  <2>2. A # <<>> => MaySay(q, e)
      BY <1>3, AbortMaySay
  <2>3. B # <<>> => MaySay(q, f)
      OBVIOUS
  <2>4. /\ Q \in Seq(Callback) /\ 1 \in {0, 1} /\ Len(Q) = Len(queue) - 1
        /\ \A i \in 1..Len(Q) : Q[i] = queue[i + 1]
      BY <1>1, TailOf
  <2>5. A \in Seq(Callback)
    <3>1. [do |-> e, for |-> q] \in Callback
        BY DEF Callback, Event
    <3>2. <<[do |-> e, for |-> q]>> \in Seq(Callback) /\ <<>> \in Seq(Callback)
        BY <3>1
    <3> QED BY <2>1, <3>2 DEF IsAnnouncement
  <2>6. queue' = (Q \o A) \o B
    <3>1. Q \o A \in Seq(Callback)
        BY <2>4, <2>5
    <3> QED BY <3>1
  <2> HIDE DEF Q, A, B, e, f
  <2> QED BY <2>1, <2>2, <2>3, <2>4, <2>6, QueuesTwo, Zenon
<1>5. TypeOK'
    BY <1>3, <1>4, AbortMaySay DEF Queues, TypeOK
<1>6. GoesOn(q)
    BY <1>3, AbortMaySay DEF GoesOn, UnstartedOK, Unsaid, CanCome, Holds, IsTrue
<1>7. 1 \in {0, 1}
    OBVIOUS
<1> QED BY <1>2, <1>4, <1>5, <1>6, <1>7, AnnouncingStep

\* An event is emitted that somebody hears.
LEMMA HearStep ==
    ASSUME IInv, queue # <<>>, NEW q \in Request, NEW e \in Event,
           Head(queue) = [do |-> e, for |-> q], HasListener(q, e),
           heard' = [heard EXCEPT ![q] = Append(@, [event |-> e, epoch |-> epoch])],
           queue' = Tail(queue),
           UNCHANGED <<epoch, listening, emitter, stage, result, buffering, body, owed, response>>
    PROVE  IInv'
<1> USE DEF IInv
<1> DEFINE x == [event |-> e, epoch |-> epoch]
           old == heard[q]
           S == [event : Event, epoch : Epoch]
<1>1. queue \in Seq(Callback) /\ old \in Seq(S) /\ x \in S
    BY DEF TypeOK
<1>2. queue[1] = [do |-> e, for |-> q] /\ 1 \in DOMAIN queue
    BY <1>1, TailOf, Zenon
<1>3. WaitingOK(q, e)
    BY <1>2 DEF QueueOK
<1>4. \A p \in Request : heard'[p] = IF p = q THEN Append(old, x) ELSE heard[p]
    BY DEF TypeOK
<1>5. TypeOK'
  <2>1. queue' \in Seq(Callback) /\ Append(old, x) \in Seq(S)
      BY <1>1, TailOf, AppendOf, Zenon
  <2>2. heard' \in [Request -> Seq(S)]
    <3>1. heard \in [Request -> Seq(S)] /\ heard' = [heard EXCEPT ![q] = Append(old, x)]
        BY DEF TypeOK
    <3> HIDE DEF x, S, old
    <3> QED BY <2>1, <3>1
  <2> QED BY <2>1, <2>2 DEF TypeOK
<1>6. UnstartedOK'
    BY <1>3, <1>4 DEF UnstartedOK, WaitingOK
<1>7. HeardOK'
  <2>1. \A p \in Request, f \in Event : HeardWell(p, f) => HeardWell(p, f)'
      BY DEF HeardWell, Unsaid, CanCome, Holds, IsTrue
  <2>2. HeardWell(q, e) /\ epoch = emitter[q]
      BY <1>3 DEF HeardWell, WaitingOK, HasListener
  <2>3. ASSUME NEW p \in Request \ {q}, NEW i \in DOMAIN heard'[p]
        PROVE  /\ HeardWell(p, heard[p][i].event)' /\ heard'[p][i].epoch = emitter'[p]
               /\ \A j \in DOMAIN heard'[p] :
                     i < j => /\ heard'[p][j].event # heard'[p][i].event
                              /\ ~Precedes(heard'[p][j].event, heard'[p][i].event)
    <3>1. heard'[p] = heard[p]
        BY <1>4
    <3>2. HeardWell(p, heard[p][i].event) /\ heard[p][i].event \in Event
        BY <3>1, HeardTypes DEF HeardOK
    <3>3. HeardWell(p, heard[p][i].event)'
        BY <2>1, <3>1, <3>2 DEF HeardWell, Unsaid, CanCome, Holds, IsTrue
    <3> QED BY <3>1, <3>3 DEF HeardOK
  <2>4. ASSUME NEW i \in DOMAIN heard'[q]
        PROVE  /\ HeardWell(q, heard[q][i].event)' /\ heard'[q][i].epoch = emitter'[q]
               /\ \A j \in DOMAIN heard'[q] :
                     i < j => /\ heard'[q][j].event # heard'[q][i].event
                              /\ ~Precedes(heard'[q][j].event, heard'[q][i].event)
    <3>1. /\ i \in DOMAIN old /\ heard'[q][i] = old[i]
          \/ heard'[q][i] = x
        BY <1>1, <1>4, AppendOf
    <3>2. CASE i \in DOMAIN old /\ heard'[q][i] = old[i]
      <4>1. /\ HeardWell(q, old[i].event) /\ old[i].event \in Event
            /\ old[i].epoch = emitter[q]
          BY <3>2, HeardTypes DEF HeardOK
      <4>2. HeardWell(q, heard[q][i].event)'
          BY <3>2, <4>1 DEF HeardWell, Unsaid, CanCome, Holds, IsTrue
      <4>3. ASSUME NEW j \in DOMAIN heard'[q], i < j
            PROVE  /\ heard'[q][j].event # heard'[q][i].event
                   /\ ~Precedes(heard'[q][j].event, heard'[q][i].event)
        <5>1. /\ j \in DOMAIN old /\ heard'[q][j] = old[j]
              \/ heard'[q][j] = x
            BY <1>1, <1>4, AppendOf
        <5>2. CASE j \in DOMAIN old /\ heard'[q][j] = old[j]
            BY <3>2, <4>3, <5>2 DEF HeardOK
        <5>3. CASE heard'[q][j] = x
            BY <1>3, <3>2, <5>3 DEF WaitingOK
        <5> QED BY <5>1, <5>2, <5>3
      <4> QED BY <3>2, <4>1, <4>2, <4>3
    <3>3. CASE i \notin DOMAIN old /\ heard'[q][i] = x
      <4>1. HeardWell(q, heard[q][i].event)'
          BY <2>2, <3>3 DEF HeardWell, Unsaid, CanCome, Holds, IsTrue
      <4>2. \A j \in DOMAIN heard'[q] : ~(i < j)
          BY <1>1, <1>4, <3>3, AppendOf
      <4> QED BY <2>2, <3>3, <4>1, <4>2
    <3> QED BY <3>1, <3>2, <3>3, <1>1, <1>4, AppendOf
  <2> QED BY <2>3, <2>4 DEF HeardOK
<1>8. QueueOK'
  <2>1. \A i \in DOMAIN queue' : queue'[i] = queue[i + 1] /\ 1 < i + 1 /\ i + 1 \in DOMAIN queue
      BY <1>1, TailOf
  <2>2. ASSUME NEW i \in DOMAIN queue'
        PROVE  WaitingOK(queue[i].for, queue[i].do)'
    <3> SUFFICES ASSUME NEW p, p = queue'[i].for, NEW d, d = queue'[i].do
                 PROVE  WaitingOK(p, d)'
        BY DEF WaitingOK
    <3>1. p \in Request /\ WaitingOK(p, d) /\ InOrder(queue[1], queue[i + 1])
        BY <1>1, <1>2, <2>1, CallbackTypes DEF QueueOK
    <3>2. p = q => d # e /\ ~Precedes(d, e)
        BY <1>2, <2>1, <3>1 DEF InOrder
    <3>3. \A k \in DOMAIN heard'[p] :
              heard'[p][k].event # d /\ ~Precedes(d, heard'[p][k].event)
      <4>1. CASE p # q
          BY <1>4, <3>1, <4>1 DEF WaitingOK
      <4>2. ASSUME p = q, NEW k \in DOMAIN heard'[q]
            PROVE  heard'[q][k].event # d /\ ~Precedes(d, heard'[q][k].event)
        <5>1. /\ k \in DOMAIN old /\ heard'[q][k] = old[k]
              \/ heard'[q][k] = x
            BY <1>1, <1>4, AppendOf
        <5> QED BY <3>1, <3>2, <4>2, <5>1 DEF WaitingOK
      <4> QED BY <4>1, <4>2
    <3> QED BY <3>1, <3>3 DEF WaitingOK, Unsaid, CanCome, Holds, IsTrue
  <2>3. ASSUME NEW i \in DOMAIN queue', NEW j \in DOMAIN queue', i < j
        PROVE  InOrder(queue'[i], queue'[j])
    <3>1. i \in Int /\ j \in Int
        BY <1>5 DEF TypeOK
    <3>2. i + 1 < j + 1
        BY <2>3, <3>1
    <3> QED BY <2>1, <3>2 DEF QueueOK
  <2> QED BY <2>2, <2>3 DEF QueueOK
<1> QED BY <1>5, <1>6, <1>7, <1>8

\* An event is emitted that nobody hears.
LEMMA UnheardStep ==
    ASSUME IInv, queue # <<>>, NEW q \in Request, queue' = Tail(queue),
           UNCHANGED <<epoch, listening, emitter, stage, result, buffering, body, owed,
                       response, heard>>
    PROVE  IInv'
<1> USE DEF IInv
<1>1. queue \in Seq(Callback)
    BY DEF TypeOK
<1>2. Queues(q, 1)
  <2>1. /\ IsAnnouncement(<<>>, q, "abort") /\ IsAnnouncement(<<>>, q, "close")
        /\ "abort" \in Event \cup {"close"} /\ "close" \in Event \cup {"close"}
        /\ "abort" # "close" /\ ~Precedes("close", "abort")
      BY NothingAnnounces DEF Event, Precedes
  <2>2. <<>> # <<>> => FALSE
      OBVIOUS
  <2>3. /\ Tail(queue) \in Seq(Callback) /\ 1 \in {0, 1} /\ Len(Tail(queue)) = Len(queue) - 1
        /\ \A i \in 1..Len(Tail(queue)) : Tail(queue)[i] = queue[i + 1]
      BY <1>1, TailOf
  <2>4. queue' = (Tail(queue) \o <<>>) \o <<>>
      BY <2>3
  <2> QED BY <2>1, <2>2, <2>3, <2>4, QueuesTwo, Zenon
<1>3. TypeOK'
    BY <1>2 DEF Queues, TypeOK
<1>4. GoesOn(q)
    BY DEF GoesOn, UnstartedOK, Unsaid, CanCome, Holds, IsTrue
<1>5. 1 \in {0, 1} /\ 1 <= Len(queue)
    BY <1>1, TailOf
<1> QED BY <1>2, <1>3, <1>4, <1>5, AnnouncingStep

LEMMA RunImmediateStep ==
    ASSUME IInv, RunImmediate
    PROVE  IInv'
<1> DEFINE c == Head(queue)
<1>1. queue # <<>> /\ queue \in Seq(Callback)
    BY DEF RunImmediate, IInv, TypeOK
<1>2. c \in Callback
    BY <1>1
<1>3. c.for \in Request /\ c.do \in Event \cup {"close"} /\ c = [do |-> c.do, for |-> c.for]
    BY <1>2 DEF Callback
<1>4. CASE c.do = "close"
    BY <1>1, <1>3, <1>4, RunCloseStep DEF RunImmediate
<1>5. CASE c.do # "close" /\ HasListener(c.for, c.do)
    BY <1>1, <1>3, <1>5, HearStep DEF RunImmediate, Emit
<1>6. CASE c.do # "close" /\ ~HasListener(c.for, c.do)
    BY <1>1, <1>3, <1>6, UnheardStep DEF RunImmediate, Emit
<1> QED BY <1>4, <1>5, <1>6

LEMMA NextIInv == IInv /\ [Next]_vars => IInv'
<1> SUFFICES ASSUME IInv, [Next]_vars
             PROVE  IInv'
    OBVIOUS
<1>1. ASSUME NEW e \in Event, Subscribe(e)
      PROVE  IInv'
  <2>1. epoch' \in Epoch /\ listening' \in SUBSET Event
      BY <1>1 DEF Subscribe, IInv, TypeOK
  <2> QED BY <1>1, <2>1, ListenersStep DEF Subscribe
<1>2. CASE Reset
  <2>1. epoch' \in Epoch /\ listening' \in SUBSET Event
      BY <1>2, MaxEpochAssumption DEF Reset, IInv, TypeOK, Epoch
  <2> QED BY <1>2, <2>1, ListenersStep DEF Reset
<1>3. CASE UNCHANGED vars
  <2>1. epoch' \in Epoch /\ listening' \in SUBSET Event
      BY <1>3 DEF vars, IInv, TypeOK
  <2> QED BY <1>3, <2>1, ListenersStep DEF vars
<1>4. ASSUME NEW q \in Request, Handler(q)
      PROVE  IInv'
    BY <1>4, WriteHeadStep, ResponseOverflowsStep, EndResponseStep, ReturnUnendedStep, HandlerAbortsStep,
       ThrowUnsendableStep, ResponseErrorsStep DEF Handler
<1>5. ASSUME NEW q \in Request,
             \/ RejectRequest(q) \/ StartRequest(q) \/ MatchingEnds(q) \/ BodyEnds(q)
             \/ Disconnect(q) \/ Deliver(q)
      PROVE  IInv'
    BY <1>5, RejectRequestStep, StartRequestStep, MatchingEndsStep, BodyEndsStep,
       DisconnectStep, DeliverStep
<1> QED BY <1>1, <1>2, <1>3, <1>4, <1>5, RunImmediateStep DEF Next

\* The invariant of the whole module.
THEOREM RequestInvariant == Spec => []IInv
BY InitIInv, NextIInv, PTL DEF Spec

\* Type correctness, for any number of requests and of resets.
THEOREM RequestTypeOK == Spec => []TypeOK
<1>1. IInv => TypeOK
    BY DEF IInv
<1> QED BY <1>1, RequestInvariant, PTL

(***************************************************************************)
(* However the handler, the client and the event loop race, each event of  *)
(* a request is heard once at most, and never both that it was answered    *)
(* and that it was aborted: what is heard has left `Unsaid`, the events    *)
(* heard of one request differ, and the result cannot be both.             *)
(***************************************************************************)
THEOREM RequestOneOutcome == Spec => []OneOutcome
<1>1. IInv => OneOutcome
  <2> SUFFICES ASSUME IInv, NEW q \in Request
               PROVE  /\ \A e \in Event : Cardinality(HeardAt(q, e)) <= 1
                      /\ ~(Heard(q, "response") /\ Heard(q, "abort"))
      BY DEF OneOutcome
  <2> USE DEF IInv
  <2>1. DOMAIN heard[q] \subseteq Int
      BY DEF TypeOK
  <2>2. ASSUME NEW e \in Event
        PROVE  Cardinality(HeardAt(q, e)) <= 1
    <3>1. \A i, j \in HeardAt(q, e) : i = j
      <4> SUFFICES ASSUME NEW i \in HeardAt(q, e), NEW j \in HeardAt(q, e), i < j
                   PROVE  FALSE
          BY <2>1 DEF HeardAt
      <4> QED BY DEF HeardAt, HeardOK
    <3>2. CASE HeardAt(q, e) = {}
        BY <3>2, FS_EmptySet
    <3>3. ASSUME NEW i \in HeardAt(q, e)
          PROVE  Cardinality(HeardAt(q, e)) = 1
      <4>1. HeardAt(q, e) = {i}
          BY <3>1, <3>3
      <4> QED BY <4>1, FS_Singleton
    <3> QED BY <3>2, <3>3
  <2>3. ASSUME Heard(q, "response"), Heard(q, "abort")
        PROVE  FALSE
    <3>1. Holds(q, "response") /\ Holds(q, "abort")
        BY <2>3 DEF Heard, HeardAt, HeardOK, HeardWell
    <3> QED BY <3>1 DEF Holds, IsTrue
  <2> QED BY <2>2, <2>3
<1> QED BY <1>1, RequestInvariant, PTL

(***************************************************************************)
(* What is heard of a request is in order, and true when it is heard: a    *)
(* completed request was received whole, a completed response was ended,   *)
(* unless they outgrew the buffer that is announced.                       *)
(***************************************************************************)
THEOREM RequestEventsAreTrue == Spec => []EventsAreTrue
<1>1. IInv => EventsInOrder
  <2> SUFFICES ASSUME IInv, NEW q \in Request
               PROVE  /\ HeardAt(q, "request-initiated") \subseteq {1}
                      /\ \A i \in HeardAt(q, "response-initiated"),
                            j \in HeardAt(q, "response") : i < j
      BY DEF EventsInOrder
  <2> USE DEF IInv
  <2>1. /\ DOMAIN heard[q] = 1..Len(heard[q]) /\ Len(heard[q]) \in Nat
      BY DEF TypeOK
  <2>2. ASSUME NEW i \in HeardAt(q, "request-initiated"), i # 1
        PROVE  FALSE
    <3>1. i \in DOMAIN heard[q] /\ 1 \in DOMAIN heard[q] /\ 1 < i
        BY <2>1, <2>2 DEF HeardAt
    <3>2. heard[q][1].event \in Event
        BY <3>1, HeardTypes
    <3>3. /\ heard[q][i].event # heard[q][1].event
          /\ ~Precedes(heard[q][i].event, heard[q][1].event)
        BY <3>1 DEF HeardOK
    <3> QED BY <3>2, <3>3 DEF HeardAt, Precedes
  <2>3. ASSUME NEW i \in HeardAt(q, "response-initiated"), NEW j \in HeardAt(q, "response")
        PROVE  i < j
    <3>1. ~(j < i)
        BY DEF HeardAt, HeardOK, Precedes
    <3>2. i # j
        BY DEF HeardAt
    <3> QED BY <2>1, <3>1, <3>2 DEF HeardAt
  <2> QED BY <2>2, <2>3
<1>2. IInv => CompletedOnly
    BY DEF IInv, HeardOK, HeardWell, Holds, IsTrue, CompletedOnly, Heard, HeardAt
<1> QED BY <1>1, <1>2, RequestInvariant, PTL DEF EventsAreTrue

(***************************************************************************)
(* "Capture the event emitter for this request's lifecycle": whoever       *)
(* subscribes after a reset hears nothing of requests from before it.      *)
(***************************************************************************)
THEOREM RequestNothingFromBeforeReset == Spec => []NothingFromBeforeReset
<1>1. IInv => NothingFromBeforeReset
    BY DEF IInv, HeardOK, NothingFromBeforeReset
<1> QED BY <1>1, RequestInvariant, PTL

-----------------------------------------------------------------------------
(* The outcome of a request.                                               *)

Told(h) == [i \in DOMAIN h |-> h[i].event]

LEMMA ToldAppended ==
    ASSUME NEW S, NEW h \in Seq(S), NEW x \in S
    PROVE  Told(Append(h, x)) = Append(Told(h), x.event)
<1>1. /\ DOMAIN Append(h, x) = 1..(Len(h) + 1) /\ DOMAIN h = 1..Len(h) /\ Len(h) \in Nat
      /\ \A i \in DOMAIN h : Append(h, x)[i] = h[i]
      /\ Append(h, x)[Len(h) + 1] = x
    OBVIOUS
<1>2. Told(h) \in Seq({s.event : s \in S}) /\ Len(Told(h)) = Len(h)
  <2>1. \A i \in 1..Len(h) : h[i].event \in {s.event : s \in S}
      OBVIOUS
  <2> QED BY <1>1, <2>1 DEF Told
<1>3. /\ DOMAIN Append(Told(h), x.event) = 1..(Len(h) + 1)
      /\ \A i \in 1..Len(h) : Append(Told(h), x.event)[i] = Told(h)[i]
      /\ Append(Told(h), x.event)[Len(h) + 1] = x.event
      /\ Append(Told(h), x.event) = [i \in 1..(Len(h) + 1) |-> Append(Told(h), x.event)[i]]
    BY <1>1, <1>2
<1>4. \A i \in 1..(Len(h) + 1) : Append(Told(h), x.event)[i] = Append(h, x)[i].event
    BY <1>1, <1>3 DEF Told
<1> QED BY <1>1, <1>3, <1>4 DEF Told

\* A step that tells nothing, and may decide the outcome of q.
LEMMA DecidingStep ==
    ASSUME IInv, NEW q \in Request, UNCHANGED heard,
           \/ UNCHANGED result
           \/ result' = AbortResult(q)
           \/ result' = [result EXCEPT ![q] = Responded(q)]
    PROVE  [Outcome!Next]_(Outcome!vars)
<1>1. result \in [Request -> {"none", "responded", "aborted"}]
    BY DEF IInv, TypeOK
<1>2. CASE UNCHANGED result
    BY <1>2 DEF Outcome!vars
<1>3. CASE result[q] # "none" /\ ~(UNCHANGED result)
  <2>1. [result EXCEPT ![q] = result[q]] = result
      BY <1>1
  <2>2. result' = result
      BY <1>3, <2>1 DEF AbortResult, Responded
  <2> QED BY <1>3, <2>2
<1>4. CASE result[q] = "none" /\ ~(UNCHANGED result)
  <2>1. \E o \in {"responded", "aborted"} : result' = [result EXCEPT ![q] = o]
      BY <1>4 DEF AbortResult, Responded
  <2>2. Outcome!Decide(q)
      BY <1>4, <2>1 DEF Outcome!Decide
  <2> QED BY <2>2 DEF Outcome!Next
<1> QED BY <1>2, <1>3, <1>4

\* A subscriber hears of event e of request q.
LEMMA TellingStep ==
    ASSUME IInv, NEW q \in Request, NEW e \in Event, WaitingOK(q, e),
           heard' = [heard EXCEPT ![q] = Append(@, [event |-> e, epoch |-> epoch])],
           UNCHANGED result
    PROVE  [Outcome!Next]_(Outcome!vars)
<1> DEFINE told == [p \in Request |-> Told(heard[p])]
           x == [event |-> e, epoch |-> epoch]
           Heard_ == [event : Event, epoch : Epoch]
<1>1. heard \in [Request -> Seq(Heard_)] /\ x \in Heard_ /\ x.event = e
    BY DEF IInv, TypeOK
<1>2. e \in Outcome!Event
    BY DEF Event, Outcome!Event
<1>3. \A i \in DOMAIN told[q] : told[q][i] # e /\ ~Outcome!Precedes(e, told[q][i])
  <2>1. \A i \in DOMAIN heard[q] : heard[q][i].event # e /\ ~Precedes(e, heard[q][i].event)
      BY DEF WaitingOK
  <2> QED BY <2>1 DEF Told, Precedes, Outcome!Precedes, Event, Outcome!Event
<1>4. e \in DOMAIN Outcome!OutcomeOf => result[q] = Outcome!OutcomeOf[e]
    BY DEF WaitingOK, Holds, IsTrue, Outcome!OutcomeOf
<1>5. Told(heard'[q]) = Append(Told(heard[q]), e)
  <2>1. heard'[q] = Append(heard[q], x)
      BY <1>1
  <2> HIDE DEF x, Heard_
  <2> QED BY <1>1, <2>1, ToldAppended
<1>6. [p \in Request |-> Told(heard'[p])] = [told EXCEPT ![q] = Append(told[q], e)]
  <2>1. \A p \in Request \ {q} : heard'[p] = heard[p]
      BY <1>1
  <2>2. told = [p \in Request |-> told[p]] /\ \A p \in Request : told[p] = Told(heard[p])
      OBVIOUS
  <2>3. \A p \in Request : Told(heard'[p]) = IF p = q THEN Append(told[q], e) ELSE told[p]
      BY <1>5, <2>1, <2>2, Zenon
  <2> HIDE DEF told
  <2>4. [told EXCEPT ![q] = Append(told[q], e)]
        = [p \in Request |-> IF p = q THEN Append(told[q], e) ELSE told[p]]
      BY <2>2
  <2> QED BY <2>3, <2>4, Zenon
<1>7. Outcome!Tell(q, e)
    BY <1>3, <1>4, <1>6 DEF Outcome!Tell, Told
<1> QED BY <1>2, <1>7 DEF Outcome!Next

LEMMA NextOutcome ==
    ASSUME IInv, [Next]_vars
    PROVE  [Outcome!Next]_(Outcome!vars)
<1>1. CASE RunImmediate
  <2> DEFINE c == Head(queue)
  <2>1. queue # <<>> /\ queue \in Seq(Callback)
      BY <1>1 DEF RunImmediate, IInv, TypeOK
  <2>2. c = queue[1] /\ 1 \in DOMAIN queue /\ c.for \in Request /\ c.do \in Event \cup {"close"}
    <3>1. c = queue[1] /\ 1 \in DOMAIN queue
        BY <2>1, TailOf, Zenon
    <3>2. queue[1].for \in Request /\ queue[1].do \in Event \cup {"close"}
        BY <2>1, <3>1, CallbackTypes
    <3> QED BY <3>1, <3>2
  <2>3. WaitingOK(c.for, c.do)
      BY <2>2 DEF IInv, QueueOK
  <2>4. CASE c.do = "close"
      BY <1>1, <2>2, <2>4, DecidingStep DEF RunImmediate
  <2>5. CASE c.do # "close" /\ HasListener(c.for, c.do)
      BY <1>1, <2>2, <2>3, <2>5, TellingStep DEF RunImmediate, Emit
  <2>6. CASE c.do # "close" /\ ~HasListener(c.for, c.do)
      BY <1>1, <2>2, <2>6, DecidingStep DEF RunImmediate, Emit
  <2> QED BY <2>4, <2>5, <2>6
<1>2. ASSUME NEW q \in Request, Handler(q)
      PROVE  [Outcome!Next]_(Outcome!vars)
    BY <1>2, DecidingStep DEF Handler, WriteHead, ResponseOverflows, EndResponse, ReturnUnended, HandlerAborts,
                              ThrowUnsendable, ResponseErrors
<1>3. ASSUME NEW q \in Request,
             \/ RejectRequest(q) \/ StartRequest(q) \/ MatchingEnds(q) \/ BodyEnds(q)
             \/ Disconnect(q) \/ Deliver(q)
      PROVE  [Outcome!Next]_(Outcome!vars)
    BY <1>3, DecidingStep DEF RejectRequest, StartRequest, MatchingEnds, BodyEnds, Disconnect, Deliver
<1>4. CASE UNCHANGED <<result, heard>>
    BY <1>4 DEF Outcome!vars
<1> QED BY <1>1, <1>2, <1>3, <1>4 DEF Next, Subscribe, Reset, vars

LEMMA InitOutcome == Init => Outcome!Init
BY DEF Init, Outcome!Init

(***************************************************************************)
(* Requests implement RequestOutcome, however the handler, the client, the *)
(* event loop and resets race: a step decides the outcome of one request   *)
(* that had none, tells one more of its events in order and truthfully, or *)
(* changes neither.                                                        *)
(***************************************************************************)
THEOREM RequestImplementsOutcome == Spec => ImplementsOutcome
<1>1. Init => Outcome!Init
    BY InitOutcome
<1>2. IInv /\ [Next]_vars => [Outcome!Next]_(Outcome!vars)
    BY NextOutcome
<1>3. Spec => []IInv
    BY RequestInvariant
<1> QED BY <1>1, <1>2, <1>3, PTL DEF Spec, ImplementsOutcome, Outcome!Spec

-----------------------------------------------------------------------------
(* Induction over numbers, with a set in place of a predicate, and the     *)
(* functions that are defined by recursion.                                *)

LEMMA LeastOf ==
    ASSUME NEW T \in SUBSET Nat, T # {}
    PROVE  \E n \in T : \A m \in T : n <= m
<1> DEFINE R == OpToRel(<, Nat)
<1>1. IsWellFoundedOn(R, Nat)
    BY NatLessThanWellFounded
<1>2. \A m, n \in Nat : <<m, n>> \in R <=> m < n
    BY DEF OpToRel
<1> HIDE DEF R
<1>3. PICK n \in T : \A m \in T : ~(<<m, n>> \in R)
    BY <1>1, WFMin
<1>4. \A m \in T : ~(m < n)
    BY <1>2, <1>3
<1>5. \A m \in T : n <= m
    BY <1>4
<1> QED BY <1>5

LEMMA Induction ==
    ASSUME NEW T \in SUBSET Nat, 0 \in T, \A n \in T : n + 1 \in T
    PROVE  T = Nat
<1>1. SUFFICES ASSUME Nat \ T # {}
               PROVE  FALSE
    OBVIOUS
<1>2. PICK n \in Nat \ T : \A m \in Nat \ T : n <= m
    BY <1>1, LeastOf
<1>3. n - 1 \in Nat /\ ~(n <= n - 1)
    BY <1>2
<1> QED BY <1>2, <1>3

\* Up to k, each value of f is what D makes of the one before.
Follows(f, D, start, k) == f[0] = start /\ \A n \in 1..k : f[n] = D[<<f[n - 1], n>>]

LEMMA Recursion ==
    ASSUME NEW S, NEW start \in S, NEW D \in [S \X Nat -> S], NEW k \in Nat
    PROVE  \E f \in [0..k -> S] : Follows(f, D, start, k)
<1> DEFINE Good(f, j) == Follows(f, D, start, j)
           T == {j \in Nat : \E f \in [0..j -> S] : Good(f, j)}
<1>1. 0 \in T
  <2> DEFINE f == [n \in 0..0 |-> start]
  <2>1. f \in [0..0 -> S] /\ Good(f, 0)
      BY DEF Follows
  <2> QED BY <2>1
<1>2. ASSUME NEW j \in T
      PROVE  j + 1 \in T
  <2>1. j \in Nat
      OBVIOUS
  <2>2. PICK f \in [0..j -> S] : Good(f, j)
      OBVIOUS
  <2> HIDE DEF T
  <2> DEFINE x == D[<<f[j], j + 1>>]
             g == [n \in 0..(j + 1) |-> IF n = j + 1 THEN x ELSE f[n]]
  <2>3. /\ f[j] \in S /\ j + 1 \in Nat /\ 0 \in 0..j /\ 0 # j + 1 /\ j + 1 \in 0..(j + 1)
        /\ \A n \in 0..j : n # j + 1 /\ n \in 0..(j + 1)
        /\ \A n \in 0..(j + 1) : n = j + 1 \/ n \in 0..j
      BY <2>1
  <2>4. x \in S
      BY <2>3
  <2> HIDE DEF x
  <2>5. g \in [0..(j + 1) -> S]
      BY <2>3, <2>4
  <2>6. g[0] = start /\ g[j + 1] = x /\ \A n \in 0..j : g[n] = f[n]
      BY <2>2, <2>3 DEF Follows
  <2> HIDE DEF g
  <2>7. ASSUME NEW n \in 1..(j + 1)
        PROVE  g[n] = D[<<g[n - 1], n>>]
    <3>1. CASE n = j + 1
      <4>1. n - 1 = j /\ j \in 0..j
          BY <2>1, <3>1
      <4> QED BY <2>6, <3>1, <4>1 DEF x
    <3>2. CASE n \in 1..j
      <4>1. n \in 0..j /\ n - 1 \in 0..j
          BY <2>1, <3>2
      <4> QED BY <2>2, <2>6, <3>2, <4>1 DEF Follows
    <3> QED BY <2>1, <3>1, <3>2
  <2>8. Good(g, j + 1)
      BY <2>6, <2>7 DEF Follows
  <2> QED BY <2>3, <2>5, <2>8 DEF T
<1> HIDE DEF T
<1>3. T = Nat
    BY <1>1, <1>2, Induction DEF T
<1> QED BY <1>3 DEF T

-----------------------------------------------------------------------------
(* The steps of a rule, of any number.                                     *)

Heads == Seq(Nat)
StepOutcome == {"continue", "returned", "error", "abort", "waits", "responded", "aborted"}
StepResponse ==
    [heads : Heads, ended : BOOLEAN, closed : BOOLEAN, partial : BOOLEAN,
     ran : Nat, outcome : StepOutcome]

\* The steps go on, with informational heads at most.
GoesOnWith(r, n) ==
    /\ r \in StepResponse
    /\ r.ran = n /\ r.outcome = "continue"
    /\ ~r.ended /\ ~r.closed /\ ~r.partial
    /\ ~Headed(r)

LEMMA HeadAppended ==
    ASSUME NEW heads \in Heads, NEW status \in Nat
    PROVE  /\ Append(heads, status) \in Heads
           /\ Len(Append(heads, status)) = Len(heads) + 1
           /\ Append(heads, status)[Len(heads) + 1] = status
           /\ \A i \in DOMAIN Append(heads, status) :
                  (i \in DOMAIN heads /\ Append(heads, status)[i] = heads[i]) \/ i = Len(heads) + 1
           /\ \A i \in DOMAIN heads :
                  i \in DOMAIN Append(heads, status) /\ Append(heads, status)[i] = heads[i]
           /\ Len(heads) + 1 \in DOMAIN Append(heads, status)
BY DEF Heads

LEMMA HeadSent ==
    ASSUME NEW r \in StepResponse, NEW status \in Nat
    PROVE  LET s == SendHead(r, status)
           IN  /\ s \in StepResponse
               /\ s.ended = r.ended /\ s.closed = r.closed /\ s.partial = r.partial
               /\ s.ran = r.ran /\ s.outcome = r.outcome
               /\ Len(s.heads) \in Nat \ {0} /\ s.heads[Len(s.heads)] = status
               /\ Headed(s) <=> (Headed(r) \/ IsFinalHead(status))
               /\ ~Headed(r) => OneHead(s)
<1> DEFINE heads == Append(r.heads, status)
<1>1. r.heads \in Heads /\ Len(r.heads) \in Nat
    BY DEF StepResponse, Heads
<1>2. /\ heads \in Heads /\ Len(heads) = Len(r.heads) + 1 /\ heads[Len(r.heads) + 1] = status
      /\ \A i \in DOMAIN heads : (i \in DOMAIN r.heads /\ heads[i] = r.heads[i]) \/ i = Len(r.heads) + 1
      /\ \A i \in DOMAIN r.heads : i \in DOMAIN heads /\ heads[i] = r.heads[i]
      /\ Len(r.heads) + 1 \in DOMAIN heads
    BY <1>1, HeadAppended
<1> HIDE DEF heads
<1>3. SendHead(r, status) = [r EXCEPT !.heads = heads]
    BY DEF SendHead, heads
<1>4. /\ SendHead(r, status) \in StepResponse /\ SendHead(r, status).heads = heads
      /\ SendHead(r, status).ended = r.ended /\ SendHead(r, status).closed = r.closed
      /\ SendHead(r, status).partial = r.partial
      /\ SendHead(r, status).ran = r.ran /\ SendHead(r, status).outcome = r.outcome
    BY <1>2, <1>3 DEF StepResponse
<1>5. Headed(SendHead(r, status)) <=> (Headed(r) \/ IsFinalHead(status))
    BY <1>2, <1>4 DEF Headed
<1>6. ~Headed(r) => OneHead(SendHead(r, status))
    BY <1>2, <1>4 DEF Headed, OneHead
<1>7. Len(heads) \in Nat \ {0}
    BY <1>1, <1>2
<1> QED BY <1>2, <1>4, <1>5, <1>6, <1>7

\* A response without a final head has one at most.
LEMMA NoneIsOne ==
    ASSUME NEW r, ~Headed(r)
    PROVE  OneHead(r)
BY DEF Headed, OneHead

LEMMA OutcomeSet ==
    ASSUME NEW r \in StepResponse, NEW o \in StepOutcome
    PROVE  /\ With(r, o) \in StepResponse
           /\ With(r, o).outcome = o
           /\ With(r, o).heads = r.heads /\ With(r, o).ended = r.ended /\ With(r, o).closed = r.closed
           /\ With(r, o).partial = r.partial /\ With(r, o).ran = r.ran
           /\ Headed(With(r, o)) <=> Headed(r)
           /\ OneHead(With(r, o)) <=> OneHead(r)
<1>1. /\ With(r, o) \in StepResponse
      /\ With(r, o).outcome = o
      /\ With(r, o).heads = r.heads /\ With(r, o).ended = r.ended /\ With(r, o).closed = r.closed
      /\ With(r, o).partial = r.partial /\ With(r, o).ran = r.ran
    BY DEF StepResponse, With
<1> QED BY <1>1 DEF Headed, OneHead

LEMMA EndedSet ==
    ASSUME NEW r \in StepResponse
    PROVE  /\ End(r) \in StepResponse
           /\ End(r).ended
           /\ End(r).heads = r.heads /\ End(r).closed = r.closed /\ End(r).partial = r.partial
           /\ End(r).ran = r.ran /\ End(r).outcome = r.outcome
           /\ Headed(End(r)) <=> Headed(r)
           /\ OneHead(End(r)) <=> OneHead(r)
<1>1. /\ End(r) \in StepResponse
      /\ End(r).ended
      /\ End(r).heads = r.heads /\ End(r).closed = r.closed /\ End(r).partial = r.partial
      /\ End(r).ran = r.ran /\ End(r).outcome = r.outcome
    BY DEF StepResponse, End
<1> QED BY <1>1 DEF Headed, OneHead

LEMMA ClosedSet ==
    ASSUME NEW r \in StepResponse
    PROVE  /\ CloseSocket(r) \in StepResponse
           /\ CloseSocket(r).closed
           /\ CloseSocket(r).heads = r.heads /\ CloseSocket(r).ended = r.ended /\ CloseSocket(r).partial = r.partial
           /\ CloseSocket(r).ran = r.ran /\ CloseSocket(r).outcome = r.outcome
           /\ Headed(CloseSocket(r)) <=> Headed(r)
           /\ OneHead(CloseSocket(r)) <=> OneHead(r)
<1>1. /\ CloseSocket(r) \in StepResponse
      /\ CloseSocket(r).closed
      /\ CloseSocket(r).heads = r.heads /\ CloseSocket(r).ended = r.ended /\ CloseSocket(r).partial = r.partial
      /\ CloseSocket(r).ran = r.ran /\ CloseSocket(r).outcome = r.outcome
    BY DEF StepResponse, CloseSocket
<1> QED BY <1>1 DEF Headed, OneHead

LEMMA PartialSet ==
    ASSUME NEW r \in StepResponse
    PROVE  /\ Break(r) \in StepResponse
           /\ Break(r).partial
           /\ Break(r).heads = r.heads /\ Break(r).ended = r.ended /\ Break(r).closed = r.closed
           /\ Break(r).ran = r.ran /\ Break(r).outcome = r.outcome
           /\ Headed(Break(r)) <=> Headed(r)
           /\ OneHead(Break(r)) <=> OneHead(r)
<1>1. /\ Break(r) \in StepResponse
      /\ Break(r).partial
      /\ Break(r).heads = r.heads /\ Break(r).ended = r.ended /\ Break(r).closed = r.closed
      /\ Break(r).ran = r.ran /\ Break(r).outcome = r.outcome
    BY DEF StepResponse, Break
<1> QED BY <1>1 DEF Headed, OneHead

LEMMA RanSet ==
    ASSUME NEW r \in StepResponse, NEW n \in Nat
    PROVE  /\ Ran(r, n) \in StepResponse
           /\ Ran(r, n).ran = n
           /\ Ran(r, n).heads = r.heads /\ Ran(r, n).ended = r.ended /\ Ran(r, n).closed = r.closed
           /\ Ran(r, n).partial = r.partial /\ Ran(r, n).outcome = r.outcome
           /\ Headed(Ran(r, n)) <=> Headed(r)
           /\ OneHead(Ran(r, n)) <=> OneHead(r)
<1>1. /\ Ran(r, n) \in StepResponse
      /\ Ran(r, n).ran = n
      /\ Ran(r, n).heads = r.heads /\ Ran(r, n).ended = r.ended /\ Ran(r, n).closed = r.closed
      /\ Ran(r, n).partial = r.partial /\ Ran(r, n).outcome = r.outcome
    BY DEF StepResponse, Ran
<1> QED BY <1>1 DEF Headed, OneHead

\* What a step waits for.
WaitsFor(step, fate) ==
    \/ step.type = "timeout"
    \/ step = [type |-> "stream", how |-> "destroyed"]
    \/ fate = "open" /\ step.type \in {"callback", "json-rpc-response", "wait-for-request-body"}

\* What a step makes of a response without a final head.
Handled(step, fate, n, s) ==
    /\ s \in StepResponse /\ s.ran = n /\ OneHead(s)
    /\ CASE s.outcome = "continue" -> ~IsFinal(step) /\ GoesOnWith(s, n)
         [] s.outcome = "returned" -> IsFinal(step) /\ s.ended /\ Headed(s) /\ ~s.partial
         [] s.outcome = "error" -> ~s.ended /\ ~s.partial /\ ~Headed(s)
         [] s.outcome = "abort" -> ~s.ended
         [] s.outcome = "waits" -> ~s.ended /\ WaitsFor(step, fate)
         [] OTHER -> FALSE

LEMMA WaysToEnd ==
    ASSUME NEW step \in Step, NEW fate \in BodyFate, NEW n \in Nat, NEW r, GoesOnWith(r, n)
    PROVE  /\ IsFinal(step) => Handled(step, fate, n, Answer(r, 200)) /\ Handled(step, fate, n, Answer(r, 500))
           /\ Handled(step, fate, n, Fail(r))
           /\ Handled(step, fate, n, CloseByRule(r))
           /\ WaitsFor(step, fate) =>
                  Handled(step, fate, n, Wait(r)) /\ Handled(step, fate, n, Wait(Break(SendHead(r, 200))))
           /\ Handled(step, fate, n, Abort(Break(SendHead(r, 200))))
           /\ ~IsFinal(step) =>
                  Handled(step, fate, n, Continue(r)) /\ Handled(step, fate, n, Continue(SendHead(r, 103)))
<1>1. /\ r \in StepResponse /\ ~Headed(r) /\ OneHead(r) /\ r.ran = n
      /\ ~r.ended /\ ~r.closed /\ ~r.partial
    BY NoneIsOne DEF GoesOnWith
<1>4. /\ "continue" \in StepOutcome /\ "returned" \in StepOutcome /\ "error" \in StepOutcome
      /\ "abort" \in StepOutcome /\ "waits" \in StepOutcome /\ 200 \in Nat /\ 103 \in Nat
    BY DEF StepOutcome
<1>5. ASSUME NEW status \in {200, 500}, IsFinal(step)
      PROVE  Handled(step, fate, n, Answer(r, status))
  <2> DEFINE s == SendHead(r, status)
             t == End(s)
             u == With(t, "returned")
  <2>1. IsFinalHead(status)
      BY DEF IsFinalHead
  <2>2. s \in StepResponse /\ s.ran = n /\ ~s.partial /\ Headed(s) /\ OneHead(s)
      BY <1>1, <1>4, <2>1, HeadSent
  <2> HIDE DEF s
  <2>3. t \in StepResponse /\ t.ran = n /\ ~t.partial /\ t.ended /\ Headed(t) /\ OneHead(t)
      BY <2>2, EndedSet
  <2> HIDE DEF t
  <2>4. u \in StepResponse /\ u.ran = n /\ ~u.partial /\ u.ended /\ Headed(u) /\ OneHead(u)
        /\ u.outcome = "returned"
      BY <2>3, OutcomeSet DEF StepOutcome
  <2>5. Answer(r, status) = u
      BY <1>1 DEF Answer, Return, u, t, s
  <2> HIDE DEF u
  <2> QED BY <1>5, <2>4, <2>5 DEF Handled
<1>6. Handled(step, fate, n, Fail(r))
  <2> DEFINE u == With(r, "error")
  <2>1. u \in StepResponse /\ u.ran = n /\ ~u.partial /\ ~u.ended /\ ~Headed(u) /\ OneHead(u)
        /\ u.outcome = "error"
      BY <1>1, OutcomeSet DEF StepOutcome
  <2> HIDE DEF u
  <2> QED BY <2>1 DEF Handled, Fail, u
<1>7. Handled(step, fate, n, CloseByRule(r))
  <2> DEFINE t == CloseSocket(r)
             u == With(t, "abort")
  <2>1. t \in StepResponse /\ t.ran = n /\ ~t.ended /\ OneHead(t)
      BY <1>1, ClosedSet
  <2> HIDE DEF t
  <2>2. u \in StepResponse /\ u.ran = n /\ ~u.ended /\ OneHead(u) /\ u.outcome = "abort"
      BY <2>1, OutcomeSet DEF StepOutcome
  <2> HIDE DEF u
  <2> QED BY <2>2 DEF Handled, CloseByRule, Abort, u, t
<1>8. ASSUME WaitsFor(step, fate)
      PROVE  Handled(step, fate, n, Wait(r))
  <2> DEFINE u == With(r, "waits")
  <2>1. u \in StepResponse /\ u.ran = n /\ ~u.ended /\ OneHead(u) /\ u.outcome = "waits"
      BY <1>1, OutcomeSet DEF StepOutcome
  <2> HIDE DEF u
  <2> QED BY <1>8, <2>1 DEF Handled, Wait, u
<1>9. /\ Handled(step, fate, n, Abort(Break(SendHead(r, 200))))
      /\ WaitsFor(step, fate) => Handled(step, fate, n, Wait(Break(SendHead(r, 200))))
  <2> DEFINE s == SendHead(r, 200)
             t == Break(s)
             u == With(t, "abort")
             v == With(t, "waits")
  <2>1. s \in StepResponse /\ s.ran = n /\ ~s.ended /\ OneHead(s)
      BY <1>1, <1>4, HeadSent
  <2> HIDE DEF s
  <2>2. t \in StepResponse /\ t.ran = n /\ ~t.ended /\ OneHead(t)
      BY <2>1, PartialSet
  <2> HIDE DEF t
  <2>3. u \in StepResponse /\ u.ran = n /\ ~u.ended /\ OneHead(u) /\ u.outcome = "abort"
      BY <2>2, OutcomeSet DEF StepOutcome
  <2>4. v \in StepResponse /\ v.ran = n /\ ~v.ended /\ OneHead(v) /\ v.outcome = "waits"
      BY <2>2, OutcomeSet DEF StepOutcome
  <2> HIDE DEF u, v
  <2>5. Handled(step, fate, n, u) /\ (WaitsFor(step, fate) => Handled(step, fate, n, v))
      BY <2>3, <2>4 DEF Handled
  <2> QED BY <2>5 DEF Abort, Wait, u, v, t, s
<1>10. ASSUME ~IsFinal(step)
       PROVE  Handled(step, fate, n, Continue(r)) /\ Handled(step, fate, n, Continue(SendHead(r, 103)))
  <2> DEFINE s == SendHead(r, 103)
             u == With(r, "continue")
             v == With(s, "continue")
  <2>1. ~IsFinalHead(103)
      BY DEF IsFinalHead
  <2>2. s \in StepResponse /\ s.ran = n /\ ~s.ended /\ ~s.closed /\ ~s.partial /\ ~Headed(s)
      BY <1>1, <1>4, <2>1, HeadSent
  <2> HIDE DEF s
  <2>3. GoesOnWith(u, n) /\ GoesOnWith(v, n)
      BY <1>1, <2>2, OutcomeSet DEF GoesOnWith, StepOutcome
  <2> HIDE DEF u, v
  <2>4. Handled(step, fate, n, u) /\ Handled(step, fate, n, v)
      BY <1>10, <2>3, NoneIsOne DEF Handled, GoesOnWith
  <2> QED BY <2>4 DEF Continue, u, v, s
<1> QED BY <1>5, <1>6, <1>7, <1>8, <1>9, <1>10

\* Each step, once it has what it waits for, ends in one of those ways.
LEMMA StepHandles ==
    ASSUME NEW step \in Step, NEW fate \in BodyFate, NEW n \in Nat, NEW r, GoesOnWith(r, n)
    PROVE  Handled(step, fate, n, HandleStep(step, fate, r))
<1> DEFINE H(s) == Handled(step, fate, n, s)
<1>1. /\ IsFinal(step) => H(Answer(r, 200)) /\ H(Answer(r, 500))
      /\ H(Fail(r)) /\ H(CloseByRule(r))
      /\ WaitsFor(step, fate) => H(Wait(r)) /\ H(Wait(Break(SendHead(r, 200))))
      /\ H(Abort(Break(SendHead(r, 200))))
      /\ ~IsFinal(step) => H(Continue(r)) /\ H(Continue(SendHead(r, 103)))
    BY WaysToEnd
<1>2. fate \in {"whole", "cut", "open"}
    BY DEF BodyFate
<1> SUFFICES H(HandleStep(step, fate, r))
    OBVIOUS
<1> HIDE DEF H
<1> USE DEF IsFinal, WaitsFor
<1>3. CASE step.type \in {"simple", "file", "close-connection", "reset-connection"}
    BY <1>1, <1>3 DEF HandleStep, HandleFile
<1>4. CASE step.type = "callback"
  <2>1. step.how \in {"answers", "throws", "close", "reset", "pseudo-header", "nothing"}
      BY <1>4 DEF Step
  <2>2. H(HandleCallback(step.how, fate, r))
      BY <1>1, <1>2, <1>4, <2>1 DEF HandleCallback, Await
  <2> QED BY <1>4, <2>2 DEF HandleStep
<1>5. CASE step.type = "stream"
  <2>1. /\ step.how \in {"ends", "fails", "destroyed", "ended before", "used before"}
        /\ step = [type |-> "stream", how |-> step.how]
      BY <1>5 DEF Step
  <2>2. H(HandleStream(step.how, r))
      BY <1>1, <1>5, <2>1 DEF HandleStream
  <2> QED BY <1>5, <2>2 DEF HandleStep
<1>6. CASE step.type = "timeout"
    BY <1>1, <1>6 DEF HandleStep
<1>7. CASE step.type = "json-rpc-response"
  <2>1. H(HandleJsonRpc(step.how, fate, r))
      BY <1>1, <1>2, <1>7 DEF HandleJsonRpc
  <2> QED BY <1>7, <2>1 DEF HandleStep
<1>8. CASE step.type \in {"delay", "webhook", "informational-response"}
    BY <1>1, <1>8 DEF HandleStep, HandleWebhook
<1>9. CASE step.type = "wait-for-request-body"
    BY <1>1, <1>2, <1>9 DEF HandleStep, Await
<1>10. step.type \in {"simple", "file", "close-connection", "reset-connection", "callback", "stream",
                      "timeout", "json-rpc-response", "delay", "webhook", "informational-response",
                      "wait-for-request-body"}
    BY DEF Step
<1> QED BY <1>3, <1>4, <1>5, <1>6, <1>7, <1>8, <1>9, <1>10

LEMMA StepTyped ==
    ASSUME NEW step \in Step, NEW fate \in BodyFate, NEW r \in StepResponse
    PROVE  HandleStep(step, fate, r) \in StepResponse
<1> DEFINE H(s) == s \in StepResponse
<1>1. ASSUME NEW status \in {103, 200, 500}
      PROVE  H(SendHead(r, status)) /\ H(End(SendHead(r, status))) /\ H(Break(SendHead(r, status)))
    BY HeadSent, EndedSet, PartialSet
<1>2. ASSUME NEW s \in StepResponse
      PROVE  H(Continue(s)) /\ H(Return(s)) /\ H(Fail(s)) /\ H(Abort(s)) /\ H(Wait(s)) /\ H(CloseSocket(s))
    BY OutcomeSet, ClosedSet DEF StepOutcome, Continue, Return, Fail, Abort, Wait
<1>3. /\ H(Answer(r, 200)) /\ H(Answer(r, 500)) /\ H(Fail(r)) /\ H(Wait(r)) /\ H(Continue(r))
      /\ H(Continue(SendHead(r, 103)))
      /\ H(Wait(Break(SendHead(r, 200)))) /\ H(Abort(Break(SendHead(r, 200)))) /\ H(CloseByRule(r))
    BY <1>1, <1>2 DEF Answer, CloseByRule
<1>4. fate \in {"whole", "cut", "open"}
    BY DEF BodyFate
<1> SUFFICES H(HandleStep(step, fate, r))
    OBVIOUS
<1> HIDE DEF H
<1>5. CASE step.type \in {"simple", "file", "close-connection", "reset-connection", "timeout",
                          "delay", "webhook", "informational-response"}
    BY <1>3, <1>5 DEF HandleStep, HandleFile, HandleWebhook
<1>6. CASE step.type = "callback"
  <2>1. step.how \in {"answers", "throws", "close", "reset", "pseudo-header", "nothing"}
      BY <1>6 DEF Step
  <2>2. H(HandleCallback(step.how, fate, r))
      BY <1>3, <1>4, <2>1 DEF HandleCallback, Await
  <2> QED BY <1>6, <2>2 DEF HandleStep
<1>7. CASE step.type = "stream"
  <2>1. step.how \in {"ends", "fails", "destroyed", "ended before", "used before"}
      BY <1>7 DEF Step
  <2>2. H(HandleStream(step.how, r))
      BY <1>3, <2>1 DEF HandleStream
  <2> QED BY <1>7, <2>2 DEF HandleStep
<1>8. CASE step.type = "json-rpc-response"
    BY <1>3, <1>4, <1>8 DEF HandleStep, HandleJsonRpc
<1>9. CASE step.type = "wait-for-request-body"
    BY <1>3, <1>4, <1>9 DEF HandleStep, Await
<1>10. step.type \in {"simple", "file", "close-connection", "reset-connection", "callback", "stream",
                      "timeout", "json-rpc-response", "delay", "webhook", "informational-response",
                      "wait-for-request-body"}
    BY DEF Step
<1> QED BY <1>5, <1>6, <1>7, <1>8, <1>9, <1>10

HandleNext(steps, fate, r, n) ==
    IF r.outcome # "continue" \/ n \notin DOMAIN steps THEN r
    ELSE HandleStep(steps[n], fate, Ran(r, n))

\* HandleRule is the end of a run of its steps.
LEMMA RunOfRule ==
    ASSUME NEW steps \in Seq(Step), NEW fate \in BodyFate, NEW start \in StepResponse,
           \A step \in Step, r \in StepResponse : HandleStep(step, fate, r) \in StepResponse
    PROVE  \E run \in [0..Len(steps) -> StepResponse] :
               /\ run[0] = start
               /\ \A n \in 1..Len(steps) :
                      run[n] = IF run[n - 1].outcome # "continue" THEN run[n - 1]
                               ELSE HandleStep(steps[n], fate, Ran(run[n - 1], n))
               /\ HandleRule(steps, fate, start) = run[Len(steps)]
<1> DEFINE N == Len(steps)
           D == [x \in StepResponse \X Nat |-> HandleNext(steps, fate, x[1], x[2])]
           IsRun(f) == f = [n \in 0..N |->
                               IF n = 0 THEN start
                               ELSE IF f[n - 1].outcome # "continue" THEN f[n - 1]
                               ELSE HandleStep(steps[n], fate, Ran(f[n - 1], n))]
<1>1. N \in Nat /\ DOMAIN steps = 1..N /\ \A n \in 1..N : steps[n] \in Step
    OBVIOUS
<1>2. \A r \in StepResponse, n \in Nat : Ran(r, n) \in StepResponse
    BY DEF StepResponse, Ran
<1>3. \A r \in StepResponse, n \in Nat : HandleNext(steps, fate, r, n) \in StepResponse
    BY <1>1, <1>2 DEF HandleNext
<1>4. D \in [StepResponse \X Nat -> StepResponse] /\ \A r \in StepResponse, n \in Nat : D[<<r, n>>] = HandleNext(steps, fate, r, n)
    BY <1>3
<1> HIDE DEF D
<1>5. PICK f \in [0..N -> StepResponse] : f[0] = start /\ \A n \in 1..N : f[n] = D[<<f[n - 1], n>>]
  <2>1. \E f \in [0..N -> StepResponse] : Follows(f, D, start, N)
      BY <1>1, <1>4, Recursion
  <2> QED BY <2>1 DEF Follows
<1>6. ASSUME NEW n \in 1..N
      PROVE  f[n] = IF f[n - 1].outcome # "continue" THEN f[n - 1]
                    ELSE HandleStep(steps[n], fate, Ran(f[n - 1], n))
  <2>1. f[n - 1] \in StepResponse /\ n \in Nat /\ n \in DOMAIN steps
      BY <1>1, <1>5
  <2>2. f[n] = HandleNext(steps, fate, f[n - 1], n)
      BY <1>4, <1>5, <2>1
  <2> QED BY <2>1, <2>2, Zenon DEF HandleNext
<1>7. IsRun(f)
    BY <1>1, <1>5, <1>6
<1> DEFINE run == CHOOSE g : IsRun(g)
<1>8. IsRun(run)
    BY <1>7, Zenon
<1>9. HandleRule(steps, fate, start) = run[N]
    BY Zenon DEF HandleRule
<1> HIDE DEF run
<1>10. run = f
  <2> DEFINE T == {k \in Nat : k \in 0..N => run[k] = f[k]}
  <2>1. 0 \in T
      BY <1>1, <1>5, <1>8
  <2>2. ASSUME NEW k \in T
        PROVE  k + 1 \in T
    <3>1. CASE k + 1 \in 0..N
      <4>1. run[k] = f[k] /\ k + 1 \in 1..N /\ (k + 1) - 1 = k /\ k + 1 # 0
          BY <1>1, <3>1
      <4> QED BY <1>6, <1>8, <4>1, <3>1
    <3> QED BY <3>1
  <2> HIDE DEF T
  <2>3. T = Nat
      BY <2>1, <2>2, Induction DEF T
  <2>4. \A k \in 0..N : run[k] = f[k]
      BY <1>1, <2>3 DEF T
  <2> QED BY <1>5, <1>8, <2>4
<1> QED BY <1>5, <1>6, <1>9, <1>10

\* After k steps of a rule, r has gone through all of them or ended with one of them.
Reached(steps, fate, r, k) ==
    \/ GoesOnWith(r, k)
    \/ /\ r.outcome # "continue"
       /\ \E i \in 1..k : Handled(steps[i], fate, i, r)

LEMMA NothingYet == NoResponse \in StepResponse /\ GoesOnWith(NoResponse, 0)
<1>1. <<>> \in Heads /\ DOMAIN <<>> = {}
    BY DEF Heads
<1>2. NoResponse \in StepResponse
    BY <1>1 DEF NoResponse, StepResponse, StepOutcome
<1>3. ~Headed(NoResponse)
    BY <1>1 DEF NoResponse, Headed
<1> QED BY <1>2, <1>3 DEF GoesOnWith, NoResponse

LEMMA NextReached ==
    ASSUME NEW steps \in Seq(Step), NEW fate \in BodyFate, NEW k \in 1..Len(steps),
           NEW r \in StepResponse, r.outcome = "continue", Reached(steps, fate, r, k - 1)
    PROVE  Reached(steps, fate, HandleStep(steps[k], fate, Ran(r, k)), k)
<1> DEFINE s == HandleStep(steps[k], fate, Ran(r, k))
<1>1. k \in Nat /\ steps[k] \in Step /\ k \in 1..k
    OBVIOUS
<1>2. GoesOnWith(r, k - 1)
    BY DEF Reached
<1>3. GoesOnWith(Ran(r, k), k)
  <2>1. /\ Ran(r, k) \in StepResponse /\ Ran(r, k).ran = k /\ Ran(r, k).outcome = r.outcome
        /\ Ran(r, k).ended = r.ended /\ Ran(r, k).closed = r.closed /\ Ran(r, k).partial = r.partial
        /\ (Headed(Ran(r, k)) <=> Headed(r))
      BY <1>1, RanSet
  <2> QED BY <1>2, <2>1 DEF GoesOnWith
<1>4. Handled(steps[k], fate, k, s)
    BY <1>1, <1>3, StepHandles
<1> HIDE DEF s
<1>5. s.outcome = "continue" => GoesOnWith(s, k)
    BY <1>4 DEF Handled
<1>6. Reached(steps, fate, s, k)
    BY <1>1, <1>4, <1>5 DEF Reached
<1> QED BY <1>6 DEF s

LEMMA RuleReached ==
    ASSUME NEW steps \in Seq(Step), NEW fate \in BodyFate
    PROVE  Reached(steps, fate, HandleRule(steps, fate, NoResponse), Len(steps))
<1> DEFINE N == Len(steps)
<1>1. N \in Nat
    OBVIOUS
<1>2. PICK run \in [0..N -> StepResponse] :
          /\ run[0] = NoResponse
          /\ \A n \in 1..N :
                 run[n] = IF run[n - 1].outcome # "continue" THEN run[n - 1]
                          ELSE HandleStep(steps[n], fate, Ran(run[n - 1], n))
          /\ HandleRule(steps, fate, NoResponse) = run[N]
    BY RunOfRule, StepTyped, NothingYet
<1> DEFINE T == {k \in Nat : k \in 0..N => Reached(steps, fate, run[k], k)}
<1>3. 0 \in T
    BY <1>2, NothingYet DEF Reached
<1>4. ASSUME NEW k \in T
      PROVE  k + 1 \in T
  <2>1. CASE k + 1 \in 0..N
    <3>1. k \in 0..N /\ k + 1 \in 1..N /\ (k + 1) - 1 = k /\ run[k] \in StepResponse
        BY <1>1, <1>2, <2>1
    <3>2. Reached(steps, fate, run[k], k)
        BY <3>1
    <3>3. CASE run[k].outcome = "continue"
      <4>1. run[k + 1] = HandleStep(steps[k + 1], fate, Ran(run[k], k + 1))
          BY <1>2, <3>1, <3>3
      <4> QED BY <3>1, <3>2, <3>3, <4>1, NextReached
    <3>4. CASE run[k].outcome # "continue"
      <4>1. run[k + 1] = run[k]
          BY <1>2, <3>1, <3>4
      <4>2. PICK i \in 1..k : Handled(steps[i], fate, i, run[k])
          BY <3>2, <3>4 DEF Reached, GoesOnWith
      <4>3. i \in 1..(k + 1)
          BY <3>1
      <4> QED BY <3>4, <4>1, <4>2, <4>3 DEF Reached
    <3> QED BY <3>3, <3>4
  <2> QED BY <2>1
<1> HIDE DEF T
<1>5. T = Nat
    BY <1>3, <1>4, Induction DEF T
<1>6. Reached(steps, fate, run[N], N)
    BY <1>1, <1>5 DEF T
<1> QED BY <1>2, <1>6

\* What is left to say when the steps are done.
LEMMA ErrorTold ==
    ASSUME NEW r \in StepResponse, OneHead(r), ~r.partial
    PROVE  LET final == TellError(r)
           IN  /\ OneHead(final) /\ EndsWhole(final) /\ final.outcome = "responded"
               /\ ~Headed(r) => final.heads[Len(final.heads)] = 500
<1> DEFINE told == IF Headed(r) THEN r ELSE SendHead(r, 500)
           ended == End(told)
           final == With(ended, "responded")
<1>1. told \in StepResponse /\ OneHead(told) /\ Headed(told) /\ ~told.partial
  <2>1. CASE Headed(r)
      BY <2>1
  <2>2. CASE ~Headed(r)
      BY <2>2, HeadSent DEF IsFinalHead
  <2> QED BY <2>1, <2>2
<1>2. ~Headed(r) => told.heads[Len(told.heads)] = 500
    BY HeadSent
<1> HIDE DEF told
<1>3. /\ ended \in StepResponse /\ OneHead(ended) /\ Headed(ended) /\ ~ended.partial
      /\ ended.heads = told.heads
    BY <1>1, EndedSet
<1> HIDE DEF ended
<1>4. /\ final \in StepResponse /\ OneHead(final) /\ Headed(final) /\ ~final.partial
      /\ final.heads = told.heads /\ final.outcome = "responded"
    BY <1>3, OutcomeSet DEF StepOutcome
<1> HIDE DEF final
<1>5. EndsWhole(final)
    BY <1>4 DEF EndsWhole
<1>6. TellError(r) = final
    BY DEF TellError, final, ended, told
<1> QED BY <1>2, <1>4, <1>5, <1>6

\* What is expected of a request whose rule has these steps.
Lawful(steps, fate, r) ==
    /\ OneHead(Settled(r)) /\ EndsWhole(Settled(r)) /\ ErrorsTold(steps, r, Settled(r))
    /\ AllRun(steps, fate, r)
    /\ Settled(r).outcome \in {"responded", "aborted", "waits"}

LEMMA GoneThrough ==
    ASSUME NEW steps, NEW fate, NEW r, GoesOnWith(r, Len(steps))
    PROVE  Lawful(steps, fate, r)
<1>1. /\ r \in StepResponse /\ r.outcome = "continue" /\ r.ran = Len(steps)
      /\ ~r.ended /\ ~r.partial /\ ~Headed(r) /\ OneHead(r)
    BY NoneIsOne DEF GoesOnWith
<1>2. Settled(r) = TellError(r)
    BY <1>1 DEF Settled
<1>3. AllRun(steps, fate, r)
    BY <1>1 DEF AllRun
<1> QED BY <1>1, <1>2, <1>3, ErrorTold DEF Lawful, ErrorsTold

LEMMA EndedWith ==
    ASSUME NEW steps, IsRule(steps), NEW fate, NEW i \in DOMAIN steps, NEW r,
           r.outcome # "continue", Handled(steps[i], fate, i, r)
    PROVE  Lawful(steps, fate, r)
<1>1. r \in StepResponse /\ OneHead(r) /\ r.ran = i
    BY DEF Handled
<1>2. r.outcome \in {"returned", "error", "abort", "waits"}
    BY DEF Handled
<1>3. CASE r.outcome = "returned"
  <2>1. IsFinal(steps[i]) /\ r.ended /\ Headed(r) /\ ~r.partial
      BY <1>3 DEF Handled
  <2>2. i = Len(steps)
      BY <2>1 DEF IsRule
  <2>3. Settled(r) = With(r, "responded")
      BY <1>3, <2>1 DEF Settled
  <2>4. /\ OneHead(With(r, "responded")) /\ EndsWhole(With(r, "responded"))
        /\ With(r, "responded").outcome = "responded"
      BY <1>1, <2>1, OutcomeSet DEF StepOutcome, EndsWhole
  <2> QED BY <1>1, <1>3, <2>1, <2>2, <2>3, <2>4 DEF Lawful, ErrorsTold, AllRun
<1>4. CASE r.outcome = "error"
  <2>1. ~r.ended /\ ~r.partial /\ ~Headed(r)
      BY <1>4 DEF Handled
  <2>2. Settled(r) = TellError(r)
      BY <1>4 DEF Settled
  <2> QED BY <1>1, <1>4, <2>1, <2>2, ErrorTold DEF Lawful, ErrorsTold, AllRun
<1>5. CASE r.outcome = "abort"
  <2>1. ~r.ended
      BY <1>5 DEF Handled
  <2> DEFINE s == CloseSocket(r)
             t == With(s, "aborted")
  <2>2. s \in StepResponse /\ OneHead(s) /\ ~s.ended
      BY <1>1, <2>1, ClosedSet
  <2> HIDE DEF s
  <2>3. OneHead(t) /\ ~t.ended /\ t.outcome = "aborted"
      BY <2>2, OutcomeSet DEF StepOutcome
  <2>4. Settled(r) = t
      BY <1>5 DEF Settled, t, s
  <2> HIDE DEF t
  <2> QED BY <1>1, <1>5, <2>3, <2>4 DEF Lawful, ErrorsTold, AllRun, EndsWhole
<1>6. CASE r.outcome = "waits"
  <2>1. ~r.ended /\ WaitsFor(steps[i], fate)
      BY <1>6 DEF Handled
  <2>2. Settled(r) = r
      BY <1>6 DEF Settled
  <2> QED BY <1>1, <1>6, <2>1, <2>2 DEF Lawful, ErrorsTold, AllRun, EndsWhole, WaitsFor
<1> QED BY <1>2, <1>3, <1>4, <1>5, <1>6

LEMMA SomeRuleStepsAre ==
    ASSUME NEW steps \in SomeRuleSteps
    PROVE  steps \in Seq(Step) /\ IsRule(steps) /\ DOMAIN steps = 1..Len(steps) /\ Len(steps) \in Nat
<1>1. PICK n \in 1..MaxSteps : steps \in [1..n -> Step]
    BY DEF SomeRuleSteps
<1>2. n \in Nat
    BY <1>1, MaxStepsAssumption
<1> QED BY <1>1, <1>2 DEF SomeRuleSteps

LEMMA UnmatchedLaw == UnmatchedAnswered
<1> SUFFICES ASSUME NEW fate \in BodyFate
             PROVE  LET final == Settled(SendUnmatched(fate, NoResponse)) IN
                    final.heads = <<503>> /\ OneHead(final) /\ (final.ended <=> fate # "open")
    BY DEF UnmatchedAnswered
<1> DEFINE sent == SendHead(NoResponse, 503)
           ended == End(sent)
<1>1. /\ sent \in StepResponse /\ OneHead(sent) /\ Headed(sent) /\ ~sent.ended
      /\ sent.heads = <<503>>
  <2>1. NoResponse \in StepResponse /\ ~Headed(NoResponse) /\ ~NoResponse.ended
      BY NothingYet DEF GoesOnWith
  <2>2. sent.heads = <<503>>
      BY DEF SendHead, NoResponse
  <2> QED BY <2>1, <2>2, HeadSent DEF IsFinalHead
<1> HIDE DEF sent
<1>2. /\ ended \in StepResponse /\ OneHead(ended) /\ Headed(ended) /\ ended.ended
      /\ ended.heads = <<503>>
    BY <1>1, EndedSet
<1> HIDE DEF ended
<1>3. CASE fate = "whole"
  <2> DEFINE r == With(ended, "returned")
  <2>1. r \in StepResponse /\ OneHead(r) /\ r.ended /\ r.heads = <<503>> /\ r.outcome = "returned"
      BY <1>2, OutcomeSet DEF StepOutcome
  <2>2. SendUnmatched(fate, NoResponse) = r
      BY <1>3 DEF SendUnmatched, Await, Return, ended, sent
  <2> HIDE DEF r
  <2>3. Settled(r) = With(r, "responded")
      BY <2>1 DEF Settled
  <2>4. OneHead(With(r, "responded")) /\ With(r, "responded").ended /\ With(r, "responded").heads = <<503>>
      BY <2>1, OutcomeSet DEF StepOutcome
  <2> QED BY <1>3, <2>2, <2>3, <2>4
<1>4. CASE fate = "cut"
  <2> DEFINE r == With(sent, "error")
             s == End(r)
             t == With(s, "responded")
  <2>1. r \in StepResponse /\ OneHead(r) /\ Headed(r) /\ r.heads = <<503>> /\ r.outcome = "error"
      BY <1>1, OutcomeSet DEF StepOutcome
  <2>2. SendUnmatched(fate, NoResponse) = r
      BY <1>4 DEF SendUnmatched, Await, Fail, sent
  <2> HIDE DEF r
  <2>3. s \in StepResponse /\ OneHead(s) /\ s.heads = <<503>> /\ s.ended
      BY <2>1, EndedSet
  <2>4. Settled(r) = With(s, "responded")
      BY <2>1 DEF Settled, TellError
  <2> HIDE DEF s
  <2>5. OneHead(t) /\ t.heads = <<503>> /\ t.ended
      BY <2>3, OutcomeSet DEF StepOutcome
  <2> QED BY <1>4, <2>2, <2>4, <2>5
<1>5. CASE fate = "open"
  <2> DEFINE r == With(sent, "waits")
  <2>1. OneHead(r) /\ r.heads = <<503>> /\ r.outcome = "waits" /\ ~r.ended
      BY <1>1, OutcomeSet DEF StepOutcome
  <2>2. SendUnmatched(fate, NoResponse) = r
      BY <1>5 DEF SendUnmatched, Await, Wait, sent
  <2> HIDE DEF r
  <2>3. Settled(r) = r
      BY <2>1 DEF Settled
  <2> QED BY <1>5, <2>1, <2>2, <2>3
<1> QED BY <1>3, <1>4, <1>5 DEF BodyFate

(***************************************************************************)
(* However many steps a rule has, and whatever becomes of the body of the  *)
(* request, it gets one final status at most, nothing incomplete that looks*)
(* whole, a status for each failure, and no step is skipped silently.      *)
(***************************************************************************)
THEOREM RequestStepsAnswerOnce == Spec => []StepsAnswerOnce
<1>1. ASSUME NEW steps \in SomeRuleSteps, NEW fate \in BodyFate
      PROVE  Lawful(steps, fate, HandleRule(steps, fate, NoResponse))
  <2> DEFINE r == HandleRule(steps, fate, NoResponse)
  <2>1. steps \in Seq(Step) /\ IsRule(steps) /\ DOMAIN steps = 1..Len(steps)
      BY SomeRuleStepsAre
  <2>2. Reached(steps, fate, r, Len(steps))
      BY <2>1, RuleReached
  <2> HIDE DEF r
  <2>3. CASE GoesOnWith(r, Len(steps))
      BY <2>3, GoneThrough DEF r
  <2>4. CASE r.outcome # "continue" /\ \E i \in 1..Len(steps) : Handled(steps[i], fate, i, r)
      BY <2>1, <2>4, EndedWith DEF r
  <2> QED BY <2>2, <2>3, <2>4 DEF Reached
<1>2. RulesAnswerOnce
    BY <1>1 DEF RulesAnswerOnce, Lawful
<1>3. StepsAnswerOnce
    BY <1>2, UnmatchedLaw DEF StepsAnswerOnce, StepLaws
<1> QED BY <1>3, PTL

=============================================================================
