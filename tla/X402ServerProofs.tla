-------------------------- MODULE X402ServerProofs --------------------------
(***************************************************************************)
(* Proofs about X402Server for any number of exchanges, any requests they  *)
(* may carry and any body limit: types, at most one response per exchange, *)
(* nobody is charged who was answered before, and one payment buys one     *)
(* resource.                                                               *)
(***************************************************************************)
EXTENDS X402Server, TLAPS

\* Nothing was answered, by the processor or past it, and the body fits.
Unanswered(x) ==
  replies[x] = <<>> /\ ~internalErrorSent[x] /\ state[x] = "START" /\ size[x] <= MaxBodySize

\* Where an answer can have been given.  state_ alone does not tell, because
\* sendInternalError leaves it alone: this is what AtMostOneResponse rests on.
Silence ==
  \A x \in Exchange :
    /\ pc[x] \in {"idle", "facilitating", "forwarding", "paying", "fetching"} => Unanswered(x)
    /\ pc[x] = "receiving" /\ replies[x] # <<>> => IsReplySent(x) \/ internalErrorSent[x]
    /\ size[x] > MaxBodySize => IsReplySent(x)

HasReceipt(x) == \E i \in DOMAIN replies[x] : replies[x][i].receipt = "success"

\* Grants are of payments, each payment is granted once, and nothing is fetched
\* or handed out without one.
Grants ==
  /\ \A x \in granted : request[x].payment \in settled
  /\ \A x, y \in granted : request[x].payment = request[y].payment => x = y
  /\ \A x \in Exchange : /\ pc[x] = "paying" => request[x].payment # NoPayment
                         /\ pc[x] = "fetching" \/ HasReceipt(x) => x \in granted

\* The inductive invariant.
IInv ==
  /\ TypeOK
  /\ Silence
  /\ AtMostOneResponse
  /\ Grants

\* The sequences that occur: empty and of length one.
LEMMA ShortSequences ==
  /\ Len(<<>>) = 0 /\ DOMAIN <<>> = {}
  /\ \A o : Len(<<o>>) = 1 /\ DOMAIN <<o>> = {1} /\ <<o>>[1] = o
OBVIOUS

USE DEF Goto, IsReplySent, ReplyError, NoReply, reply402PaymentRequired

Output == [status : Status, receipt : Receipt]

\* A response to an exchange that has none.
LEMMA SendEffect ==
  ASSUME TypeOK, NEW x \in Exchange, replies[x] = <<>>,
         NEW s \in Status, NEW rc \in Receipt, Send(x, s, rc)
  PROVE  /\ replies' = [replies EXCEPT ![x] = <<[status |-> s, receipt |-> rc]>>]
         /\ <<[status |-> s, receipt |-> rc]>> \in Seq(Output)
BY DEF Send, Output, TypeOK

\* What one step may do to the answer of exchange x: nothing, or a first response
\* with one of the given receipts.
Answers(x, receipts) ==
  \/ replies' = replies
  \/ \E s \in Status, rc \in receipts :
       /\ replies' = [replies EXCEPT ![x] = <<[status |-> s, receipt |-> rc]>>]
       /\ <<[status |-> s, receipt |-> rc]>> \in Seq(Output)

\* A reply function called for an unanswered exchange.
LEMMA ReplyEffect ==
  ASSUME TypeOK, NEW x \in Exchange, replies[x] = <<>>,
         NEW s \in Status, NEW rc \in Receipt, NEW next, Reply(x, s, rc, next)
  PROVE  Answers(x, {rc}) /\ state' = [state EXCEPT ![x] = next]
BY SendEffect DEF Reply, SendOrThrow, Answers

\* What a response is like after the step, for the type and for the receipts.
LEMMA AnswersEffect ==
  ASSUME TypeOK, NEW x \in Exchange, NEW receipts \in SUBSET Receipt,
         replies[x] = <<>>, Answers(x, receipts)
  PROVE  /\ replies' \in [Exchange -> Seq(Output)]
         /\ \A y \in Exchange \ {x} : replies'[y] = replies[y]
         /\ Len(replies'[x]) <= 1
         /\ HasReceipt(x)' => "success" \in receipts
<1>1. CASE replies' = replies
  <2>1. Len(replies'[x]) = 0 /\ DOMAIN (replies'[x]) = {}
    BY <1>1, ShortSequences
  <2>2. ~HasReceipt(x)'
    BY <2>1 DEF HasReceipt
  <2>3. replies' \in [Exchange -> Seq(Output)]
    BY <1>1 DEF TypeOK, Output
  <2>4. QED
    BY <1>1, <2>1, <2>2, <2>3
<1>2. ASSUME NEW s \in Status, NEW rc \in receipts,
             replies' = [replies EXCEPT ![x] = <<[status |-> s, receipt |-> rc]>>],
             <<[status |-> s, receipt |-> rc]>> \in Seq(Output)
      PROVE  /\ replies' \in [Exchange -> Seq(Output)]
             /\ \A y \in Exchange \ {x} : replies'[y] = replies[y]
             /\ Len(replies'[x]) <= 1
             /\ HasReceipt(x)' => "success" \in receipts
  <2>1. replies'[x] = <<[status |-> s, receipt |-> rc]>>
    BY <1>2 DEF TypeOK
  <2>2. Len(replies'[x]) = 1 /\ DOMAIN (replies'[x]) = {1} /\ replies'[x][1].receipt = rc
    BY <2>1, ShortSequences
  <2>3. HasReceipt(x)' => "success" \in receipts
    BY <2>2 DEF HasReceipt
  <2>4. /\ replies' \in [Exchange -> Seq(Output)]
        /\ \A y \in Exchange \ {x} : replies'[y] = replies[y]
    BY <1>2 DEF TypeOK, Output
  <2>5. QED
    BY <2>2, <2>3, <2>4
<1>3. QED
  BY <1>1, <1>2 DEF Answers

\* A step of one exchange that answers it at most once, where it may, leaves the
\* invariant to the other exchanges.
LEMMA OneExchange ==
  ASSUME IInv, TypeOK', NEW x \in Exchange, request' = request,
         \A y \in Exchange \ {x} :
           /\ pc'[y] = pc[y] /\ replies'[y] = replies[y] /\ state'[y] = state[y]
           /\ size'[y] = size[y] /\ internalErrorSent'[y] = internalErrorSent[y],
         pc'[x] \in {"idle", "facilitating", "forwarding", "paying", "fetching"} => Unanswered(x)',
         pc'[x] = "receiving" /\ replies'[x] # <<>> => IsReplySent(x)' \/ internalErrorSent'[x],
         size'[x] > MaxBodySize => IsReplySent(x)',
         Len(replies'[x]) <= 1,
         pc'[x] = "paying" => request[x].payment # NoPayment,
         pc'[x] = "fetching" \/ HasReceipt(x)' => x \in granted,
         granted' = granted, settled' = settled
  PROVE  IInv'
<1>1. Silence'
  BY DEF IInv, Silence, Unanswered
<1>2. AtMostOneResponse'
  BY DEF IInv, AtMostOneResponse
<1>3. Grants'
  BY DEF IInv, Grants, HasReceipt
<1>4. QED
  BY <1>1, <1>2, <1>3 DEF IInv

\* The end of onEOM: what was unanswered is answered now, or never.
LEMMA Finishes ==
  ASSUME IInv, NEW x \in Exchange, NEW receipts \in SUBSET Receipt, Answers(x, receipts),
         replies[x] = <<>>, size[x] <= MaxBodySize,
         pc' = [pc EXCEPT ![x] = "returned"],
         NEW st \in {"START", "ERROR_SENT", "REPLY_SENT"}, state' = [state EXCEPT ![x] = st],
         "success" \in receipts => x \in granted,
         UNCHANGED <<request, connection, responseSender, internalErrorSent, size, chunks,
                     settled, granted, terminated>>
  PROVE  IInv'
<1>1. /\ replies' \in [Exchange -> Seq(Output)]
      /\ \A y \in Exchange \ {x} : replies'[y] = replies[y]
      /\ Len(replies'[x]) <= 1
      /\ HasReceipt(x)' => "success" \in receipts
  BY AnswersEffect DEF IInv
<1>2. TypeOK'
  BY <1>1 DEF IInv, TypeOK, PC, Output
<1>3. /\ \A y \in Exchange \ {x} : pc'[y] = pc[y] /\ state'[y] = state[y]
      /\ pc'[x] = "returned"
      /\ size'[x] <= MaxBodySize
  BY DEF IInv, TypeOK
<1>4. ~(size'[x] > MaxBodySize)
  BY <1>2, <1>3, SizeAssumption DEF TypeOK
<1>5. QED
  BY <1>1, <1>2, <1>3, <1>4, OneExchange

\* The callbacks that answer before the body is complete.
LEMMA EarlyStep ==
  ASSUME IInv, NEW x \in Exchange, OnRequest(x) \/ OnRequestThrows(x) \/ OnBody(x)
  PROVE  IInv'
<1> USE DEF IInv
<1>1. "none" \in Receipt /\ "error" \in Status
  BY DEF Receipt, Status
<1>2. CASE OnRequest(x)
  <2>1. replies[x] = <<>> /\ ~internalErrorSent[x] /\ state[x] = "START" /\ size[x] <= MaxBodySize
    BY <1>2 DEF OnRequest, Silence, Unanswered
  <2>2. /\ Answers(x, {"none"})
        /\ \/ replies' = replies /\ state' = state
           \/ state' = [state EXCEPT ![x] = "ERROR_SENT"]
    BY <1>1, <1>2, <2>1, SendEffect DEF OnRequest, onRequestStart, SendOrThrow, Answers
  <2>3. /\ replies' \in [Exchange -> Seq(Output)]
        /\ \A y \in Exchange \ {x} : replies'[y] = replies[y]
        /\ Len(replies'[x]) <= 1
        /\ ~HasReceipt(x)'
    BY <1>1, <2>1, <2>2, AnswersEffect
  <2>4. TypeOK'
    BY <1>2, <2>2, <2>3 DEF OnRequest, TypeOK, PC, Output
  <2>5. /\ \A y \in Exchange \ {x} : pc'[y] = pc[y] /\ state'[y] = state[y]
        /\ pc'[x] = "receiving"
        /\ replies'[x] # <<>> => IsReplySent(x)'
    BY <1>2, <2>1, <2>2 DEF OnRequest, TypeOK
  <2>6. /\ ~(size'[x] > MaxBodySize)
        /\ UNCHANGED <<request, size, internalErrorSent, settled, granted>>
    BY <1>2, <2>1, SizeAssumption DEF OnRequest, TypeOK
  <2>7. QED
    BY <2>3, <2>4, <2>5, <2>6, OneExchange
<1>3. CASE OnRequestThrows(x)
  <2>1. replies[x] = <<>> /\ ~internalErrorSent[x] /\ state[x] = "START" /\ size[x] <= MaxBodySize
    BY <1>3 DEF OnRequestThrows, Silence, Unanswered
  <2>2. Answers(x, {"none"})
    BY <1>1, <1>3, <2>1, SendEffect DEF OnRequestThrows, Answers
  <2>3. /\ replies' \in [Exchange -> Seq(Output)]
        /\ \A y \in Exchange \ {x} : replies'[y] = replies[y]
        /\ Len(replies'[x]) <= 1
        /\ ~HasReceipt(x)'
    BY <1>1, <2>1, <2>2, AnswersEffect
  <2>4. TypeOK'
    BY <1>3, <2>3 DEF OnRequestThrows, TypeOK, PC, Output
  <2>5. /\ \A y \in Exchange \ {x} : pc'[y] = pc[y] /\ internalErrorSent'[y] = internalErrorSent[y]
        /\ pc'[x] = "receiving" /\ internalErrorSent'[x]
    BY <1>3, <2>1 DEF OnRequestThrows, TypeOK
  <2>6. /\ ~(size'[x] > MaxBodySize)
        /\ UNCHANGED <<request, size, state, settled, granted>>
    BY <1>3, <2>1, SizeAssumption DEF OnRequestThrows, TypeOK
  <2>7. QED
    BY <2>3, <2>4, <2>5, <2>6, OneExchange
<1>b. ASSUME OnBody(x)
      PROVE  /\ pc' = [pc EXCEPT ![x] = "receiving"]
             /\ chunks' \in [Exchange -> 0..MaxChunks]
             /\ UNCHANGED <<request, connection, responseSender, settled, granted, terminated>>
  <2>1. chunks[x] + 1 \in 0..MaxChunks
    BY <1>b, SizeAssumption DEF OnBody, TypeOK
  <2>2. QED
    BY <1>b, <2>1 DEF OnBody, TypeOK
<1>4. ASSUME OnBody(x), NoReply, UNCHANGED <<size, internalErrorSent>>,
             internalErrorSent[x] \/ IsReplySent(x)
      PROVE  IInv'
  <2>1. TypeOK'
    BY <1>4, <1>b DEF TypeOK, PC
  <2>2. /\ \A y \in Exchange \ {x} : pc'[y] = pc[y]
        /\ pc'[x] = "receiving"
        /\ size[x] > MaxBodySize => IsReplySent(x)
        /\ Len(replies[x]) <= 1
        /\ HasReceipt(x) => x \in granted
    BY <1>4 DEF OnBody, TypeOK, Silence, AtMostOneResponse, Grants
  <2>3. UNCHANGED <<request, size, state, internalErrorSent, replies, settled, granted>>
    BY <1>4 DEF OnBody
  <2>4. IsReplySent(x)' = IsReplySent(x) /\ HasReceipt(x)' = HasReceipt(x)
    BY <2>3 DEF HasReceipt
  <2>5. QED
    BY <1>4, <2>1, <2>2, <2>3, <2>4, OneExchange
<1>5. ASSUME OnBody(x), ~internalErrorSent[x], ~IsReplySent(x),
             size' = [size EXCEPT ![x] = @ + 1], onBodySizeIncrease(x), UNCHANGED internalErrorSent
      PROVE  IInv'
  <2>1. replies[x] = <<>> /\ size[x] \in 0..MaxBodySize
    BY <1>5, SizeAssumption DEF OnBody, Silence, TypeOK
  <2>s. size' \in [Exchange -> 0..MaxBodySize + 1]
    <3>1. size[x] + 1 \in 0..MaxBodySize + 1
      BY <2>1, SizeAssumption
    <3>2. QED
      BY <1>5, <3>1 DEF TypeOK
  <2>2. CASE size[x] + 1 > MaxBodySize
    <3>1. /\ Answers(x, {"none"})
          /\ state' = [state EXCEPT ![x] = "ERROR_SENT"]
      BY <1>1, <1>5, <2>1, <2>2, ReplyEffect DEF onBodySizeIncrease
    <3>2. /\ replies' \in [Exchange -> Seq(Output)]
          /\ \A y \in Exchange \ {x} : replies'[y] = replies[y]
          /\ Len(replies'[x]) <= 1
          /\ ~HasReceipt(x)'
      BY <1>1, <2>1, <3>1, AnswersEffect
    <3>3. TypeOK'
      BY <1>5, <1>b, <2>s, <3>1, <3>2 DEF TypeOK, PC, Output
    <3>4. /\ \A y \in Exchange \ {x} : pc'[y] = pc[y] /\ size'[y] = size[y] /\ state'[y] = state[y]
          /\ pc'[x] = "receiving" /\ IsReplySent(x)'
          /\ UNCHANGED <<request, internalErrorSent, settled, granted>>
      BY <1>5, <3>1 DEF OnBody, TypeOK
    <3>5. QED
      BY <3>2, <3>3, <3>4, OneExchange
  <2>3. CASE ~(size[x] + 1 > MaxBodySize)
    <3>1. NoReply
      BY <1>5, <2>3 DEF onBodySizeIncrease
    <3>2. TypeOK'
      BY <1>5, <1>b, <2>s, <3>1 DEF TypeOK, PC
    <3>3. /\ \A y \in Exchange \ {x} : pc'[y] = pc[y] /\ size'[y] = size[y]
          /\ pc'[x] = "receiving"
          /\ ~(size'[x] > MaxBodySize)
          /\ UNCHANGED <<request, replies, state, internalErrorSent, settled, granted>>
      BY <1>5, <2>3, <3>1 DEF OnBody, TypeOK
    <3>4. replies'[x] = <<>> /\ Len(replies'[x]) <= 1 /\ ~HasReceipt(x)'
      BY <2>1, <3>3, ShortSequences DEF HasReceipt
    <3>5. QED
      BY <3>2, <3>3, <3>4, OneExchange
  <2>4. QED
    BY <2>2, <2>3
<1>6. ASSUME OnBody(x), ~internalErrorSent[x], ~IsReplySent(x), SendInternalError(x), UNCHANGED size
      PROVE  IInv'
  <2>1. replies[x] = <<>> /\ size[x] <= MaxBodySize
    BY <1>6, SizeAssumption DEF OnBody, Silence, TypeOK
  <2>2. Answers(x, {"none"})
    BY <1>1, <1>6, <2>1, SendEffect DEF SendInternalError, Answers
  <2>3. /\ replies' \in [Exchange -> Seq(Output)]
        /\ \A y \in Exchange \ {x} : replies'[y] = replies[y]
        /\ Len(replies'[x]) <= 1
        /\ ~HasReceipt(x)'
    BY <1>1, <2>1, <2>2, AnswersEffect
  <2>4. TypeOK'
    BY <1>6, <1>b, <2>3 DEF SendInternalError, TypeOK, PC, Output
  <2>5. /\ \A y \in Exchange \ {x} : pc'[y] = pc[y] /\ internalErrorSent'[y] = internalErrorSent[y]
        /\ pc'[x] = "receiving" /\ internalErrorSent'[x]
    BY <1>6 DEF OnBody, SendInternalError, TypeOK
  <2>6. /\ ~(size'[x] > MaxBodySize)
        /\ UNCHANGED <<request, size, state, settled, granted>>
    BY <1>6, <2>1, SizeAssumption DEF OnBody, SendInternalError, TypeOK
  <2>7. QED
    BY <2>3, <2>4, <2>5, <2>6, OneExchange
<1>7. CASE OnBody(x)
  BY <1>4, <1>5, <1>6, <1>7 DEF OnBody
<1>8. QED
  BY <1>2, <1>3, <1>7

\* The body is complete: the exchange is answered, or goes to whom it has to ask.
LEMMA EOMStep ==
  ASSUME IInv, NEW x \in Exchange, OnEOM(x)
  PROVE  IInv'
<1>1. /\ "none" \in Receipt /\ "error" \in Status /\ "402" \in Status
      /\ {"none"} \in SUBSET Receipt
  BY DEF Receipt, Status
<1>2. Unanswered(x)
  BY SizeAssumption DEF IInv, OnEOM, Silence, Unanswered, TypeOK
<1>3. ASSUME Destination(x) = "returned"
      PROVE  IInv'
  <2>1. CASE NoReply
    <3>1. Answers(x, {"none"}) /\ state' = [state EXCEPT ![x] = "START"]
      BY <1>2, <2>1 DEF Answers, Unanswered, IInv, TypeOK
    <3>2. QED
      BY <1>1, <1>2, <1>3, <3>1, Finishes DEF OnEOM, Unanswered
  <2>2. CASE ReplyError(x)
    <3>1. Answers(x, {"none"}) /\ state' = [state EXCEPT ![x] = "ERROR_SENT"]
      BY <1>1, <1>2, <2>2, ReplyEffect DEF Unanswered, IInv
    <3>2. QED
      BY <1>1, <1>2, <1>3, <3>1, Finishes DEF OnEOM, Unanswered
  <2>3. CASE reply402PaymentRequired(x, "none")
    <3>1. Answers(x, {"none"}) /\ state' = [state EXCEPT ![x] = "REPLY_SENT"]
      BY <1>1, <1>2, <2>3, ReplyEffect DEF Unanswered, IInv
    <3>2. QED
      BY <1>1, <1>2, <1>3, <3>1, Finishes DEF OnEOM, Unanswered
  <2>4. QED
    BY <1>3, <2>1, <2>2, <2>3 DEF OnEOM, Answer
<1>4. ASSUME Destination(x) # "returned"
      PROVE  IInv'
  <2>1. /\ Destination(x) \in {"facilitating", "forwarding", "paying"}
        /\ Destination(x) = "paying" => request[x].payment # NoPayment
    BY <1>4 DEF Destination
  <2>2. /\ pc' = [pc EXCEPT ![x] = Destination(x)]
        /\ UNCHANGED <<request, connection, responseSender, internalErrorSent, state, size,
                        chunks, replies, settled, granted, terminated>>
    BY <1>4 DEF OnEOM
  <2> HIDE DEF Destination
  <2>3. TypeOK'
    BY <2>1, <2>2 DEF IInv, TypeOK, PC
  <2>4. /\ \A y \in Exchange \ {x} : pc'[y] = pc[y]
        /\ pc'[x] = Destination(x)
    BY <2>1, <2>2 DEF IInv, TypeOK
  <2>5. /\ replies'[x] = <<>> /\ size'[x] <= MaxBodySize /\ Unanswered(x)'
        /\ ~(size'[x] > MaxBodySize)
    BY <1>2, <2>2, SizeAssumption DEF Unanswered, IInv, TypeOK
  <2>6. Len(replies'[x]) <= 1 /\ ~HasReceipt(x)'
    BY <2>5, ShortSequences DEF HasReceipt
  <2>7. QED
    BY <2>1, <2>2, <2>3, <2>4, <2>5, <2>6, OneExchange
<1>5. QED
  BY <1>3, <1>4

\* What the facilitator, the payment manager and the backends return is the one
\* answer of the exchange.
LEMMA ReplyStep ==
  ASSUME IInv, NEW x \in Exchange,
         \/ FacilitatorReplies(x) \/ SettlementError(x)
         \/ BackendReplies(x) \/ PassThroughReplies(x)
  PROVE  IInv'
<1>1. /\ pc[x] \in {"facilitating", "forwarding", "paying", "fetching"}
      /\ pc' = [pc EXCEPT ![x] = "returned"]
      /\ UNCHANGED <<request, connection, responseSender, internalErrorSent, size, chunks,
                      settled, granted, terminated>>
  BY DEF FacilitatorReplies, SettlementError, BackendReplies, PassThroughReplies
<1>2. replies[x] = <<>> /\ size[x] <= MaxBodySize
  BY <1>1 DEF IInv, Silence, Unanswered
<1>3. ASSUME NEW s \in Status, NEW rc \in Receipt, NEW st \in {"ERROR_SENT", "REPLY_SENT"},
             Reply(x, s, rc, st), rc = "success" => x \in granted
      PROVE  IInv'
  <2>1. Answers(x, {rc}) /\ state' = [state EXCEPT ![x] = st]
    BY <1>2, <1>3, ReplyEffect DEF IInv
  <2>2. {rc} \in SUBSET Receipt /\ ("success" \in {rc} => x \in granted)
    BY <1>3
  <2>3. QED
    BY <1>1, <1>2, <1>3, <2>1, <2>2, Finishes
<1>4. \E s \in Status, rc \in Receipt, st \in {"ERROR_SENT", "REPLY_SENT"} :
        Reply(x, s, rc, st) /\ (rc = "success" => pc[x] = "fetching")
  <2> USE DEF Status, Receipt
  <2>1. CASE FacilitatorReplies(x)
    BY <2>1 DEF FacilitatorReplies
  <2>2. CASE SettlementError(x)
    BY <2>2 DEF SettlementError
  <2>3. CASE BackendReplies(x)
    BY <2>3 DEF BackendReplies, replyPassThroughError, replyX402ResourceSuccess
  <2>4. CASE PassThroughReplies(x)
    BY <2>4 DEF PassThroughReplies, replyPassThroughError
  <2>5. QED
    BY <2>1, <2>2, <2>3, <2>4
<1>5. pc[x] = "fetching" => x \in granted
  BY DEF IInv, Grants
<1>6. QED
  BY <1>3, <1>4, <1>5

\* The payment manager grants the payment: it was not granted before.
LEMMA GrantStep ==
  ASSUME IInv, NEW x \in Exchange, Granted(x)
  PROVE  IInv'
<1>1. TypeOK'
  BY DEF IInv, TypeOK, PC, Granted, Grants
<1>2. Silence'
  BY DEF IInv, TypeOK, Granted, Silence, Unanswered
<1>3. AtMostOneResponse'
  BY DEF IInv, Granted, AtMostOneResponse
<1>4. Grants'
  BY DEF IInv, TypeOK, Granted, Grants, HasReceipt
<1>5. QED
  BY <1>1, <1>2, <1>3, <1>4 DEF IInv

\* The steps that answer nothing.
LEMMA SilentStep ==
  ASSUME IInv, NEW x \in Exchange,
         \/ OnEOMIgnored(x) \/ Abandon(x) \/ IdleTimeout(x)
         \/ OnError(x) \/ RequestComplete(x)
  PROVE  IInv'
<1> USE DEF OnEOMIgnored, Abandon, IdleTimeout, OnError, RequestComplete, Close
<1>1. /\ pc' = pc \/ pc' = [pc EXCEPT ![x] = "returned"] \/ pc' = [pc EXCEPT ![x] = "gone"]
      /\ connection' = connection
         \/ connection' = [connection EXCEPT ![x] = "closed"]
      /\ terminated' = terminated \/ terminated' = ~responseSender[x]
      /\ UNCHANGED <<request, responseSender, internalErrorSent, state, size, chunks, replies,
                      settled, granted>>
  OBVIOUS
<1>2. TypeOK'
  BY <1>1 DEF IInv, TypeOK, PC
<1>3. Silence'
  BY <1>1 DEF IInv, TypeOK, Silence, Unanswered
<1>4. AtMostOneResponse'
  BY <1>1 DEF IInv, AtMostOneResponse
<1>5. Grants'
  BY <1>1 DEF IInv, TypeOK, Grants, HasReceipt
<1>6. QED
  BY <1>2, <1>3, <1>4, <1>5 DEF IInv

\* The inductive invariant holds in every reachable state.
LEMMA Invariance == Spec => []IInv
<1>1. Init => IInv
  <2> SUFFICES ASSUME Init PROVE IInv
    OBVIOUS
  <2>1. TypeOK
    <3>1. replies \in [Exchange -> Seq([status : Status, receipt : Receipt])]
      BY DEF Init
    <3>2. 0 \in 0..MaxBodySize + 1 /\ 0 \in 0..MaxChunks
      BY SizeAssumption
    <3>3. QED
      BY <3>1, <3>2 DEF Init, TypeOK, PC
  <2>2. Silence /\ AtMostOneResponse
    BY SizeAssumption, ShortSequences DEF Init, Silence, Unanswered, AtMostOneResponse
  <2>3. Grants
    BY ShortSequences DEF Init, Grants, HasReceipt
  <2>4. QED
    BY <2>1, <2>2, <2>3 DEF IInv
<1>2. IInv /\ [Next]_vars => IInv'
  <2> SUFFICES ASSUME IInv, [Next]_vars PROVE IInv'
    OBVIOUS
  <2>1. CASE Quiescent \/ UNCHANGED vars
    BY <2>1 DEF Quiescent, vars, IInv, TypeOK, Silence, Unanswered, AtMostOneResponse, Grants,
                HasReceipt
  <2>2. QED
    BY <2>1, EarlyStep, EOMStep, ReplyStep, GrantStep, SilentStep DEF Next, Serve
<1>3. QED
  BY <1>1, <1>2, PTL DEF Spec

\* Types: bodies never outgrow their limit by more than the chunk that is refused,
\* and only payments that were presented are ever settled.
THEOREM ServerTypes == Spec => []TypeOK
<1>1. IInv => TypeOK
  BY DEF IInv
<1>2. QED
  BY <1>1, Invariance, PTL

\* proxygen is given at most one response per exchange.
THEOREM OneResponse == Spec => []AtMostOneResponse
<1>1. IInv => AtMostOneResponse
  BY DEF IInv
<1>2. QED
  BY <1>1, Invariance, PTL

\* A client that was answered is neither charged nor served.
THEOREM AnsweredIsNotCharged == Spec => []NoPaymentAfterReply
<1>1. IInv => NoPaymentAfterReply
  BY DEF IInv, Silence, Unanswered, NoPaymentAfterReply
<1>2. QED
  BY <1>1, Invariance, PTL

\* A payment buys one visit to the priced backend and one receipt.
THEOREM OnePurchase == Spec => []OnePaymentOneResource
<1>1. IInv => OnePaymentOneResource
  BY DEF IInv, Grants, HasReceipt, OnePaymentOneResource
<1>2. QED
  BY <1>1, Invariance, PTL
=============================================================================
