----------------------------- MODULE X402Server -----------------------------
(***************************************************************************)
(* One HTTP exchange, from the first header to the destruction of its      *)
(* handler: X402Handler (x402_server/X402Handler.cpp) receives proxygen's  *)
(* callbacks, creates the response sender and a processor, and hands the   *)
(* callbacks on; X402Processor (x402_protocol/X402Processor.cpp) asks for  *)
(* the payment, has it settled and fetches the resource from the backend;  *)
(* FacilitatorProcessor serves the gateway's own facilitator.              *)
(*                                                                         *)
(* All callbacks of an exchange run on the thread of its connection.  A    *)
(* callback blocks its thread while the payment manager, the facilitator   *)
(* or the backend is at work, so a client that hangs up meanwhile is       *)
(* noticed only afterwards; exchanges of other connections interleave at   *)
(* these points.                                                           *)
(*                                                                         *)
(* Statuses are classes: "error" stands for every 4xx but 402 and for the  *)
(* 500 and 502 of the gateway itself, "backend" for a status passed on.    *)
(* The payment manager is PaymentOnce: it grants a payment at most once.   *)
(***************************************************************************)
EXTENDS Naturals, Sequences

CONSTANTS Exchange,     (* HTTP requests *)
          Request,      (* what they may ask: route, wellFormed, method, payment *)
          NoPayment,    (* no X-PAYMENT header *)
          MaxBodySize,  (* MAX_BODY_SIZE, in chunks *)
          MaxChunks     (* bound: body chunks a client sends *)

ASSUME SizeAssumption == MaxBodySize \in Nat /\ MaxChunks \in Nat
ASSUME RequestAssumption ==
  \A q \in Request : /\ q.route \in {"facilitator", "resource", "passThrough", "nowhere"}
                     /\ q.wellFormed \in BOOLEAN /\ q.method \in BOOLEAN

VARIABLES
  pc,                 (* "receiving" and "returned": the thread is in the event loop *)
  request,            (* the request *)
  connection,         (* "open" or "closed", whoever closed it *)
  responseSender,     (* X402Handler::responseSender_ is set *)
  internalErrorSent,  (* X402Handler::internalErrorSent_ *)
  state,              (* the processor's state_ *)
  size,               (* chunks in bodyBuffer_ *)
  chunks,             (* chunks sent by the client *)
  replies,            (* what was given to proxygen: status and X-PAYMENT-RESPONSE header *)
  settled,            (* payments the payment manager has granted *)
  granted,            (* exchanges it granted one to *)
  terminated          (* an exception has left a noexcept function *)

vars == <<pc, request, connection, responseSender, internalErrorSent, state, size,
          chunks, replies, settled, granted, terminated>>

PC == {"idle", "receiving", "facilitating", "forwarding", "paying", "fetching",
       "returned", "gone"}
Status == {"2xx", "402", "error", "backend"}
Receipt == {"none", "success", "error"}

IsReplySent(x) == state[x] \in {"ERROR_SENT", "REPLY_SENT"}

Init ==
  /\ pc = [x \in Exchange |-> "idle"]
  /\ request \in [Exchange -> Request]
  /\ connection = [x \in Exchange |-> "open"]
  /\ responseSender = [x \in Exchange |-> FALSE]
  /\ internalErrorSent = [x \in Exchange |-> FALSE]
  /\ state = [x \in Exchange |-> "START"]
  /\ size = [x \in Exchange |-> 0]
  /\ chunks = [x \in Exchange |-> 0]
  /\ replies = [x \in Exchange |-> <<>>]
  /\ settled = {}
  /\ granted = {}
  /\ terminated = FALSE

Goto(x, from, to) ==
  /\ ~terminated
  /\ pc[x] = from
  /\ pc' = [pc EXCEPT ![x] = to]

Send(x, status, receipt) ==
  replies' = [replies EXCEPT ![x] = Append(@, [status |-> status, receipt |-> receipt])]

NoReply == UNCHANGED <<state, replies>>

\* The sender may throw before proxygen has the response.  The exception is
\* swallowed, and nobody tries again.
SendOrThrow(x, status, receipt) == Send(x, status, receipt) \/ UNCHANGED replies

\* The reply functions: sendResponse drops the response when one was sent
\* before or the sender is gone; state_ is assigned in any case.
Reply(x, status, receipt, next) ==
  /\ IF IsReplySent(x) \/ ~responseSender[x] THEN UNCHANGED replies ELSE SendOrThrow(x, status, receipt)
  /\ state' = [state EXCEPT ![x] = next]

ReplyError(x) == Reply(x, "error", "none", "ERROR_SENT")

\* Faulty variant: the flag is not set.
SendInternalErrorOnly(x) ==
  /\ IF responseSender[x] THEN Send(x, "error", "none") ELSE UNCHANGED replies
  /\ UNCHANGED <<state, internalErrorSent>>

\* X402Handler::sendInternalError goes past the processor.
SendInternalError(x) ==
  /\ internalErrorSent' = [internalErrorSent EXCEPT ![x] = TRUE]
  /\ IF responseSender[x] THEN Send(x, "error", "none") ELSE UNCHANGED replies
  /\ UNCHANGED state
-----------------------------------------------------------------------------
(***************************************************************************)
(* The callbacks of X402Handler                                            *)
(***************************************************************************)

\* Host, organization and path must be known, or the request ends here with a
\* 400, an exception with a 500.  The facilitator's processor looks at method,
\* content type and path to the same effect.
onRequestStart(x) ==
  IF request[x].wellFormed THEN NoReply
  ELSE /\ SendOrThrow(x, "error", "none")
       /\ state' = [state EXCEPT ![x] = "ERROR_SENT"]

\* The sender and the processor are created and the processor sees the headers.
OnRequest(x) ==
  /\ Goto(x, "idle", "receiving")
  /\ responseSender' = [responseSender EXCEPT ![x] = TRUE]
  /\ onRequestStart(x)
  /\ UNCHANGED <<request, connection, internalErrorSent, size, chunks, settled, granted, terminated>>

\* makeShared throws (any User-Agent that is not UTF-8 does that: it is written as
\* JSON), or the creation of the processor after it.
OnRequestThrows(x) ==
  /\ Goto(x, "idle", "receiving")
  /\ internalErrorSent' = [internalErrorSent EXCEPT ![x] = TRUE]
  /\ \/ UNCHANGED <<responseSender, replies>>
     \/ responseSender' = [responseSender EXCEPT ![x] = TRUE] /\ Send(x, "error", "none")
  /\ UNCHANGED <<request, connection, state, size, chunks, settled, granted, terminated>>

\* 400 of the one processor, 413 of the other.
onBodySizeIncrease(x) == IF size[x] + 1 > MaxBodySize THEN ReplyError(x) ELSE NoReply

\* A chunk of the body; it is ignored once a reply was sent.
OnBody(x) ==
  /\ Goto(x, "receiving", "receiving")
  /\ chunks[x] < MaxChunks
  /\ chunks' = [chunks EXCEPT ![x] = @ + 1]
  /\ \/ /\ internalErrorSent[x] \/ IsReplySent(x)
        /\ NoReply /\ UNCHANGED <<size, internalErrorSent>>
     \/ /\ ~internalErrorSent[x] /\ ~IsReplySent(x)
        /\ size' = [size EXCEPT ![x] = @ + 1]
        /\ onBodySizeIncrease(x)
        /\ UNCHANGED internalErrorSent
     \/ /\ ~internalErrorSent[x] /\ ~IsReplySent(x)  \* the buffer cannot grow
        /\ SendInternalError(x) /\ UNCHANGED size
  /\ UNCHANGED <<request, connection, responseSender, settled, granted, terminated>>

\* onEOM of an exchange that was answered before its body was complete.
OnEOMIgnored(x) ==
  /\ internalErrorSent[x] \/ IsReplySent(x)
  /\ Goto(x, "receiving", "returned")
  /\ UNCHANGED <<request, connection, responseSender, internalErrorSent, state, size,
                 chunks, replies, settled, granted, terminated>>

\* Faulty variant: no reply402IfNoPaymentHeader.
DestinationUnpaid(x) ==
  CASE request[x].route = "facilitator" -> "facilitating"
    [] request[x].route = "passThrough" /\ request[x].method -> "forwarding"
    [] request[x].route = "resource" /\ request[x].method -> "paying"
    [] OTHER -> "returned"

\* Where onRequestFullyReceived goes before it calls anybody: the resource is
\* looked up first, then the method, then the X-PAYMENT header.
Destination(x) ==
  CASE request[x].route = "facilitator" -> "facilitating"
    [] request[x].route = "passThrough" /\ request[x].method -> "forwarding"
    [] request[x].route = "resource" /\ request[x].method /\ request[x].payment # NoPayment -> "paying"
    [] OTHER -> "returned"

NeedsPayment(x) ==
  request[x].route = "resource" /\ request[x].method /\ request[x].payment = NoPayment

\* The offer, with the error as settlement response if there is one.
reply402PaymentRequired(x, receipt) == Reply(x, "402", receipt, "REPLY_SENT")

\* What onRequestFullyReceived answers when it calls nobody.  An exception on the
\* way to the first 402 is swallowed: nothing is sent.
Answer(x) ==
  IF NeedsPayment(x) THEN reply402PaymentRequired(x, "none") \/ NoReply
  ELSE ReplyError(x)

\* Faulty variant: isReplySent() is not asked.
OnEOMUnchecked(x) ==
  /\ Goto(x, "receiving", Destination(x))
  /\ IF Destination(x) = "returned" THEN Answer(x) ELSE NoReply
  /\ UNCHANGED <<request, connection, responseSender, internalErrorSent, size, chunks,
                 settled, granted, terminated>>

\* The body is complete and nothing was answered yet.
OnEOM(x) ==
  /\ ~internalErrorSent[x] /\ ~IsReplySent(x)
  /\ Goto(x, "receiving", Destination(x))
  /\ IF Destination(x) = "returned" THEN Answer(x) ELSE NoReply
  /\ UNCHANGED <<request, connection, responseSender, internalErrorSent, size, chunks,
                 settled, granted, terminated>>
-----------------------------------------------------------------------------
(***************************************************************************)
(* The rest of onRequestFullyReceived, still in the callback onEOM         *)
(***************************************************************************)

\* processSettleRequest or processVerifyRequest returned, the body was not JSON,
\* or an exception came.
FacilitatorReplies(x) ==
  /\ Goto(x, "facilitating", "returned")
  /\ \/ Reply(x, "2xx", "none", "REPLY_SENT")
     \/ ReplyError(x)
  /\ UNCHANGED <<request, connection, responseSender, internalErrorSent, size, chunks,
                 settled, granted, terminated>>

\* Faulty variant: the error of the payment manager is ignored.
FetchWithoutGrant(x) ==
  /\ Goto(x, "paying", "fetching")
  /\ UNCHANGED <<request, connection, responseSender, internalErrorSent, state, size,
                 chunks, replies, settled, granted, terminated>>

\* decodePreValidateAndSettleWithFacilitator returns a SettlementResponse.
Granted(x) ==
  /\ request[x].payment \notin settled
  /\ Goto(x, "paying", "fetching")
  /\ settled' = settled \cup {request[x].payment}
  /\ granted' = granted \cup {x}
  /\ UNCHANGED <<request, connection, responseSender, internalErrorSent, state, size,
                 chunks, replies, terminated>>

\* It returns an HttpError: an internal one is a 500, any other a 402 with the
\* error as settlement response (500 if that cannot be built).
SettlementError(x) ==
  /\ Goto(x, "paying", "returned")
  /\ \/ ReplyError(x)
     \/ reply402PaymentRequired(x, "error")
  /\ UNCHANGED <<request, connection, responseSender, internalErrorSent, size, chunks,
                 settled, granted, terminated>>

\* What comes back from a backend: a status, or an error of curl.
Backend == {"2xx", "3xx", "402", "error", "curl"}

\* executeCurlRequest: a status from 400 on is an IBackendError, but for 402.
executeCurlRequest(answer) == answer \in {"error", "curl"}

replyPassThroughError(x, answer) ==
  Reply(x, IF answer = "curl" THEN "error" ELSE "backend", "none", "ERROR_SENT")

\* A status outside 200..299 fails a CHECK_STATE, and the exception is a 500.
replyX402ResourceSuccess(x, answer) ==
  IF answer = "2xx" THEN Reply(x, "2xx", "success", "REPLY_SENT") ELSE ReplyError(x)

\* The end of a paid request; anything may throw instead.
BackendReplies(x) ==
  /\ Goto(x, "fetching", "returned")
  /\ \/ \E a \in Backend : IF executeCurlRequest(a) THEN replyPassThroughError(x, a)
                                                   ELSE replyX402ResourceSuccess(x, a)
     \/ ReplyError(x)
  /\ UNCHANGED <<request, connection, responseSender, internalErrorSent, size, chunks,
                 settled, granted, terminated>>

\* doPassThrough: no payment, and no status that is not an error is refused.
PassThroughReplies(x) ==
  /\ Goto(x, "forwarding", "returned")
  /\ \/ \E a \in Backend :
          IF executeCurlRequest(a) THEN replyPassThroughError(x, a)
          ELSE Reply(x, IF a = "2xx" THEN "2xx" ELSE "backend", "none", "REPLY_SENT")
     \/ ReplyError(x)
  /\ UNCHANGED <<request, connection, responseSender, internalErrorSent, size, chunks,
                 settled, granted, terminated>>
-----------------------------------------------------------------------------
(***************************************************************************)
(* The end of an exchange                                                  *)
(***************************************************************************)

Close(x) ==
  /\ ~terminated /\ connection[x] = "open" /\ pc[x] \notin {"idle", "gone"}
  /\ connection' = [connection EXCEPT ![x] = "closed"]
  /\ UNCHANGED <<pc, request, responseSender, internalErrorSent, state, size, chunks,
                 replies, settled, granted, terminated>>

\* The client hangs up.
Abandon(x) == Close(x)

\* idleTimeout of the server: the rest of the request does not come.  A complete
\* request waits for its handler without a limit.
IdleTimeout(x) == pc[x] = "receiving" /\ Close(x)

\* Faulty variant: a complete request is kept.
OnErrorStuck(x) ==
  /\ connection[x] # "open" /\ responseSender[x]
  /\ Goto(x, "receiving", "gone")
  /\ UNCHANGED <<request, connection, responseSender, internalErrorSent, state, size,
                 chunks, replies, settled, granted, terminated>>

\* X402Handler::onError, when the event loop learns that the connection is gone:
\* its responseSender() throws when there is none, and onError is noexcept.
OnError(x) ==
  /\ connection[x] # "open"
  /\ \E from \in {"receiving", "returned"} : Goto(x, from, "gone")
  /\ terminated' = ~responseSender[x]
  /\ UNCHANGED <<request, connection, responseSender, internalErrorSent, state, size,
                 chunks, replies, settled, granted>>

\* X402Handler::requestComplete: request received, response sent.
RequestComplete(x) ==
  /\ connection[x] = "open" /\ replies[x] # <<>>
  /\ Goto(x, "returned", "gone")
  /\ UNCHANGED <<request, connection, responseSender, internalErrorSent, state, size,
                 chunks, replies, settled, granted, terminated>>

Quiescent ==
  /\ terminated \/ \A x \in Exchange : pc[x] = "gone"
  /\ UNCHANGED vars

\* What the gateway, the facilitator and the backend do.
Serve(x) ==
  \/ FacilitatorReplies(x)
  \/ Granted(x)
  \/ SettlementError(x)
  \/ BackendReplies(x)
  \/ PassThroughReplies(x)
  \/ IdleTimeout(x)
  \/ OnError(x)
  \/ RequestComplete(x)

Next ==
  \/ \E x \in Exchange :
       \/ OnRequest(x)
       \/ OnRequestThrows(x)
       \/ OnBody(x)
       \/ OnEOM(x)
       \/ OnEOMIgnored(x)
       \/ Abandon(x)
       \/ Serve(x)
  \/ Quiescent

Spec == Init /\ [][Next]_vars

\* The event loop runs.  The payment manager returns because curl's timeout ends
\* its settle call; that a backend answers or drops the connection is an
\* assumption, for HttpEndpointConnection sets no timeout.
FairSpec == Spec /\ \A x \in Exchange : WF_vars(Serve(x))
-----------------------------------------------------------------------------
TypeOK ==
  /\ pc \in [Exchange -> PC]
  /\ request \in [Exchange -> Request]
  /\ connection \in [Exchange -> {"open", "closed"}]
  /\ responseSender \in [Exchange -> BOOLEAN]
  /\ internalErrorSent \in [Exchange -> BOOLEAN]
  /\ state \in [Exchange -> {"START", "ERROR_SENT", "REPLY_SENT"}]
  /\ size \in [Exchange -> 0..MaxBodySize + 1]
  /\ chunks \in [Exchange -> 0..MaxChunks]
  /\ replies \in [Exchange -> Seq([status : Status, receipt : Receipt])]
  /\ granted \subseteq Exchange
  /\ settled \subseteq {q.payment : q \in Request} \ {NoPayment}
  /\ terminated \in BOOLEAN

\* proxygen is given at most one response per exchange, although four reply
\* paths, two exception handlers and sendInternalError can each produce one.
AtMostOneResponse == \A x \in Exchange : Len(replies[x]) <= 1

\* A client that was answered already, for a bad host, an unknown path or a body
\* over the limit, is not charged and the backend is not bothered.
NoPaymentAfterReply ==
  \A x \in Exchange : pc[x] \in {"paying", "fetching"} =>
    replies[x] = <<>> /\ ~internalErrorSent[x] /\ size[x] <= MaxBodySize

\* The priced backend is asked, and a receipt handed out, only for an exchange
\* whose payment was granted, and no payment buys two of them.
OnePaymentOneResource ==
  LET Served(x) == \/ pc[x] = "fetching"
                   \/ \E i \in DOMAIN replies[x] : replies[x][i].receipt = "success"
  IN  \A x, y \in Exchange :
        Served(x) => /\ x \in granted
                     /\ Served(y) /\ request[x].payment = request[y].payment => x = y

\* A complete request nobody will answer: the sender threw, or the first 402 did on
\* its way to it, or the sender was never made.
LeftWaiting(x) ==
  /\ pc[x] = "returned" /\ replies[x] = <<>>
  /\ IsReplySent(x) \/ NeedsPayment(x) \/ ~responseSender[x]

\* As long as the process is up, every exchange ends, its handler destroyed, but
\* for a request that is left without an answer by a swallowed exception; and
\* that one ends too when its client hangs up.  The request that is slow, too
\* large, refused, paid or answered twice over is not kept.
EveryExchangeEnds ==
  \A x \in Exchange :
    /\ pc[x] = "receiving" ~> (pc[x] = "gone" \/ LeftWaiting(x) \/ terminated)
    /\ connection[x] # "open" ~> (pc[x] = "gone" \/ terminated)

=============================================================================
