------------------------------ MODULE Purchase ------------------------------
(***************************************************************************)
(* Purchases through a gateway that hosts its own facilitator, with the    *)
(* clocks and the worker threads that the other modules leave out.         *)
(*                                                                         *)
(* A buyer is X402Client (x402_client/X402Client.cpp): it asks, is told    *)
(* the price with a 402, signs an authorization that its own clock limits  *)
(* to a window, and asks again.  The gateway checks the window when the    *)
(* request is handled, the facilitator once more when the settle call is.  *)
(*                                                                         *)
(* Every connection belongs to one thread of the pool that                 *)
(* MachinePalApp::runUntilExit makes, and a thread that waits for the      *)
(* facilitator or the backend handles nothing else.  The settle call is a  *)
(* connection to the same pool, so it may wait for a thread that waits for *)
(* such a call itself, even its own.  The call has a total timeout, the    *)
(* backend request has none.                                               *)
(*                                                                         *)
(* Every buyer draws a fresh nonce, so the lock and the table of           *)
(* PaymentManager never refuse one here; signatures and funds are good.    *)
(***************************************************************************)
EXTENDS Integers

CONSTANTS Buyer,        (* purchases, each with a key and a nonce of its own *)
          Thread,       (* the worker threads *)
          Price,        (* the prices the resource may be configured with *)
          Skew,         (* how far a buyer's clock may be ahead of the gateway's *)
          Window,       (* how long an authorization is valid: 3600 seconds *)
          MaxTime,      (* bound: the gateway's clock *)
          MaxRestarts   (* bound: restarts, with the same or another price *)

ASSUME PriceAssumption == Price \subseteq Nat \ {0} /\ Price # {}
ASSUME ClockAssumption == Skew \subseteq Int /\ Window \in Nat /\ MaxTime \in Nat
ASSUME RestartAssumption == MaxRestarts \in Nat
ASSUME ThreadAssumption == Thread # {}

VARIABLES
  now,          (* the clock of the gateway's machine *)
  skew,         (* the buyers' clocks minus now *)
  price,        (* the configured price *)
  restarts,
  step,         (* where buyAndRetrieveX402Resource is *)
  offer,        (* maxAmountRequired of the 402; 0: none yet *)
  signed,       (* when, on the gateway's clock, the authorization was signed *)
  outcome,      (* how the purchase ended *)
  gw,           (* the buyer's request in the gateway *)
  thread,       (* the thread of its connection *)
  fac,          (* the settle call in the facilitator *)
  facThread,    (* the thread of that connection *)
  charged       (* what the ledger took from the buyer *)

buyers == <<step, offer, signed, outcome>>
calls == <<fac, facThread, charged>>
world == <<now, skew, price, restarts>>
vars == <<world, buyers, gw, thread, calls>>

TypeOK ==
  /\ now \in 0..MaxTime /\ restarts \in 0..MaxRestarts
  /\ skew \in [Buyer -> Skew]
  /\ price \in Price
  /\ step \in [Buyer -> {"new", "asking", "offered", "paying", "over"}]
  /\ offer \in [Buyer -> Price \cup {0}]
  /\ signed \in [Buyer -> 0..MaxTime]
  /\ outcome \in [Buyer -> {"none", "bought", "refused", "error"}]
  /\ gw \in [Buyer -> {"none", "queued", "settling", "fetching"}]
  /\ thread \in [Buyer -> Thread] /\ facThread \in [Buyer -> Thread]
  /\ fac \in [Buyer -> {"none", "queued", "moved", "refused", "lost"}]
  /\ charged \in [Buyer -> Price \cup {0}]

Init ==
  /\ now = 0
  /\ restarts = 0
  /\ skew \in [Buyer -> Skew]
  /\ price \in Price
  /\ step = [b \in Buyer |-> "new"]
  /\ offer = [b \in Buyer |-> 0]
  /\ signed = [b \in Buyer |-> 0]
  /\ outcome = [b \in Buyer |-> "none"]
  /\ gw = [b \in Buyer |-> "none"]
  /\ thread = [b \in Buyer |-> CHOOSE t \in Thread : TRUE]
  /\ facThread = thread
  /\ fac = [b \in Buyer |-> "none"]
  /\ charged = [b \in Buyer |-> 0]

\* A thread inside a curl call handles no other connection.
Blocked(t) == \E b \in Buyer : thread[b] = t /\ gw[b] \in {"settling", "fetching"}
-----------------------------------------------------------------------------
(***************************************************************************)
(* The authorization                                                       *)
(***************************************************************************)

\* createDefaultPaymentPayload: the window starts at the buyer's own "now".
ValidAfter(b) == signed[b] + skew[b]
ValidBefore(b) == signed[b] + skew[b] + Window

\* Faulty variant: the bounds do not belong to the window.
StrictValidityTime(b) == ValidAfter(b) < now /\ now < ValidBefore(b)

\* Authorization::checkValidityTime, with its two comparisons.
checkValidityTime(b) == ~(ValidAfter(b) > now) /\ ~(ValidBefore(b) < now)

\* Authorization::validate against the requirements in force; the recipient is
\* the configured wallet, which buyers copy from the offer.
validate(b) == offer[b] = price /\ checkValidityTime(b)
-----------------------------------------------------------------------------
(***************************************************************************)
(* X402Client                                                              *)
(***************************************************************************)

\* doX402Request: the request waits for the thread its connection is given.
doX402Request(b, from, to) ==
  /\ step[b] = from
  /\ step' = [step EXCEPT ![b] = to]
  /\ gw' = [gw EXCEPT ![b] = "queued"]
  /\ \E t \in Thread : thread' = [thread EXCEPT ![b] = t]

\* buyAndRetrieveX402Resource: the first request carries no payment.
Ask(b) ==
  /\ doX402Request(b, "new", "asking")
  /\ UNCHANGED <<world, offer, signed, outcome, calls>>

\* The 402 had exactly one offer: sign it and ask again.
Pay(b) ==
  /\ doX402Request(b, "offered", "paying")
  /\ signed' = [signed EXCEPT ![b] = now]
  /\ UNCHANGED <<world, offer, outcome, calls>>

\* The second response, or an exception, ends the purchase.
Ends(b, how) ==
  /\ gw' = [gw EXCEPT ![b] = "none"]
  /\ step' = [step EXCEPT ![b] = "over"]
  /\ outcome' = [outcome EXCEPT ![b] = how]

\* `machinepal client`: with a payload file, which was signed at some time for some
\* price that was offered once, it pays without asking; without one it sends an
\* unpaid request, that is Ask, and the Pay that may follow never does.  A file
\* that cannot be read, or a POST, for which it has no body, ends it before
\* anything is sent.
runClientCommand(b) ==
  /\ \/ /\ doX402Request(b, "new", "paying")
        /\ \E p \in Price : offer' = [offer EXCEPT ![b] = p]
        /\ \E s \in 0..now : signed' = [signed EXCEPT ![b] = s]
        /\ UNCHANGED outcome
     \/ /\ doX402Request(b, "new", "asking")
        /\ UNCHANGED <<offer, signed, outcome>>
     \/ /\ step[b] = "new"
        /\ Ends(b, "error")
        /\ UNCHANGED <<offer, signed, thread>>
  /\ UNCHANGED <<world, calls>>
-----------------------------------------------------------------------------
(***************************************************************************)
(* The gateway's side of the two requests                                  *)
(***************************************************************************)

Handle(b, kind) == gw[b] = "queued" /\ step[b] = kind /\ ~Blocked(thread[b])

\* reply402PaymentRequired with the requirements of the resource; any other
\* status fails the client's first CHECK_STATE.
AnswerAsking(b) ==
  /\ Handle(b, "asking")
  /\ \/ /\ step' = [step EXCEPT ![b] = "offered"]
        /\ gw' = [gw EXCEPT ![b] = "none"]
        /\ offer' = [offer EXCEPT ![b] = price]
        /\ UNCHANGED outcome
     \/ Ends(b, "error") /\ UNCHANGED offer
  /\ UNCHANGED <<world, signed, thread, calls>>

\* Pre-validation refuses with a 402, or something throws, a 500, and nothing has
\* happened; or the settle call is sent to whichever thread accepts it.
HandlePayment(b) ==
  /\ Handle(b, "paying")
  /\ \/ /\ \/ ~validate(b) /\ Ends(b, "refused")
           \/ Ends(b, "error")
        /\ UNCHANGED <<fac, facThread>>
     \/ /\ validate(b)
        /\ gw' = [gw EXCEPT ![b] = "settling"]
        /\ fac' = [fac EXCEPT ![b] = "queued"]
        /\ \E t \in Thread : facThread' = [facThread EXCEPT ![b] = t]
        /\ UNCHANGED <<step, outcome>>
  /\ UNCHANGED <<world, offer, signed, thread, charged>>

\* The facilitator validates again, now, and moves the money.
FacilitatorExecutes(b) ==
  /\ fac[b] = "queued" /\ ~Blocked(facThread[b])
  /\ IF validate(b)
     THEN /\ fac' = [fac EXCEPT ![b] = "moved"]
          /\ charged' = [charged EXCEPT ![b] = offer[b]]
     ELSE fac' = [fac EXCEPT ![b] = "refused"] /\ UNCHANGED charged
  /\ UNCHANGED <<world, buyers, gw, thread, facThread>>

\* Any SettlementResponse is taken for a settlement; the backend is asked.
SettleReturns(b) ==
  /\ gw[b] = "settling" /\ fac[b] \in {"moved", "refused"}
  /\ gw' = [gw EXCEPT ![b] = "fetching"]
  /\ UNCHANGED <<world, buyers, thread, calls>>

\* Faulty variant: a timeout is reported as a refused payment.
TimeoutAsRefusal(b) ==
  /\ gw[b] = "settling"
  /\ Ends(b, "refused")
  /\ fac' = [fac EXCEPT ![b] = IF @ = "queued" THEN "lost" ELSE @]
  /\ UNCHANGED <<world, offer, signed, thread, facThread, charged>>

\* Faulty variant: curl is given no total timeout.
NoTimeout(b) ==
  /\ gw[b] = "settling" /\ fac[b] = "refused"
  /\ Ends(b, "error")
  /\ UNCHANGED <<world, offer, signed, thread, calls>>

\* The call fails, at the latest when its time is up: a 500.  Of a request that
\* still waits for its thread, the bytes may be there to be read, or not (TLS).
SettleCallThrows(b) ==
  /\ gw[b] = "settling"
  /\ Ends(b, "error")
  /\ \/ UNCHANGED fac
     \/ fac[b] = "queued" /\ fac' = [fac EXCEPT ![b] = "lost"]
  /\ UNCHANGED <<world, offer, signed, thread, facThread, charged>>

\* executeCurlRequest returns: a 200 with the receipt is a purchase, every other
\* status fails the client's last CHECK_STATEs.
BackendReplies(b) ==
  /\ gw[b] = "fetching"
  /\ \E how \in {"bought", "error"} : Ends(b, how)
  /\ UNCHANGED <<world, offer, signed, thread, calls>>
-----------------------------------------------------------------------------
Tick ==
  /\ now < MaxTime
  /\ now' = now + 1
  /\ UNCHANGED <<skew, price, restarts, buyers, gw, thread, calls>>

\* The process ends with all its connections; the next one may have another price.
Restart ==
  /\ restarts < MaxRestarts
  /\ restarts' = restarts + 1
  /\ price' \in Price
  /\ LET Cut(b) == gw[b] # "none" IN
     /\ step' = [b \in Buyer |-> IF Cut(b) THEN "over" ELSE step[b]]
     /\ outcome' = [b \in Buyer |-> IF Cut(b) THEN "error" ELSE outcome[b]]
  /\ gw' = [b \in Buyer |-> "none"]
  /\ fac' = [b \in Buyer |-> IF fac[b] = "queued" THEN "lost" ELSE fac[b]]
  /\ UNCHANGED <<now, skew, offer, signed, thread, facThread, charged>>

Quiescent ==
  /\ \A b \in Buyer : step[b] = "over" /\ fac[b] # "queued"
  /\ UNCHANGED vars

\* What a free worker thread does, and what frees one.
Work(b) ==
  \/ AnswerAsking(b)
  \/ HandlePayment(b)
  \/ FacilitatorExecutes(b)
  \/ SettleReturns(b)
  \/ SettleCallThrows(b)

Next ==
  \/ \E b \in Buyer : \/ Ask(b)
                      \/ Pay(b)
                      \/ runClientCommand(b)
                      \/ Work(b)
                      \/ BackendReplies(b)
  \/ Tick
  \/ Restart
  \/ Quiescent

Spec == Init /\ [][Next]_vars

\* A free thread handles what is waiting for it, and curl's timeout comes.  A
\* backend need not answer, a buyer need not go on.
FairSpec ==
  /\ Spec
  /\ \A b \in Buyer : /\ WF_vars(AnswerAsking(b))
                      /\ WF_vars(HandlePayment(b))
                      /\ WF_vars(FacilitatorExecutes(b))
                      /\ WF_vars(SettleReturns(b))
                      /\ WF_vars(SettleCallThrows(b))
-----------------------------------------------------------------------------
\* Answer and ledger agree as far as the buyer can tell: a buyer told 402 is not
\* charged, now or later; one that was served was charged, unless the facilitator
\* refused and PaymentManager did not look; nobody is charged anything but the
\* price that was offered, or before signing it.
ChargesMatchAnswers ==
  \A b \in Buyer :
    /\ outcome[b] = "refused" => charged[b] = 0 /\ fac[b] # "queued"
    /\ outcome[b] = "bought" => charged[b] = offer[b] \/ fac[b] = "refused"
    /\ charged[b] # 0 => charged[b] = offer[b] /\ step[b] \in {"paying", "over"}

\* A buyer whose clock is not ahead, whose offer still stands and whose request
\* is handled within the window is not turned away, not even in the very second
\* of the signature; once let in, only waiting for a thread can be its undoing.
PunctualBuyersAreAccepted ==
  [][\A b \in Buyer :
       LET late == now > signed[b] + skew[b] + Window IN
       /\ outcome'[b] = "refused" /\ outcome[b] = "none" => offer[b] # price \/ skew[b] > 0 \/ late
       /\ fac'[b] = "refused" /\ fac[b] = "queued" => late]_vars

\* The pool does not wait for itself for good: if a request is never answered,
\* some thread waits for a backend for ever.
OnlyBackendsHoldThreads ==
  \/ \A b \in Buyer : []<>(step[b] \notin {"asking", "paying"})
  \/ <>[](\E b \in Buyer : gw[b] = "fetching")
=============================================================================
