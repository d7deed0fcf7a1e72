------------------------ MODULE EasyNetFacilitator ------------------------
(***************************************************************************)
(* The facilitator the gateway hosts itself (facilitators/                 *)
(* EasyNetFacilitator.cpp) on top of its ledger (db/EasyNetDb.cpp).        *)
(*                                                                         *)
(* Settle and verify requests run on the worker threads of their           *)
(* connections.  A settle request holds the facilitator's mutex_           *)
(* exclusively from its first statement to its last, a verify request      *)
(* holds it shared; EasyNetDb guards each of its operations with a second  *)
(* shared_mutex, stateMutex_.  Below the locks are single SQL statements:  *)
(* the SELECTs of the verification, the autocommitted INSERT that funds a  *)
(* new wallet, and the transaction of transferValueUnsafe (two SELECTs,    *)
(* two writes to `state', one INSERT into `transactions', COMMIT).  A      *)
(* crash may come between any two of them; SQLite keeps what was committed.*)
(*                                                                         *)
(* One asset; a wallet's row in `state' is a number of rows (the table has *)
(* no unique index) and the balance a SELECT reads.  The authorization of  *)
(* a payment is [from, to, value, nonce]; whether its signature, price,    *)
(* recipient and validity window pass validateAndVerifySignature is left   *)
(* open.                                                                   *)
(***************************************************************************)
EXTENDS Integers, FiniteSets, FiniteSetsExt

CONSTANTS Call,            (* settle and verify requests *)
          Wallet,          (* wallet addresses *)
          Authorization,   (* the EIP-3009 authorizations presented: from, to, value, nonce *)
          InitialFunding,  (* what a new payer wallet is given: 10^27 units *)
          MaxUint,         (* the largest u256 *)
          NoCall,          (* no holder *)
          MaxCrashes       (* bound: crashes and restarts *)

ASSUME FundingAssumption ==
  /\ MaxUint \in Nat /\ InitialFunding \in 0..MaxUint
  /\ InitialFunding <= MaxUint - InitialFunding
ASSUME AuthorizationAssumption ==
  /\ NoCall \notin Call /\ MaxCrashes \in Nat
  /\ \A a \in Authorization :
       a.from \in Wallet /\ a.to \in Wallet /\ a.value \in 0..MaxUint

VARIABLES
  pc,            (* where each call is *)
  kind,          (* "settle" or "verify" *)
  auth,          (* the authorization it presents *)
  answer,        (* what the JSON it is answered with says *)
  seen,          (* balances read: the locals of the C++ functions *)
  exclusive,     (* the settle call that holds mutex_ *)
  shared,        (* the verify calls that hold mutex_ *)
  stateMutex,    (* the call that holds EasyNetDb::stateMutex_ exclusively *)
  rows,          (* rows of the state table per wallet *)
  balance,       (* the value a SELECT on them returns *)
  transactions,  (* rows of the transactions table: the calls that wrote them *)
  funded,        (* history: wallets that received the initial funding *)
  crashes

ledger == <<rows, balance, transactions, funded>>
locks == <<exclusive, shared, stateMutex>>
locals == <<kind, auth, seen>>
vars == <<pc, answer, locals, locks, ledger, crashes>>

PC == {"idle", "enter", "validate", "sender", "receiver", "fund", "insert", "transfer", "write",
       "committed", "reply", "done", "lost"}

\* isValid or success, where a negative answer names its reason: "no" is a refusal
\* (invalid_payload, insufficient_funds), "error" is what the catch clause answers
\* (unexpected_settle_error, unexpected_verify_error).
Answers == {"none", "yes", "no", "error"}

From(c) == auth[c].from
To(c) == auth[c].to
Value(c) == auth[c].value

\* Calls between the acquisition of mutex_ and its release.
Inside(c) == pc[c] \in {"validate", "sender", "receiver", "fund", "insert", "transfer", "write",
                        "committed", "reply"}
Finished(c) == pc[c] \in {"done", "lost"}

Goto(c, from, to) ==
  /\ pc[c] = from
  /\ pc' = [pc EXCEPT ![c] = to]

Answer(c, a) == answer' = [answer EXCEPT ![c] = a]

Init ==
  /\ pc = [c \in Call |-> "idle"]
  /\ kind = [c \in Call |-> "none"]
  /\ auth \in [Call -> Authorization]
  /\ answer = [c \in Call |-> "none"]
  /\ seen = [c \in Call |-> [sender |-> 0, receiver |-> 0]]
  /\ exclusive = NoCall /\ shared = {} /\ stateMutex = NoCall
  /\ rows = [w \in Wallet |-> 0] /\ balance = [w \in Wallet |-> 0]
  /\ transactions = {} /\ funded = {}
  /\ crashes = 0
-----------------------------------------------------------------------------
(***************************************************************************)
(* processSettleRequest and processVerifyRequest: mutex_                   *)
(***************************************************************************)
Arrive(c, k) ==
  /\ Goto(c, "idle", "enter")
  /\ kind' = [kind EXCEPT ![c] = k]
  /\ UNCHANGED <<answer, auth, seen, locks, ledger, crashes>>

\* Faulty variant: shared_lock instead of unique_lock.
EnterSettleShared(c) ==
  /\ kind[c] = "settle" /\ exclusive = NoCall
  /\ Goto(c, "enter", "validate")
  /\ shared' = shared \cup {c}
  /\ UNCHANGED <<answer, locals, exclusive, stateMutex, ledger, crashes>>

\* std::unique_lock lock( mutex_ )
EnterSettle(c) ==
  /\ kind[c] = "settle" /\ exclusive = NoCall /\ shared = {}
  /\ Goto(c, "enter", "validate")
  /\ exclusive' = c
  /\ UNCHANGED <<answer, locals, shared, stateMutex, ledger, crashes>>

\* std::shared_lock lock( mutex_ )
EnterVerify(c) ==
  /\ kind[c] = "verify" /\ exclusive = NoCall
  /\ Goto(c, "enter", "validate")
  /\ shared' = shared \cup {c}
  /\ UNCHANGED <<answer, locals, exclusive, stateMutex, ledger, crashes>>

\* The answer is returned and the lock guard destroyed.
Reply(c) ==
  /\ Goto(c, "reply", "done")
  /\ exclusive' = IF exclusive = c THEN NoCall ELSE exclusive
  /\ shared' = shared \ {c}
  /\ UNCHANGED <<answer, locals, stateMutex, ledger, crashes>>
-----------------------------------------------------------------------------
(***************************************************************************)
(* processVerifyRequestUnsafe                                              *)
(***************************************************************************)

\* validateAndVerifySignature rejects the payment.
RejectPayload(c) ==
  /\ Goto(c, "validate", "reply")
  /\ Answer(c, "no")
  /\ UNCHANGED <<locals, locks, ledger, crashes>>

\* The request parses and validateAndVerifySignature accepts the payment.
AcceptPayload(c) ==
  /\ Goto(c, "validate", "sender")
  /\ UNCHANGED <<answer, locals, locks, ledger, crashes>>

\* getBalance( from ) under stateMutex_; a wallet without a row counts as funded.
ReadSender(c) ==
  /\ stateMutex = NoCall
  /\ Goto(c, "sender", "receiver")
  /\ seen' = [seen EXCEPT ![c].sender = IF rows[From(c)] = 0 THEN InitialFunding
                                                             ELSE balance[From(c)]]
  /\ UNCHANGED <<answer, kind, auth, locks, ledger, crashes>>

\* What the verification concludes from seen[c].sender and getBalance( to ).
Affordable(c) ==
  /\ Value(c) <= seen[c].sender
  /\ rows[To(c)] = 0 \/ Value(c) <= MaxUint - balance[To(c)]

ReadReceiver(c) ==
  /\ stateMutex = NoCall
  /\ \/ /\ ~Affordable(c)
        /\ Goto(c, "receiver", "reply") /\ Answer(c, "no")
     \/ /\ Affordable(c) /\ kind[c] = "verify"
        /\ Goto(c, "receiver", "reply") /\ Answer(c, "yes")
     \/ /\ Affordable(c) /\ kind[c] = "settle"
        /\ Goto(c, "receiver", "fund") /\ UNCHANGED answer
  /\ UNCHANGED <<locals, locks, ledger, crashes>>
-----------------------------------------------------------------------------
(***************************************************************************)
(* EasyNetDb::processTransferRequest, under the exclusive stateMutex_      *)
(***************************************************************************)

\* Faulty variant: the SELECT is not looked at.
LockStateAlwaysFund(c) ==
  /\ stateMutex = NoCall
  /\ stateMutex' = c
  /\ Goto(c, "fund", "insert")
  /\ UNCHANGED <<answer, locals, exclusive, shared, ledger, crashes>>

\* fundUserWalletWithFundsIfNewWalletUnsafe: its SELECT.
LockState(c) ==
  /\ stateMutex = NoCall
  /\ stateMutex' = c
  /\ Goto(c, "fund", IF rows[From(c)] = 0 THEN "insert" ELSE "transfer")
  /\ UNCHANGED <<answer, locals, exclusive, shared, ledger, crashes>>

\* Its INSERT, committed at once: it outlives a transfer that fails.
InsertFunds(c) ==
  /\ Goto(c, "insert", "transfer")
  /\ rows' = [rows EXCEPT ![From(c)] = @ + 1]
  /\ balance' = [balance EXCEPT ![From(c)] = IF rows[From(c)] = 0 THEN InitialFunding ELSE @]
  /\ funded' = funded \cup {From(c)}
  /\ UNCHANGED <<answer, locals, locks, transactions, crashes>>

\* transferValueUnsafe reads both balances again.
ReceiverBalance(c) == IF rows[To(c)] = 0 THEN 0 ELSE balance[To(c)]

CanTransfer(c) ==
  /\ rows[From(c)] > 0
  /\ Value(c) <= balance[From(c)]
  /\ Value(c) <= MaxUint - ReceiverBalance(c)

\* Faulty variant: the transfer trusts the verification.
ReadNothing(c) ==
  /\ CanTransfer(c)
  /\ Goto(c, "transfer", "write")
  /\ UNCHANGED <<answer, locals, locks, ledger, crashes>>

\* BEGIN and the two SELECTs.  Without CanTransfer the code would throw or return
\* insufficient_funds; VerifiedSettleCanTransfer says that it never gets there.
ReadForTransfer(c) ==
  /\ CanTransfer(c)
  /\ Goto(c, "transfer", "write")
  /\ seen' = [seen EXCEPT ![c] = [sender |-> balance[From(c)], receiver |-> ReceiverBalance(c)]]
  /\ UNCHANGED <<answer, kind, auth, locks, ledger, crashes>>

\* Faulty variant: the debit is forgotten.
CommitReceiverOnly(c) ==
  /\ Goto(c, "write", "committed")
  /\ balance' = [balance EXCEPT ![To(c)] = seen[c].receiver + Value(c)]
  /\ rows' = [rows EXCEPT ![To(c)] = IF @ = 0 THEN 1 ELSE @]
  /\ transactions' = transactions \cup {c}
  /\ stateMutex' = NoCall
  /\ UNCHANGED <<answer, locals, exclusive, shared, funded, crashes>>

\* Faulty variant: the two balances are swapped.
CommitSwapped(c) ==
  /\ Goto(c, "write", "committed")
  /\ balance' = [balance EXCEPT ![From(c)] = seen[c].receiver - Value(c),
                                ![To(c)] = seen[c].sender + Value(c)]
  /\ rows' = [rows EXCEPT ![To(c)] = IF @ = 0 THEN 1 ELSE @]
  /\ transactions' = transactions \cup {c}
  /\ stateMutex' = NoCall
  /\ UNCHANGED <<answer, locals, exclusive, shared, funded, crashes>>

\* Faulty variant: no transactions row.
CommitUnlogged(c) ==
  /\ Goto(c, "write", "committed")
  /\ balance' = [balance EXCEPT ![From(c)] = seen[c].sender - Value(c),
                                ![To(c)] = seen[c].receiver + Value(c)]
  /\ rows' = [rows EXCEPT ![To(c)] = IF @ = 0 THEN 1 ELSE @]
  /\ stateMutex' = NoCall
  /\ UNCHANGED <<answer, transactions, locals, exclusive, shared, funded, crashes>>

\* The sender's row is written first, then the receiver's, both from the values
\* read above, then the transactions row; COMMIT makes all three visible, and
\* processTransferRequest returns.
Commit(c) ==
  /\ Goto(c, "write", "committed")
  /\ balance' = [balance EXCEPT ![From(c)] = seen[c].sender - Value(c),
                                ![To(c)] = seen[c].receiver + Value(c)]
  /\ rows' = [rows EXCEPT ![To(c)] = IF @ = 0 THEN 1 ELSE @]
  /\ transactions' = transactions \cup {c}
  /\ stateMutex' = NoCall
  /\ UNCHANGED <<answer, locals, exclusive, shared, funded, crashes>>

\* The SettlementResponse with success = true is put together.
Confirm(c) ==
  /\ Goto(c, "committed", "reply")
  /\ Answer(c, "yes")
  /\ UNCHANGED <<locals, locks, ledger, crashes>>

\* Faulty variant: stateMutex_ is locked and unlocked by hand.
ThrowKeepingState(c) ==
  /\ pc[c] \in {"validate", "sender", "receiver", "fund", "insert", "transfer", "write", "committed"}
  /\ stateMutex \in {NoCall, c}
  /\ pc' = [pc EXCEPT ![c] = "reply"]
  /\ Answer(c, "error")
  /\ UNCHANGED <<locals, locks, ledger, crashes>>

\* Something throws between the parsing of the request and the answer, in a
\* statement of the database with the mutex it runs under taken: an open
\* transaction is rolled back, the guards release what they hold, and the catch
\* clause answers.  After the COMMIT the answer denies a transfer that stands.
Throw(c) ==
  /\ pc[c] \in {"validate", "sender", "receiver", "fund", "insert", "transfer", "write", "committed"}
  /\ stateMutex \in {NoCall, c}
  /\ pc' = [pc EXCEPT ![c] = "reply"]
  /\ Answer(c, "error")
  /\ stateMutex' = NoCall
  /\ UNCHANGED <<locals, exclusive, shared, ledger, crashes>>
-----------------------------------------------------------------------------
\* The process dies: locks and locals are gone, the tables stay.
Crash ==
  /\ crashes < MaxCrashes
  /\ \E c \in Call : pc[c] # "idle" /\ ~Finished(c)
  /\ crashes' = crashes + 1
  /\ pc' = [c \in Call |-> IF pc[c] = "idle" \/ Finished(c) THEN pc[c] ELSE "lost"]
  /\ answer' = [c \in Call |-> IF pc[c] = "reply" THEN "none" ELSE answer[c]]
  /\ exclusive' = NoCall /\ shared' = {} /\ stateMutex' = NoCall
  /\ UNCHANGED <<locals, ledger>>

Quiescent ==
  /\ \A c \in Call : Finished(c)
  /\ UNCHANGED vars

Thread(c) ==
  \/ EnterSettle(c)
  \/ EnterVerify(c)
  \/ RejectPayload(c)
  \/ AcceptPayload(c)
  \/ ReadSender(c)
  \/ ReadReceiver(c)
  \/ LockState(c)
  \/ InsertFunds(c)
  \/ ReadForTransfer(c)
  \/ Commit(c)
  \/ Confirm(c)
  \/ Throw(c)
  \/ Reply(c)

Next ==
  \/ \E c \in Call : \/ \E k \in {"settle", "verify"} : Arrive(c, k)
                     \/ Thread(c)
  \/ Crash
  \/ Quiescent

Spec == Init /\ [][Next]_vars

\* A thread that can run runs, and a thread that waits for a mutex gets it when
\* it is free from then on.
FairSpec == Spec /\ \A c \in Call : WF_vars(Thread(c))
-----------------------------------------------------------------------------
TypeOK ==
  /\ pc \in [Call -> PC]
  /\ kind \in [Call -> {"none", "settle", "verify"}]
  /\ auth \in [Call -> Authorization]
  /\ answer \in [Call -> Answers]
  /\ seen \in [Call -> [sender : 0..MaxUint, receiver : 0..MaxUint]]
  /\ exclusive \in Call \cup {NoCall}
  /\ shared \subseteq Call
  /\ stateMutex \in Call \cup {NoCall}
  /\ rows \in [Wallet -> Nat]
  /\ balance \in [Wallet -> 0..MaxUint]
  /\ transactions \subseteq Call
  /\ funded \subseteq Wallet
  /\ crashes \in 0..MaxCrashes

\* EasyNetDb::state has no unique index; that a wallet has one row only follows
\* from the locks around the SELECT and the INSERT of the funding.
OneRowPerWallet == \A w \in Wallet : rows[w] <= 1

\* What verification found affordable is still affordable when the transfer
\* reads the balances again, two locks and a funding later.
VerifiedSettleCanTransfer == \A c \in Call : pc[c] = "transfer" => CanTransfer(c)

\* The values about to be written were computed from balances that are still
\* current: no update is lost between transferValueUnsafe's SELECT and COMMIT.
NoLostUpdate ==
  \A c \in Call : pc[c] = "write" =>
    seen[c] = [sender |-> balance[From(c)], receiver |-> ReceiverBalance(c)]

\* The two tables agree after every crash: a balance is the wallet's funding plus
\* what the transactions rows moved in, less what they moved out.
Moved(w, End(_)) == SumFunctionOnSet([c \in Call |-> Value(c)], {c \in transactions : End(c) = w})
StateMatchesTransactions ==
  \A w \in Wallet :
    balance[w] = (IF w \in funded THEN InitialFunding ELSE 0) + Moved(w, To) - Moved(w, From)

\* A settle call answered success = true is in the transactions table, and stays
\* there; one refused for a reason is not, and never will be.  The catch clause's
\* unexpected_settle_error alone leaves it open, because it also catches what is
\* thrown after the COMMIT (EasyNetFacilitator.cpp, lines 52 to 70).
AnswerTellsTheLedger ==
  \A c \in Call : kind[c] = "settle" =>
    /\ answer[c] = "yes" => c \in transactions
    /\ answer[c] = "no" => c \notin transactions

\* Every request gets its answer unless the process dies: the two mutexes are
\* always taken in the same order and always given back.
EveryCallEnds == \A c \in Call : pc[c] = "enter" ~> Finished(c)

\* EasyNetDb.h: processTransferRequest "processes a transfer request between two
\* wallets": whatever is transferred, no tokens appear beyond the fundings.
NothingIsMinted == SumFunction(balance) = InitialFunding * Cardinality(funded)
=============================================================================
