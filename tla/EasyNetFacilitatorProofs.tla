---------------------- MODULE EasyNetFacilitatorProofs ----------------------
(***************************************************************************)
(* Proofs about EasyNetFacilitator for any number of calls, wallets and    *)
(* authorizations, any amounts and any number of crashes: types, one row   *)
(* per wallet, no lost update, a verified settlement can be transferred,   *)
(* answers that agree with the ledger, and, where nobody pays itself,      *)
(* tables that agree with each other and no money made.                    *)
(*                                                                         *)
(* The argument needs mutex_ only: a settle call inside it is alone inside *)
(* it, so what it has read stays true.  stateMutex_ plays no part.         *)
(***************************************************************************)
EXTENDS EasyNetFacilitator, FiniteSums, TLAPS

\* Who is inside holds mutex_, and in its mode.
Locks ==
  /\ \A c \in Call : Inside(c) => kind[c] \in {"settle", "verify"}
  /\ \A c \in Call : Inside(c) /\ kind[c] = "settle" => exclusive = c
  /\ \A c \in Call : Inside(c) /\ kind[c] = "verify" => c \in shared
  /\ exclusive # NoCall => shared = {}
  /\ \A c \in Call : pc[c] \in {"fund", "insert", "transfer", "write", "committed"} => kind[c] = "settle"

\* What the payer can spend, its funding included.
Spendable(c) == IF rows[From(c)] = 0 THEN InitialFunding ELSE balance[From(c)]

Current(c) == [sender |-> balance[From(c)], receiver |-> ReceiverBalance(c)]

\* What a settle call has read and concluded is true of the tables as they are.
ReadsHold(c) ==
  /\ pc[c] \in {"receiver", "fund", "insert"} /\ kind[c] = "settle" => seen[c].sender = Spendable(c)
  /\ pc[c] \in {"fund", "insert"} => Affordable(c)
  /\ pc[c] = "insert" => rows[From(c)] = 0
  /\ pc[c] \in {"transfer", "write"} => CanTransfer(c)
  /\ pc[c] = "write" => seen[c] = Current(c)

\* Which calls can have an answer or a row in `transactions'.
Results ==
  \A c \in Call :
    /\ pc[c] \in {"idle", "enter", "validate", "sender", "receiver", "fund",
                 "insert", "transfer", "write"}
         => answer[c] = "none" /\ c \notin transactions
    /\ pc[c] = "committed" => answer[c] = "none" /\ c \in transactions
    /\ kind[c] = "settle" /\ answer[c] = "yes" => c \in transactions
    /\ kind[c] = "settle" /\ answer[c] = "no" => c \notin transactions

\* The inductive invariant.
IInv ==
  /\ TypeOK
  /\ Locks
  /\ OneRowPerWallet
  /\ \A c \in Call : ReadsHold(c)
  /\ Results

USE DEF Goto, Answer, Inside, Finished, locks, locals, ledger

\* The parts of an authorization.
LEMMA Parts ==
  ASSUME TypeOK, NEW c \in Call
  PROVE  From(c) \in Wallet /\ To(c) \in Wallet /\ Value(c) \in 0..MaxUint
BY AuthorizationAssumption DEF TypeOK, From, To, Value

\* The exclusive lock: a settle call inside it shares it with nobody.
LEMMA Alone ==
  ASSUME Locks, NEW c \in Call, NEW d \in Call, Inside(c), kind[c] = "settle", Inside(d)
  PROVE  d = c
BY AuthorizationAssumption DEF Locks

\* The receiver's balance as the transfer sees it is a u256.
LEMMA ReceiverType ==
  ASSUME TypeOK, NEW c \in Call
  PROVE  ReceiverBalance(c) \in 0..MaxUint
BY Parts, FundingAssumption DEF TypeOK, ReceiverBalance
-----------------------------------------------------------------------------
\* Types are preserved: the subtraction and the addition of a transfer stay in
\* range because of what the call has checked under the lock.
LEMMA TypeStep == IInv /\ [Next]_vars => TypeOK'
<1> SUFFICES ASSUME IInv, [Next]_vars PROVE TypeOK'
  OBVIOUS
<1> USE DEF IInv, TypeOK, PC, Answers
<1> USE FundingAssumption, AuthorizationAssumption
<1>1. ASSUME NEW c \in Call, NEW k \in {"settle", "verify"}, Arrive(c, k) PROVE TypeOK'
  BY <1>1 DEF Arrive
<1>2. ASSUME NEW c \in Call, EnterSettle(c) \/ EnterVerify(c) \/ Reply(c) PROVE TypeOK'
  BY <1>2 DEF EnterSettle, EnterVerify, Reply
<1>3. ASSUME NEW c \in Call, RejectPayload(c) \/ AcceptPayload(c) \/ ReadReceiver(c)
      PROVE  TypeOK'
  BY <1>3 DEF RejectPayload, AcceptPayload, ReadReceiver
<1>4. ASSUME NEW c \in Call, ReadSender(c) PROVE TypeOK'
  BY <1>4, Parts DEF ReadSender
<1>5. ASSUME NEW c \in Call, LockState(c) \/ Throw(c) \/ Confirm(c) PROVE TypeOK'
  BY <1>5 DEF LockState, Throw, Confirm
<1>6. ASSUME NEW c \in Call, InsertFunds(c) PROVE TypeOK'
  BY <1>6, Parts DEF InsertFunds
<1>7. ASSUME NEW c \in Call, ReadForTransfer(c) PROVE TypeOK'
  BY <1>7, Parts, ReceiverType DEF ReadForTransfer
<1>8. ASSUME NEW c \in Call, Commit(c) PROVE TypeOK'
  <2>1. /\ From(c) \in Wallet /\ To(c) \in Wallet
        /\ seen[c].sender - Value(c) \in 0..MaxUint
        /\ seen[c].receiver + Value(c) \in 0..MaxUint
    BY <1>8, Parts, ReceiverType DEF Commit, ReadsHold, Current, CanTransfer
  <2>2. balance' \in [Wallet -> 0..MaxUint]
    BY <1>8, <2>1 DEF Commit
  <2>3. QED
    BY <1>8, <2>1, <2>2 DEF Commit
<1>9. ASSUME Crash PROVE TypeOK'
  BY <1>9 DEF Crash
<1>10. ASSUME Quiescent \/ UNCHANGED vars PROVE TypeOK'
  BY <1>10 DEF Quiescent, vars
<1>11. QED
  BY <1>1, <1>2, <1>3, <1>4, <1>5, <1>6, <1>7, <1>8, <1>9, <1>10 DEF Next, Thread

\* The discipline of mutex_ is preserved.
LEMMA LockStep == IInv /\ [Next]_vars => Locks'
<1> SUFFICES ASSUME IInv, [Next]_vars PROVE Locks'
  OBVIOUS
<1> USE DEF IInv, TypeOK, PC, Locks
<1> USE AuthorizationAssumption
<1>1. ASSUME NEW c \in Call, NEW k \in {"settle", "verify"}, Arrive(c, k) PROVE Locks'
  BY <1>1 DEF Arrive
<1>2. ASSUME NEW c \in Call, EnterSettle(c) PROVE Locks'
  BY <1>2 DEF EnterSettle
<1>3. ASSUME NEW c \in Call, EnterVerify(c) PROVE Locks'
  BY <1>3 DEF EnterVerify
<1>4. ASSUME NEW c \in Call, Reply(c) PROVE Locks'
  BY <1>4 DEF Reply
<1>5. ASSUME NEW c \in Call, RejectPayload(c) \/ AcceptPayload(c) \/ ReadSender(c)
                            \/ ReadReceiver(c)
      PROVE  Locks'
  BY <1>5 DEF RejectPayload, AcceptPayload, ReadSender, ReadReceiver
<1>6. ASSUME NEW c \in Call, LockState(c) \/ InsertFunds(c) PROVE Locks'
  BY <1>6 DEF LockState, InsertFunds
<1>7. ASSUME NEW c \in Call, ReadForTransfer(c) \/ Commit(c) PROVE Locks'
  BY <1>7 DEF ReadForTransfer, Commit
<1>8. ASSUME NEW c \in Call, Throw(c) \/ Confirm(c) PROVE Locks'
  BY <1>8 DEF Throw, Confirm
<1>9. ASSUME Crash PROVE Locks'
  BY <1>9 DEF Crash
<1>10. ASSUME Quiescent \/ UNCHANGED vars PROVE Locks'
  BY <1>10 DEF Quiescent, vars
<1>11. QED
  BY <1>1, <1>2, <1>3, <1>4, <1>5, <1>6, <1>7, <1>8, <1>9, <1>10 DEF Next, Thread
-----------------------------------------------------------------------------
\* What a call has read stays true while its own locals and either the tables or
\* nothing inside the lock stays.
LEMMA Frame ==
  ASSUME NEW d \in Call, ReadsHold(d), pc'[d] = pc[d], kind'[d] = kind[d],
         seen'[d] = seen[d], auth' = auth, UNCHANGED <<rows, balance>> \/ ~Inside(d)
  PROVE  ReadsHold(d)'
<1> USE DEF ReadsHold, Spendable, Affordable, CanTransfer, Current, ReceiverBalance, From, To, Value
<1>1. CASE UNCHANGED <<rows, balance>>
  BY <1>1
<1>2. CASE ~Inside(d)
  BY <1>2
<1>3. QED
  BY <1>1, <1>2

\* A call that is not about to touch the ledger has read nothing that matters.
LEMMA Outside ==
  ASSUME NEW d \in Call, pc'[d] \in {"idle", "enter", "validate", "sender", "committed", "reply", "done", "lost"}
  PROVE  ReadsHold(d)'
BY DEF ReadsHold

\* What every call has read is still true after any step of any other.
LEMMA ReadStep ==
  ASSUME IInv, [Next]_vars
  PROVE  (\A d \in Call : ReadsHold(d))' /\ OneRowPerWallet'
<1> USE DEF IInv, TypeOK
<1> DEFINE Good == (\A d \in Call : ReadsHold(d))' /\ OneRowPerWallet'
<1>1. ASSUME NEW c \in Call, UNCHANGED <<auth, rows, balance>>,
             \A d \in Call \ {c} : pc'[d] = pc[d] /\ kind'[d] = kind[d] /\ seen'[d] = seen[d],
             ReadsHold(c)'
      PROVE  Good
  <2>1. \A d \in Call : ReadsHold(d)'
    BY <1>1, Frame
  <2>2. OneRowPerWallet'
    BY <1>1 DEF OneRowPerWallet
  <2>3. QED
    BY <2>1, <2>2
<1>2. ASSUME NEW c \in Call, UNCHANGED auth, Inside(c), kind[c] = "settle",
             \A d \in Call \ {c} : pc'[d] = pc[d] /\ kind'[d] = kind[d] /\ seen'[d] = seen[d],
             ReadsHold(c)', OneRowPerWallet'
      PROVE  Good
  BY <1>2, Frame, Alone
<1>3. ASSUME NEW c \in Call, NEW k \in {"settle", "verify"}, Arrive(c, k) PROVE Good
  BY <1>1, <1>3, Outside DEF Arrive
<1>4. ASSUME NEW c \in Call, EnterSettle(c) \/ EnterVerify(c) \/ Reply(c) \/ RejectPayload(c)
                            \/ AcceptPayload(c) \/ Confirm(c) \/ Throw(c)
      PROVE  Good
  <2>1. pc'[c] \in {"validate", "sender", "reply", "done"}
    BY <1>4 DEF EnterSettle, EnterVerify, Reply, RejectPayload, AcceptPayload, Confirm, Throw
  <2>2. /\ UNCHANGED <<auth, rows, balance>>
        /\ \A d \in Call \ {c} : pc'[d] = pc[d] /\ kind'[d] = kind[d] /\ seen'[d] = seen[d]
    BY <1>4 DEF EnterSettle, EnterVerify, Reply, RejectPayload, AcceptPayload, Confirm, Throw
  <2>3. QED
    BY <1>1, <2>1, <2>2, Outside
<1>5. ASSUME NEW c \in Call, ReadSender(c) PROVE Good
  <2>1. ReadsHold(c)'
    BY <1>5 DEF ReadSender, ReadsHold, Spendable, From
  <2>2. QED
    BY <1>1, <1>5, <2>1 DEF ReadSender
<1>6. ASSUME NEW c \in Call, ReadReceiver(c) PROVE Good
  <2>1. ReadsHold(c)'
    BY <1>6 DEF ReadReceiver, ReadsHold, Spendable, Affordable, From, To, Value
  <2>2. QED
    BY <1>1, <1>6, <2>1 DEF ReadReceiver
<1>7. ASSUME NEW c \in Call, LockState(c) PROVE Good
  <2>1. /\ rows[From(c)] = 0 => Affordable(c) /\ seen[c].sender = Spendable(c) /\ pc'[c] = "insert"
        /\ rows[From(c)] > 0 => CanTransfer(c) /\ pc'[c] = "transfer"
        /\ rows[From(c)] = 0 \/ rows[From(c)] > 0
    BY <1>7, Parts, FundingAssumption
    DEF LockState, ReadsHold, Locks, Affordable, CanTransfer, Spendable, ReceiverBalance
  <2>2. ReadsHold(c)'
    BY <1>7, <2>1 DEF LockState, ReadsHold, Spendable, Affordable, CanTransfer, ReceiverBalance,
                      From, To, Value
  <2>3. QED
    BY <1>1, <1>7, <2>2 DEF LockState
<1>8. ASSUME NEW c \in Call, InsertFunds(c) PROVE Good
  <2>1. /\ rows[From(c)] = 0
        /\ Value(c) <= InitialFunding
        /\ rows[To(c)] = 0 \/ Value(c) <= MaxUint - balance[To(c)]
    BY <1>8 DEF InsertFunds, ReadsHold, Affordable, Locks, Spendable
  <2>2. /\ rows' = [rows EXCEPT ![From(c)] = 1]
        /\ balance' = [balance EXCEPT ![From(c)] = InitialFunding]
    BY <1>8, <2>1, Parts DEF InsertFunds
  <2>3. UNCHANGED <<From(c), To(c), Value(c)>>
    BY <1>8 DEF InsertFunds, From, To, Value
  <2>4. CanTransfer(c)'
    BY <2>1, <2>2, <2>3, Parts, FundingAssumption DEF CanTransfer, ReceiverBalance
  <2>5. ReadsHold(c)'
    BY <1>8, <2>4 DEF InsertFunds, ReadsHold
  <2>6. OneRowPerWallet'
    BY <2>2, Parts DEF OneRowPerWallet
  <2>7. QED
    BY <1>2, <1>8, <2>5, <2>6 DEF InsertFunds, Locks
<1>9. ASSUME NEW c \in Call, ReadForTransfer(c) PROVE Good
  <2>1. ReadsHold(c)'
    BY <1>9 DEF ReadForTransfer, ReadsHold, Current, CanTransfer, ReceiverBalance, From, To, Value
  <2>2. QED
    BY <1>1, <1>9, <2>1 DEF ReadForTransfer
<1>10. ASSUME NEW c \in Call, Commit(c) PROVE Good
  <2>1. ReadsHold(c)'
    BY <1>10, Outside DEF Commit
  <2>2. OneRowPerWallet'
    BY <1>10, Parts DEF Commit, OneRowPerWallet
  <2>3. QED
    BY <1>2, <1>10, <2>1, <2>2 DEF Commit, Locks
<1>11. ASSUME Crash PROVE Good
  <2>1. \A d \in Call : pc'[d] \in {"idle", "done", "lost"}
    BY <1>11 DEF Crash
  <2>2. QED
    BY <1>11, <2>1, Outside DEF Crash, OneRowPerWallet
<1>12. ASSUME Quiescent \/ UNCHANGED vars PROVE Good
  BY <1>12, Frame DEF Quiescent, vars, OneRowPerWallet
<1>13. QED
  BY <1>3, <1>4, <1>5, <1>6, <1>7, <1>8, <1>9, <1>10, <1>11, <1>12 DEF Next, Thread
-----------------------------------------------------------------------------
\* Answers and transactions rows come into being together.
LEMMA ResultStep == IInv /\ [Next]_vars => Results'
<1> SUFFICES ASSUME IInv, [Next]_vars PROVE Results'
  OBVIOUS
<1> USE DEF IInv, TypeOK, PC, Locks, Results
<1>1. ASSUME NEW c \in Call, NEW k \in {"settle", "verify"}, Arrive(c, k) PROVE Results'
  BY <1>1 DEF Arrive
<1>2. ASSUME NEW c \in Call, EnterSettle(c) \/ EnterVerify(c) \/ Reply(c) PROVE Results'
  BY <1>2 DEF EnterSettle, EnterVerify, Reply
<1>3. ASSUME NEW c \in Call, RejectPayload(c) \/ AcceptPayload(c) \/ ReadSender(c)
      PROVE  Results'
  BY <1>3 DEF RejectPayload, AcceptPayload, ReadSender
<1>4. ASSUME NEW c \in Call, ReadReceiver(c) PROVE Results'
  BY <1>4 DEF ReadReceiver
<1>5. ASSUME NEW c \in Call, LockState(c) \/ InsertFunds(c) PROVE Results'
  BY <1>5 DEF LockState, InsertFunds
<1>6. ASSUME NEW c \in Call, ReadForTransfer(c) PROVE Results'
  BY <1>6 DEF ReadForTransfer
<1>7. ASSUME NEW c \in Call, Commit(c) PROVE Results'
  BY <1>7 DEF Commit
<1>8. ASSUME NEW c \in Call, Throw(c) \/ Confirm(c) PROVE Results'
  BY <1>8 DEF Throw, Confirm
<1>9. ASSUME Crash PROVE Results'
  BY <1>9 DEF Crash
<1>10. ASSUME Quiescent \/ UNCHANGED vars PROVE Results'
  BY <1>10 DEF Quiescent, vars
<1>11. QED
  BY <1>1, <1>2, <1>3, <1>4, <1>5, <1>6, <1>7, <1>8, <1>9, <1>10 DEF Next, Thread

\* The inductive invariant holds in every reachable state.
LEMMA Invariance == Spec => []IInv
<1>1. Init => IInv
  BY FundingAssumption, AuthorizationAssumption
  DEF Init, IInv, TypeOK, PC, Answers, Locks, OneRowPerWallet, ReadsHold, Results
<1>2. IInv /\ [Next]_vars => IInv'
  BY TypeStep, LockStep, ReadStep, ResultStep DEF IInv
<1>3. QED
  BY <1>1, <1>2, PTL DEF Spec

\* Every balance stays a u256 and every variable keeps its type, for any amounts:
\* no transfer underflows or overflows.
THEOREM LedgerTypes == Spec => []TypeOK
<1>1. IInv => TypeOK
  BY DEF IInv
<1>2. QED
  BY <1>1, Invariance, PTL

\* A wallet never gets a second row, although nothing in the schema forbids it.
THEOREM OneRow == Spec => []OneRowPerWallet
<1>1. IInv => OneRowPerWallet
  BY DEF IInv
<1>2. QED
  BY <1>1, Invariance, PTL

\* The transfer of a verified settlement never finds the balance insufficient.
THEOREM VerificationStands == Spec => []VerifiedSettleCanTransfer
<1>1. IInv => VerifiedSettleCanTransfer
  BY DEF IInv, ReadsHold, VerifiedSettleCanTransfer
<1>2. QED
  BY <1>1, Invariance, PTL

\* The balances a transfer computes with are the balances it replaces.
THEOREM NoUpdateLost == Spec => []NoLostUpdate
<1>1. IInv => NoLostUpdate
  BY DEF IInv, ReadsHold, Current, NoLostUpdate
<1>2. QED
  BY <1>1, Invariance, PTL

\* A settle call is answered success = true only if its row is written, and refused
\* for a reason only if it is not.
THEOREM TruthfulAnswers == Spec => []AnswerTellsTheLedger
<1>1. IInv => AnswerTellsTheLedger
  BY DEF IInv, Results, AnswerTellsTheLedger
<1>2. QED
  BY <1>1, Invariance, PTL
-----------------------------------------------------------------------------
(***************************************************************************)
(* The two tables agree, where no wallet pays itself (there, Commit writes *)
(* one row twice and the tables disagree: the run ledger_self)             *)
(***************************************************************************)
NobodyPaysItself == \A a \in Authorization : a.from # a.to

\* What the agreement of the tables rests on: a wallet without a row has been given
\* nothing, and there is a finite number of transactions to add up.
Books ==
  /\ IsFiniteSet(transactions)
  /\ \A w \in Wallet : rows[w] = 0 => balance[w] = 0 /\ w \notin funded
  /\ StateMatchesTransactions

Values == [c \in Call |-> Value(c)]
In(w) == {c \in transactions : To(c) = w}
Out(w) == {c \in transactions : From(c) = w}
MovedIn(w) == SumFunctionOnSet(Values, In(w))
MovedOut(w) == SumFunctionOnSet(Values, Out(w))

LEMMA MovedIsSum ==
  ASSUME NEW w \in Wallet
  PROVE  Moved(w, To) = MovedIn(w) /\ Moved(w, From) = MovedOut(w)
BY DEF Moved, MovedIn, MovedOut, In, Out, Values

\* What has been moved is a number.
LEMMA MovedType ==
  ASSUME TypeOK, IsFiniteSet(transactions), NEW w \in Wallet
  PROVE  /\ IsFiniteSet(In(w)) /\ IsFiniteSet(Out(w))
         /\ \A c \in Call : Values[c] \in Int
         /\ MovedIn(w) \in Int /\ MovedOut(w) \in Int
<1>1. IsFiniteSet(In(w)) /\ IsFiniteSet(Out(w))
  BY FS_Subset DEF In, Out
<1>2. \A c \in Call : Values[c] \in Int
  BY Parts, FundingAssumption DEF Values
<1>3. In(w) \subseteq Call /\ Out(w) \subseteq Call
  BY DEF In, Out, TypeOK
<1>4. QED
  BY <1>1, <1>2, <1>3, SumType DEF MovedIn, MovedOut

\* A new transactions row counts once for each of its ends.
LEMMA MovedByCommit ==
  ASSUME TypeOK, IsFiniteSet(transactions), NEW c \in Call, c \notin transactions,
         auth' = auth, transactions' = transactions \cup {c}, NEW w \in Wallet
  PROVE  /\ MovedIn(w)' = MovedIn(w) + (IF To(c) = w THEN Value(c) ELSE 0)
         /\ MovedOut(w)' = MovedOut(w) + (IF From(c) = w THEN Value(c) ELSE 0)
<1>1. /\ IsFiniteSet(In(w)) /\ IsFiniteSet(Out(w))
      /\ \A d \in Call : Values[d] \in Int
      /\ MovedIn(w) \in Int /\ MovedOut(w) \in Int
  BY MovedType
<1>2. Values' = Values /\ Values[c] = Value(c) /\ \A d \in Call : To(d)' = To(d) /\ From(d)' = From(d)
  BY DEF Values, Value, To, From
<1>3. transactions \subseteq Call /\ In(w) \subseteq Call /\ Out(w) \subseteq Call /\ c \notin In(w) /\ c \notin Out(w)
  BY DEF TypeOK, In, Out
<1>4. In(w)' = IF To(c) = w THEN In(w) \cup {c} ELSE In(w)
  BY <1>2, <1>3 DEF In
<1>5. Out(w)' = IF From(c) = w THEN Out(w) \cup {c} ELSE Out(w)
  BY <1>2, <1>3 DEF Out
<1>6. /\ SumFunctionOnSet(Values, In(w) \cup {c}) = SumFunctionOnSet(Values, In(w)) + Values[c]
      /\ SumFunctionOnSet(Values, Out(w) \cup {c}) = SumFunctionOnSet(Values, Out(w)) + Values[c]
  BY <1>1, <1>3, SumAdds
<1>7. MovedIn(w)' = SumFunctionOnSet(Values, In(w)') /\ MovedOut(w)' = SumFunctionOnSet(Values, Out(w)')
  BY <1>2 DEF MovedIn, MovedOut
<1>8. MovedIn(w) = SumFunctionOnSet(Values, In(w)) /\ MovedOut(w) = SumFunctionOnSet(Values, Out(w))
  BY DEF MovedIn, MovedOut
<1>9. MovedIn(w)' = MovedIn(w) + (IF To(c) = w THEN Value(c) ELSE 0)
  BY <1>1, <1>2, <1>4, <1>6, <1>7, <1>8
<1>10. MovedOut(w)' = MovedOut(w) + (IF From(c) = w THEN Value(c) ELSE 0)
  BY <1>1, <1>2, <1>5, <1>6, <1>7, <1>8
<1>11. QED
  BY <1>9, <1>10

\* Steps that leave the tables alone.
LEMMA BooksFrame == ASSUME Books, UNCHANGED <<auth, ledger>> PROVE Books'
BY DEF Books, StateMatchesTransactions, Moved, From, To, Value

Funded(w) == IF w \in funded THEN InitialFunding ELSE 0

\* The funding of a wallet that has no row: its balance was zero, as its sums say.
LEMMA FundingKeepsBooks ==
  ASSUME IInv, Books, NEW c \in Call, InsertFunds(c)
  PROVE  Books'
<1> USE DEF IInv
<1>1. From(c) \in Wallet /\ rows[From(c)] = 0 /\ InitialFunding \in Nat
  BY Parts, FundingAssumption DEF InsertFunds, ReadsHold
<1>2. /\ rows' = [rows EXCEPT ![From(c)] = 1]
      /\ balance' = [balance EXCEPT ![From(c)] = InitialFunding]
      /\ funded' = funded \cup {From(c)}
      /\ UNCHANGED <<auth, transactions>>
  BY <1>1 DEF InsertFunds, TypeOK
<1>3. \A w \in Wallet : Moved(w, To)' = Moved(w, To) /\ Moved(w, From)' = Moved(w, From)
  BY <1>2 DEF Moved, From, To, Value
<1>4. \A w \in Wallet : Moved(w, To) \in Int /\ Moved(w, From) \in Int
  BY MovedType, MovedIsSum DEF Books
<1>5. ASSUME NEW w \in Wallet
      PROVE  /\ rows'[w] = 0 => balance'[w] = 0 /\ w \notin funded'
             /\ balance'[w] = Funded(w)' + Moved(w, To)' - Moved(w, From)'
  <2>1. balance[w] = Funded(w) + Moved(w, To) - Moved(w, From)
    BY DEF Books, StateMatchesTransactions, Funded
  <2>2. CASE w = From(c)
    <3>1. balance'[w] = InitialFunding /\ rows'[w] = 1 /\ Funded(w)' = InitialFunding
      BY <1>1, <1>2, <2>2 DEF TypeOK, Funded
    <3>2. balance[w] = 0 /\ Funded(w) = 0
      BY <1>1, <2>2 DEF Books, Funded
    <3>3. QED
      BY <1>1, <1>3, <1>4, <2>1, <3>1, <3>2
  <2>3. CASE w # From(c)
    <3>1. balance'[w] = balance[w] /\ rows'[w] = rows[w] /\ (w \in funded' <=> w \in funded)
      BY <1>2, <2>3 DEF TypeOK
    <3>2. Funded(w)' = Funded(w)
      BY <3>1 DEF Funded
    <3>3. QED
      BY <1>3, <2>1, <3>1, <3>2 DEF Books
  <2>4. QED
    BY <2>2, <2>3
<1>6. QED
  BY <1>2, <1>5 DEF Books, StateMatchesTransactions, Funded

\* A transfer: the sender's balance falls and the receiver's rises by the value of
\* the one new row, because what is written was computed from the current balances.
LEMMA CommitKeepsBooks ==
  ASSUME NobodyPaysItself, IInv, Books, NEW c \in Call, Commit(c)
  PROVE  Books'
<1> USE DEF IInv
<1> DEFINE f == From(c)
           t == To(c)
           v == Value(c)
<1>1. f \in Wallet /\ t \in Wallet /\ v \in Nat /\ f # t
  BY Parts, FundingAssumption DEF NobodyPaysItself, TypeOK, From, To
<1>2. rows[f] > 0 /\ seen[c].sender = balance[f] /\ seen[c].receiver = ReceiverBalance(c)
  <2>1. pc[c] = "write" /\ ReadsHold(c)
    BY DEF Commit
  <2>2. CanTransfer(c) /\ seen[c] = Current(c)
    BY <2>1 DEF ReadsHold
  <2>3. QED
    BY <2>2 DEF CanTransfer, Current
<1>3. seen[c].receiver = balance[t]
  BY <1>1, <1>2 DEF Books, ReceiverBalance
<1>4. c \notin transactions
  BY DEF Commit, Results
<1>5. /\ balance' = [balance EXCEPT ![f] = seen[c].sender - v, ![t] = seen[c].receiver + v]
      /\ rows' = [rows EXCEPT ![t] = IF @ = 0 THEN 1 ELSE @]
      /\ transactions' = transactions \cup {c}
      /\ UNCHANGED <<auth, funded>>
  BY DEF Commit
<1> HIDE DEF f, t, v
<1>6. /\ balance'[f] = balance[f] - v /\ balance'[t] = balance[t] + v
      /\ \A w \in Wallet : w # f /\ w # t => balance'[w] = balance[w]
  BY <1>1, <1>2, <1>3, <1>5 DEF TypeOK
<1>7. \A w \in Wallet : /\ rows[w] \in Nat
                        /\ rows'[w] = IF w = t /\ rows[w] = 0 THEN 1 ELSE rows[w]
  BY <1>1, <1>5 DEF TypeOK
<1>8. \A w \in Wallet : balance[w] \in Int
  BY FundingAssumption DEF TypeOK
<1>9. ASSUME NEW w \in Wallet
      PROVE  /\ rows'[w] = 0 => balance'[w] = 0 /\ w \notin funded'
             /\ balance'[w] = Funded(w)' + Moved(w, To)' - Moved(w, From)'
  <2>1. balance[w] = Funded(w) + MovedIn(w) - MovedOut(w)
    BY MovedIsSum DEF Books, StateMatchesTransactions, Funded
  <2>2. Funded(w)' = Funded(w) /\ Funded(w) \in Int
    BY <1>5, FundingAssumption DEF Funded
  <2>3. MovedIn(w) \in Int /\ MovedOut(w) \in Int
    BY MovedType DEF Books
  <2>4. /\ MovedIn(w)' = MovedIn(w) + (IF t = w THEN v ELSE 0)
        /\ MovedOut(w)' = MovedOut(w) + (IF f = w THEN v ELSE 0)
    BY <1>4, <1>5, MovedByCommit DEF Books, f, t, v
  <2>5. Moved(w, To)' = MovedIn(w)' /\ Moved(w, From)' = MovedOut(w)'
    BY DEF Moved, MovedIn, MovedOut, In, Out, Values
  <2>6. balance'[w] = Funded(w)' + Moved(w, To)' - Moved(w, From)'
    <3>1. CASE w = f
      BY <1>1, <1>6, <1>8, <2>1, <2>2, <2>3, <2>4, <2>5, <3>1
    <3>2. CASE w = t
      BY <1>1, <1>6, <1>8, <2>1, <2>2, <2>3, <2>4, <2>5, <3>2
    <3>3. CASE w # f /\ w # t
      BY <1>1, <1>6, <1>8, <2>1, <2>2, <2>3, <2>4, <2>5, <3>3
    <3>4. QED
      BY <3>1, <3>2, <3>3
  <2>7. ASSUME rows'[w] = 0 PROVE balance'[w] = 0 /\ w \notin funded'
    <3>1. w # t /\ rows[w] = 0
      BY <1>7, <2>7
    <3>2. w # f
      BY <1>2, <3>1
    <3>3. balance'[w] = balance[w] /\ funded' = funded
      BY <1>5, <1>6, <3>1, <3>2
    <3>4. QED
      BY <3>1, <3>3 DEF Books
  <2>8. QED
    BY <2>6, <2>7
<1>10. IsFiniteSet(transactions')
  BY <1>5, FS_AddElement DEF Books
<1>11. QED
  BY <1>9, <1>10 DEF Books, StateMatchesTransactions, Funded

\* Whatever happens, the books are kept.
LEMMA BooksStep ==
  ASSUME NobodyPaysItself, IInv, Books, [Next]_vars
  PROVE  Books'
<1>1. ASSUME NEW c \in Call, NEW k \in {"settle", "verify"}, Arrive(c, k) PROVE Books'
  BY <1>1, BooksFrame DEF Arrive
<1>2. ASSUME NEW c \in Call, EnterSettle(c) \/ EnterVerify(c) \/ Reply(c) \/ RejectPayload(c)
                            \/ AcceptPayload(c)
      PROVE  Books'
  BY <1>2, BooksFrame DEF EnterSettle, EnterVerify, Reply, RejectPayload, AcceptPayload
<1>3. ASSUME NEW c \in Call, ReadSender(c) \/ ReadReceiver(c) \/ LockState(c)
                            \/ ReadForTransfer(c) \/ Confirm(c) \/ Throw(c)
      PROVE  Books'
  BY <1>3, BooksFrame DEF ReadSender, ReadReceiver, LockState, ReadForTransfer, Confirm, Throw
<1>4. ASSUME Crash \/ Quiescent \/ UNCHANGED vars PROVE Books'
  BY <1>4, BooksFrame DEF Crash, Quiescent, vars
<1>5. QED
  BY <1>1, <1>2, <1>3, <1>4, FundingKeepsBooks, CommitKeepsBooks DEF Next, Thread

LEMMA BooksAtStart == Init => Books
<1> SUFFICES ASSUME Init PROVE Books
  OBVIOUS
<1>1. \A w \in Wallet : In(w) = {} /\ Out(w) = {}
  BY DEF Init, In, Out
<1>2. \A w \in Wallet : Moved(w, To) = 0 /\ Moved(w, From) = 0
  BY <1>1, MovedIsSum, SumUnfolds, FS_EmptySet DEF MovedIn, MovedOut
<1>3. QED
  BY <1>2, FS_EmptySet DEF Init, Books, StateMatchesTransactions

\* Where nobody pays itself, balances and transactions agree after every crash and
\* in every interleaving, for any amounts.
THEOREM TablesAgree == ASSUME NobodyPaysItself PROVE Spec => []StateMatchesTransactions
<1>1. Init => Books
  BY BooksAtStart
<1>2. IInv /\ Books /\ [Next]_vars => Books'
  BY BooksStep
<1>3. Books => StateMatchesTransactions
  BY DEF Books
<1>4. QED
  BY <1>1, <1>2, <1>3, Invariance, PTL DEF Spec

\* All tokens are fundings, and they can be counted.
Account ==
  /\ IsFiniteSet(funded)
  /\ SumFunctionOnSet(balance, Wallet) = InitialFunding * Cardinality(funded)

\* A funding adds one funding, a transfer adds nothing.
LEMMA AccountStep ==
  ASSUME NobodyPaysItself, IsFiniteSet(Wallet), IInv, Books, Account, [Next]_vars
  PROVE  Account'
<1> USE DEF IInv
<1>1. InitialFunding \in Nat /\ \A w \in Wallet : balance[w] \in Int
  BY FundingAssumption DEF TypeOK
<1>2. IsFiniteSet(funded) /\ Cardinality(funded) \in Nat
  BY FS_CardinalityType DEF Account
<1>3. ASSUME UNCHANGED <<balance, funded>> PROVE Account'
  BY <1>3 DEF Account
<1>4. ASSUME NEW c \in Call, InsertFunds(c) PROVE Account'
  <2> DEFINE f == From(c)
  <2>1. f \in Wallet /\ rows[f] = 0
    BY <1>4, Parts DEF InsertFunds, ReadsHold
  <2>2. balance[f] = 0 /\ f \notin funded
    BY <2>1 DEF Books
  <2>3. balance' = [balance EXCEPT ![f] = InitialFunding] /\ funded' = funded \cup {f}
    BY <1>4, <2>1 DEF InsertFunds
  <2> HIDE DEF f
  <2>4. balance'[f] = InitialFunding /\ \A w \in Wallet \ {f} : balance'[w] = balance[w]
    BY <2>1, <2>3 DEF TypeOK
  <2> DEFINE after == balance'
  <2>5. (\A w \in Wallet : balance[w] \in Int /\ after[w] \in Int) /\ \A w \in Wallet \ {f} : after[w] = balance[w]
    BY <1>1, <2>4
  <2> HIDE DEF after
  <2>6. SumFunctionOnSet(after, Wallet) = SumFunctionOnSet(balance, Wallet) - balance[f] + after[f]
    BY <2>1, <2>5, SumChanges
  <2> USE DEF after
  <2>7. IsFiniteSet(funded') /\ Cardinality(funded') = Cardinality(funded) + 1
    BY <1>2, <2>2, <2>3, FS_AddElement
  <2>8. InitialFunding * (Cardinality(funded) + 1) = InitialFunding * Cardinality(funded) + InitialFunding
    BY <1>1, <1>2
  <2>9. InitialFunding * Cardinality(funded) \in Int
    BY <1>1, <1>2
  <2>10. SumFunctionOnSet(balance', Wallet) = InitialFunding * Cardinality(funded')
    BY <1>1, <2>2, <2>4, <2>6, <2>7, <2>8, <2>9 DEF Account
  <2>11. QED
    BY <2>7, <2>10 DEF Account
<1>5. ASSUME NEW c \in Call, Commit(c) PROVE Account'
  <2> DEFINE f == From(c)
             t == To(c)
             v == Value(c)
             paid == [balance EXCEPT ![f] = balance[f] - v]
  <2>1. f \in Wallet /\ t \in Wallet /\ v \in Int /\ f # t
    BY Parts, FundingAssumption DEF NobodyPaysItself, TypeOK, From, To
  <2>2. seen[c] = Current(c)
    BY <1>5 DEF Commit, ReadsHold
  <2>3. seen[c].sender = balance[f] /\ seen[c].receiver = balance[t]
    <3>1. ReceiverBalance(c) = balance[t]
      BY <2>1 DEF Books, ReceiverBalance
    <3>2. QED
      BY <2>2, <3>1 DEF Current
  <2>4. balance' = [balance EXCEPT ![f] = balance[f] - v, ![t] = balance[t] + v] /\ funded' = funded
    BY <1>5, <2>3 DEF Commit
  <2> HIDE DEF f, t, v
  <2>5. paid[f] = balance[f] - v /\ \A w \in Wallet \ {f} : paid[w] = balance[w]
    BY <2>1 DEF TypeOK
  <2>6. balance'[t] = paid[t] + v /\ \A w \in Wallet \ {t} : balance'[w] = paid[w]
    BY <2>1, <2>4, <2>5 DEF TypeOK
  <2> DEFINE after == balance'
  <2> HIDE DEF paid
  <2>7. (\A w \in Wallet : paid[w] \in Int /\ after[w] \in Int) /\ \A w \in Wallet \ {t} : after[w] = paid[w]
    BY <1>1, <2>1, <2>5, <2>6
  <2> HIDE DEF after
  <2>8. SumFunctionOnSet(paid, Wallet) = SumFunctionOnSet(balance, Wallet) - balance[f] + paid[f]
    BY <1>1, <2>1, <2>5, <2>7, SumChanges
  <2>9. SumFunctionOnSet(after, Wallet) = SumFunctionOnSet(paid, Wallet) - paid[t] + after[t]
    BY <2>1, <2>7, SumChanges
  <2> USE DEF after
  <2>10. SumFunctionOnSet(balance, Wallet) \in Int
    BY <1>1, SumType
  <2>11. SumFunctionOnSet(balance', Wallet) = SumFunctionOnSet(balance, Wallet)
    BY <1>1, <2>1, <2>5, <2>6, <2>7, <2>8, <2>9, <2>10
  <2>12. QED
    BY <2>4, <2>11 DEF Account
<1>6. ASSUME NEW c \in Call, NEW k \in {"settle", "verify"}, Arrive(c, k) PROVE Account'
  BY <1>3, <1>6 DEF Arrive
<1>7. ASSUME NEW c \in Call, EnterSettle(c) \/ EnterVerify(c) \/ Reply(c) \/ RejectPayload(c)
                            \/ AcceptPayload(c)
      PROVE  Account'
  BY <1>3, <1>7 DEF EnterSettle, EnterVerify, Reply, RejectPayload, AcceptPayload
<1>8. ASSUME NEW c \in Call, ReadSender(c) \/ ReadReceiver(c) \/ LockState(c)
                            \/ ReadForTransfer(c) \/ Confirm(c) \/ Throw(c)
      PROVE  Account'
  BY <1>3, <1>8 DEF ReadSender, ReadReceiver, LockState, ReadForTransfer, Confirm, Throw
<1>9. ASSUME Crash \/ Quiescent \/ UNCHANGED vars PROVE Account'
  BY <1>3, <1>9 DEF Crash, Quiescent, vars
<1>10. QED
  BY <1>4, <1>5, <1>6, <1>7, <1>8, <1>9 DEF Next, Thread

\* Tokens come from fundings alone where nobody pays itself: a payment to oneself
\* is the only way to mint (the run ledger_self shows it).
THEOREM OnlySelfPaymentsMint ==
  ASSUME NobodyPaysItself, IsFiniteSet(Wallet) PROVE Spec => []NothingIsMinted
<1>1. Init => Account
  <2> SUFFICES ASSUME Init PROVE Account
    OBVIOUS
  <2>1. funded = {} /\ \A w \in Wallet : balance[w] = 0
    BY DEF Init
  <2>2. SumFunctionOnSet(balance, Wallet) = 0
    BY <2>1, SumOfZeros
  <2>3. InitialFunding * 0 = 0
    BY FundingAssumption
  <2>4. QED
    BY <2>1, <2>2, <2>3, FS_EmptySet DEF Account
<1>2. IInv /\ Books /\ Account /\ [Next]_vars => Account'
  BY AccountStep
<1>3. IInv /\ Account => NothingIsMinted
  <2> SUFFICES ASSUME IInv, Account PROVE NothingIsMinted
    OBVIOUS
  <2>1. DOMAIN balance = Wallet
    BY DEF IInv, TypeOK
  <2>2. QED
    BY <2>1 DEF Account, NothingIsMinted, SumFunction
<1>4. Init => Books
  BY BooksAtStart
<1>5. IInv /\ Books /\ [Next]_vars => Books'
  BY BooksStep
<1>6. QED
  BY <1>1, <1>2, <1>3, <1>4, <1>5, Invariance, PTL DEF Spec
=============================================================================
