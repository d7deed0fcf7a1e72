--------------------------- MODULE PurchaseProofs ---------------------------
(***************************************************************************)
(* Proofs about Purchase: what buyers are told agrees with what the ledger *)
(* took, and punctual buyers are let in, for any number of buyers and      *)
(* threads, any clocks, any window and any prices.                         *)
(***************************************************************************)
EXTENDS Purchase, TLAPS

\* Where a purchase and its settle call can be together.  A call exists from the
\* moment pre-validation let the buyer in; while it waits, the requirements it
\* was made from are in force and its window has begun.
Fates ==
  \A b \in Buyer :
    /\ outcome[b] = "none" <=> step[b] # "over"
    /\ gw[b] \in {"settling", "fetching"} => step[b] = "paying"
    /\ gw[b] = "fetching" => fac[b] \in {"moved", "refused"}
    /\ fac[b] # "none" => /\ step[b] = "over" \/ (step[b] = "paying" /\ gw[b] \in {"settling", "fetching"})
                          /\ gw[b] # "queued"
                          /\ outcome[b] # "refused"
    /\ outcome[b] = "bought" => fac[b] \in {"moved", "refused"}
    /\ IF fac[b] = "moved" THEN charged[b] = offer[b] ELSE charged[b] = 0

\* Signatures are not from the future of the gateway's clock.
Clocks ==
  \A b \in Buyer : /\ signed[b] <= now
                   /\ fac[b] = "queued" => offer[b] = price /\ ValidAfter(b) <= now

IInv == TypeOK /\ Fates /\ Clocks

USE PriceAssumption, ClockAssumption, RestartAssumption, ThreadAssumption

\* The clocks are integers.
LEMMA Times == TypeOK => now \in Nat /\ \A b \in Buyer : signed[b] \in Nat /\ skew[b] \in Int
<1> SUFFICES ASSUME TypeOK PROVE now \in Nat /\ \A b \in Buyer : signed[b] \in Nat /\ skew[b] \in Int
  OBVIOUS
<1>1. now \in Nat
  BY DEF TypeOK
<1>2. ASSUME NEW b \in Buyer PROVE signed[b] \in Nat /\ skew[b] \in Int
  <2>1. signed[b] \in 0..MaxTime
    BY DEF TypeOK
  <2>2. signed[b] \in Nat
    BY <2>1
  <2>3. skew[b] \in Skew
    BY DEF TypeOK
  <2>4. skew[b] \in Int
    BY <2>3, ClockAssumption, Zenon
  <2> QED
    BY <2>2, <2>4
<1> QED
  BY <1>1, <1>2

\* The first state.
LEMMA InitIInv == Init => IInv
<1> SUFFICES ASSUME Init PROVE IInv
  OBVIOUS
<1>1. (CHOOSE t \in Thread : TRUE) \in Thread
  OBVIOUS
<1>2. TypeOK
  BY <1>1 DEF Init, TypeOK
<1>3. Fates /\ Clocks
  BY DEF Init, Fates, Clocks, ValidAfter
<1> QED
  BY <1>2, <1>3 DEF IInv

\* Every step keeps the invariant.
LEMMA NextIInv == IInv /\ [Next]_vars => IInv'
<1> SUFFICES ASSUME IInv, [Next]_vars PROVE IInv'
  OBVIOUS
<1> USE DEF IInv, TypeOK, Fates, Clocks, ValidAfter, world, buyers, calls
<1>1. ASSUME NEW b \in Buyer, Ask(b) PROVE IInv'
  BY <1>1 DEF Ask, doX402Request
<1>2. ASSUME NEW b \in Buyer, Pay(b) PROVE IInv'
  BY <1>2 DEF Pay, doX402Request
<1>3. ASSUME NEW b \in Buyer, runClientCommand(b) PROVE IInv'
  <2>1. UNCHANGED <<world, calls>>
    BY <1>3 DEF runClientCommand
  <2>2. CASE step[b] = "new" /\ Ends(b, "error") /\ UNCHANGED <<offer, signed, thread>>
    BY <2>1, <2>2 DEF Ends
  <2>3. CASE /\ doX402Request(b, "new", "paying")
             /\ \E p \in Price : offer' = [offer EXCEPT ![b] = p]
             /\ \E t \in 0..now : signed' = [signed EXCEPT ![b] = t]
             /\ UNCHANGED outcome
    <3>1. PICK t \in 0..now : signed' = [signed EXCEPT ![b] = t]
      BY <2>3
    <3>2. t \in 0..MaxTime /\ t <= now
      BY <3>1, ClockAssumption
    <3> QED
      BY <2>1, <2>3, <3>1, <3>2 DEF doX402Request
  <2>4. CASE doX402Request(b, "new", "asking") /\ UNCHANGED <<offer, signed, outcome>>
    BY <2>1, <2>4 DEF doX402Request
  <2> QED
    BY <1>3, <2>2, <2>3, <2>4 DEF runClientCommand
<1>4. ASSUME NEW b \in Buyer, AnswerAsking(b) PROVE IInv'
  BY <1>4 DEF AnswerAsking, Handle, Ends
<1>5. ASSUME NEW b \in Buyer, HandlePayment(b) PROVE IInv'
  <2>1. Handle(b, "paying") /\ UNCHANGED <<world, offer, signed, thread, charged>>
    BY <1>5 DEF HandlePayment
  <2>2. ASSUME NEW how \in {"refused", "error"}, Ends(b, how), UNCHANGED <<fac, facThread>>
        PROVE  IInv'
    BY <2>1, <2>2 DEF Handle, Ends
  <2>3. CASE /\ validate(b)
             /\ gw' = [gw EXCEPT ![b] = "settling"]
             /\ fac' = [fac EXCEPT ![b] = "queued"]
             /\ \E t \in Thread : facThread' = [facThread EXCEPT ![b] = t]
             /\ UNCHANGED <<step, outcome>>
    <3>1. offer[b] = price /\ signed[b] + skew[b] <= now
      BY <2>3, Times DEF validate, checkValidityTime
    <3> QED
      BY <2>1, <2>3, <3>1 DEF Handle
  <2> QED
    BY <1>5, <2>2, <2>3 DEF HandlePayment
<1>6. ASSUME NEW b \in Buyer, FacilitatorExecutes(b) PROVE IInv'
  BY <1>6 DEF FacilitatorExecutes, validate
<1>7. ASSUME NEW b \in Buyer, SettleReturns(b) PROVE IInv'
  BY <1>7 DEF SettleReturns
<1>8. ASSUME NEW b \in Buyer, SettleCallThrows(b) PROVE IInv'
  BY <1>8 DEF SettleCallThrows, Ends
<1>9. ASSUME NEW b \in Buyer, BackendReplies(b) PROVE IInv'
  BY <1>9 DEF BackendReplies, Ends
<1>10. CASE Tick
  BY <1>10, Times DEF Tick
<1>11. CASE Restart
  BY <1>11 DEF Restart
<1>12. CASE UNCHANGED vars
  BY <1>12 DEF vars
<1> QED
  BY <1>1, <1>2, <1>3, <1>4, <1>5, <1>6, <1>7, <1>8, <1>9, <1>10, <1>11, <1>12
     DEF Next, Work, Quiescent

\* The invariant holds in every behaviour.
LEMMA Invariance == Spec => []IInv
BY InitIInv, NextIInv, PTL DEF Spec

\* Type correctness: the ledger takes nothing but configured prices.
THEOREM TypeCorrect == Spec => []TypeOK
BY Invariance, PTL DEF IInv

\* Answer and ledger agree as far as the buyer can tell, for any number of buyers
\* and threads and whatever is delayed, given up or cut by a restart.
THEOREM AnswersAgree == Spec => []ChargesMatchAnswers
<1>1. IInv => ChargesMatchAnswers
  BY DEF IInv, TypeOK, Fates, ChargesMatchAnswers
<1> QED
  BY <1>1, Invariance, PTL

\* Punctual buyers are accepted, whatever the window and the clocks.
THEOREM PunctualityPays == Spec => PunctualBuyersAreAccepted
<1> DEFINE Late(b) == now > signed[b] + skew[b] + Window
           Fair == \A b \in Buyer :
                     /\ outcome'[b] = "refused" /\ outcome[b] = "none" =>
                          offer[b] # price \/ skew[b] > 0 \/ Late(b)
                     /\ fac'[b] = "refused" /\ fac[b] = "queued" => Late(b)
<1>1. IInv /\ [Next]_vars => [Fair]_vars
  <2> SUFFICES ASSUME IInv, [Next]_vars PROVE Fair
    OBVIOUS
  <2> USE DEF IInv, TypeOK, Fates, Clocks, ValidAfter, world, buyers, calls
  <2>1. ASSUME NEW b \in Buyer, HandlePayment(b) PROVE Fair
    <3>1. ~validate(b) => offer[b] # price \/ skew[b] > 0 \/ Late(b)
      BY Times DEF validate, checkValidityTime, ValidBefore
    <3>2. fac' = fac \/ fac' = [fac EXCEPT ![b] = "queued"]
      BY <2>1 DEF HandlePayment
    <3>3. \/ outcome' = outcome
          \/ outcome' = [outcome EXCEPT ![b] = "error"]
          \/ ~validate(b) /\ outcome' = [outcome EXCEPT ![b] = "refused"]
      BY <2>1 DEF HandlePayment, Ends
    <3> HIDE DEF Late, ValidAfter
    <3> QED
      BY <3>1, <3>2, <3>3
  <2>2. ASSUME NEW b \in Buyer, FacilitatorExecutes(b) PROVE Fair
    <3>1. fac[b] = "queued" /\ outcome' = outcome
      BY <2>2 DEF FacilitatorExecutes
    <3>2. ~validate(b) => Late(b)
      BY <3>1, Times DEF validate, checkValidityTime, ValidBefore
    <3>3. \/ validate(b) /\ fac' = [fac EXCEPT ![b] = "moved"]
          \/ ~validate(b) /\ fac' = [fac EXCEPT ![b] = "refused"]
      BY <2>2 DEF FacilitatorExecutes
    <3> HIDE DEF Late, ValidAfter
    <3> QED
      BY <3>1, <3>2, <3>3
  <2>3. ASSUME NEW b \in Buyer, Ask(b) \/ Pay(b) PROVE Fair
    BY <2>3 DEF Ask, Pay, doX402Request
  <2>4. ASSUME NEW b \in Buyer, runClientCommand(b) PROVE Fair
    BY <2>4 DEF runClientCommand, doX402Request, Ends
  <2>5. ASSUME NEW b \in Buyer, AnswerAsking(b) PROVE Fair
    BY <2>5 DEF AnswerAsking, Ends
  <2>6. ASSUME NEW b \in Buyer, SettleReturns(b) \/ SettleCallThrows(b) \/ BackendReplies(b) PROVE Fair
    BY <2>6 DEF SettleReturns, SettleCallThrows, BackendReplies, Ends
  <2>7. CASE Tick \/ Restart \/ UNCHANGED vars
    BY <2>7 DEF Tick, Restart, vars
  <2> QED
    BY <2>1, <2>2, <2>3, <2>4, <2>5, <2>6, <2>7 DEF Next, Work, Quiescent
<1> QED
  BY <1>1, Invariance, PTL DEF Spec, PunctualBuyersAreAccepted
=============================================================================
