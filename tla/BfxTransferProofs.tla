------------------------- MODULE BfxTransferProofs --------------------------
(* What the transfers of BfxBalancing have paid, for every number of       *)
(* transfers, kills, lost connections and waiting reports.                 *)
EXTENDS BfxBalancingProofs, FiniteSetTheorems

(* As there: Zenon unless SMT is cited.                                    *)
USE Zenon

LEMMA FiniteSizesHold == FiniteSizes
<1>1. ASSUME NEW S, IsFiniteSet(S)
      PROVE  Cardinality(S) \in Nat /\ (Cardinality(S) = 0 <=> S = {})
  BY <1>1, FS_CardinalityType, FS_EmptySet
<1>2. ASSUME NEW S, IsFiniteSet(S), NEW T \in SUBSET S
      PROVE  IsFiniteSet(T)
  BY <1>2, FS_Subset
<1>3. ASSUME NEW S, NEW x, IsFiniteSet(S)
      PROVE  /\ IsFiniteSet(S \cup {x})
             /\ Cardinality(S \cup {x}) = IF x \in S THEN Cardinality(S) ELSE Cardinality(S) + 1
             /\ IsFiniteSet(S \ {x})
             /\ Cardinality(S \ {x}) = IF x \in S THEN Cardinality(S) - 1 ELSE Cardinality(S)
  BY <1>3, FS_AddElement, FS_RemoveElement
<1> QED BY <1>1, <1>2, <1>3, FS_EmptySet DEF FiniteSizes

-----------------------------------------------------------------------------
(* The theorems *)

LEMMA BalancingInit == Init => TypeOK /\ BalancingInv
<1> SUFFICES ASSUME Init
             PROVE  TypeOK /\ BalancingInv
  OBVIOUS
<1>1. \A i \in DOMAIN <<>> : FALSE
  BY SMT
<1>2. <<>> \in Seq(RequestSent) /\ <<>> \in Seq(Message) /\ 0 \in Nat /\ 1..0 = {}
  BY SMT
<1>3. TypeOK
  BY <1>2 DEF Init, TypeOK
<1>4. balancing.state = "None" /\ balancing.no = 0
  BY SMT DEF Init, NoTransfer
<1>5. NoneOf(requests, Withdrawal) /\ NoneOf(requests, Money) /\ NoneOf(inbox, Withdrawal)
  BY <1>1 DEF Init, NoneOf
<1>6. WithdrawInv
  BY <1>1, <1>5, NoneIsAtMostOne DEF Init, WithdrawInv, OneWithdrawal
<1>7. LedgerInv /\ MemoryInv
  BY <1>1, FS_EmptySet DEF Init, LedgerInv, MemoryInv
<1>8. \A no : Payments(no) = {} /\ LbtcOut(no) = {}
  BY DEF Init, Payments, LbtcOut
<1>9. NothingUnrun(Withdrawal) /\ NothingUnrun(Money)
  BY <1>5 DEF Init, NothingUnrun, Unrun
<1>10. PaidInv
  <2>1. Cardinality({}) = 0 /\ 0 <= 1 + cuts /\ 0 <= cuts
    BY FS_EmptySet, SMT DEF Init
  <2> QED BY <1>8, <2>1 DEF PaidInv
<1>11. ExactInv
  <2>1. MoneyInv
    BY <1>1, <1>5, NoneIsAtMostOne DEF Init, MoneyInv, Unrun
  <2>2. LbtcInv
    BY <1>4 DEF Init, LbtcInv
  <2>3. PaymentsInv
    BY <1>2, <1>4 DEF Init, PaymentsInv, NoDeposit
  <2>4. ResultsInv
    BY <1>1 DEF Init, ResultsInv
  <2> QED BY <2>1, <2>2, <2>3, <2>4 DEF ExactInv
<1>12. FallbackInv
  BY DEF Init, FallbackInv
<1>13. DrainedInv
  BY <1>8 DEF DrainedInv, OneLbtcOut
<1> QED BY <1>3, <1>6, <1>7, <1>10, <1>11, <1>12, <1>13 DEF BalancingInv

LEMMA BalancingStep ==
    ASSUME TypeOK, BalancingInv, [Next]_vars
    PROVE  TypeOK' /\ BalancingInv'
<1>1. /\ WithdrawInv /\ LedgerInv /\ MemoryInv /\ PaidInv
      /\ Exact => ExactInv /\ FallbackInv
      /\ cuts <= 1 /\ ~misread => DrainedInv
  BY DEF BalancingInv
<1>2. IsFiniteSet(ledger) /\ FiniteSizes
  BY <1>1, FiniteSizesHold DEF LedgerInv
<1>3. TypeOK' /\ WithdrawInv' /\ LedgerInv' /\ MemoryInv' /\ PaidInv'
  BY <1>1, <1>2, TypeStep, WithdrawStep, LedgerStep, MemoryStep, PaidStep
<1>4. ASSUME Exact' PROVE ExactInv' /\ FallbackInv'
  <2>1. cuts = 0 /\ Exact
    BY <1>4, ExactBefore DEF Exact
  <2> QED BY <1>1, <1>2, <1>4, <2>1, ExactStep, FallbackStep
<1>5. ASSUME cuts' <= 1, ~misread' PROVE DrainedInv'
  <2>1. cuts <= 1 /\ ~misread
    BY <1>5, ExactBefore
  <2> QED BY <1>1, <1>2, <1>5, <2>1, DrainedStep
<1> QED BY <1>3, <1>4, <1>5 DEF BalancingInv

(* The state of a transfer, what the module thread and the proxy hold for  *)
(* it, and the payments that were made agree, in every state the main      *)
(* loop, the proxy, lost connections and kills can lead to: for any number *)
(* of transfers and faults.                                                *)
THEOREM BalancingCorrect == Spec => [](TypeOK /\ BalancingInv)
<1>1. TypeOK /\ BalancingInv /\ [Next]_vars => TypeOK' /\ BalancingInv'
  BY BalancingStep
<1> QED BY <1>1, BalancingInit, PTL DEF Spec

(* process_withdraw credits the result of a withdrawal to whatever         *)
(* transfer is active.  It is always the one it was asked for, still       *)
(* waiting for it or failed: a late result never reaches a later transfer. *)
THEOREM WithdrawalsReachTheirTransfer == Spec => []WithdrawReplyIsOwn
<1>1. BalancingInv => WithdrawReplyIsOwn
  BY DEF BalancingInv, WithdrawInv, IsOwn, Withdrawal, WithdrawReplyIsOwn
<1> QED BY <1>1, BalancingCorrect, PTL

(* A set of payments that are all the same one.                            *)
LEMMA AtMostOneElement ==
    ASSUME NEW S, \A x, y \in S : x = y
    PROVE  Cardinality(S) <= 1
<1>1. CASE S = {}
  BY <1>1, FS_EmptySet, SMT
<1>2. CASE S /= {}
  <2>0. PICK x \in S : TRUE
    BY <1>2
  <2>1. S = {x}
    BY <2>0
  <2>2. Cardinality(S) = 1
    BY <2>1, FS_Singleton
  <2> QED BY <2>2, SMT
<1> QED BY <1>1, <1>2

(* A transfer of process_balancing pays once, whatever is lost and however *)
(* often the process is restarted; each kill that falls between a payment  *)
(* and save_storage can repeat it once.  L-BTC is not withdrawn twice even *)
(* after one such kill, unless an outdated balance was acted on.           *)
THEOREM NothingIsPaidTwice == Spec => []NothingPaidTwice
<1>1. TypeOK /\ BalancingInv => NothingPaidTwice
  <2> SUFFICES ASSUME TypeOK, BalancingInv
               PROVE  NothingPaidTwice
    OBVIOUS
  <2>1. \A no \in 1..started : no \in 0..started
    BY SMT DEF TypeOK
  <2>2. PaidOnce
    BY <2>1 DEF BalancingInv, PaidInv, PaidOnce
  <2>3. ASSUME cuts <= 1, ~misread, NEW no \in 1..started
        PROVE  Cardinality({mv \in Payments(no) : mv.asset = "lbtc" /\ ~mv.in}) <= 1
    <3>1. {mv \in Payments(no) : mv.asset = "lbtc" /\ ~mv.in} = LbtcOut(no)
      BY DEF Payments, LbtcOut
    <3>2. \A x, y \in LbtcOut(no) : x = y
      BY <2>3 DEF BalancingInv, DrainedInv, OneLbtcOut
    <3> QED BY <3>1, <3>2, AtMostOneElement
  <2> QED BY <2>2, <2>3 DEF NothingPaidTwice, LbtcPaidOnce
<1> QED BY <1>1, BalancingCorrect, PTL

(* When process_balancing or process_movements calls a transfer Complete,  *)
(* the money has moved: its one payment is confirmed and no L-BTC is left  *)
(* on the exchange, as long as no kill fell between a change of storage    *)
(* and its save and no outdated balance was acted on.                      *)
THEOREM CompletedTransfersAreReal == Spec => []CompleteIsReal
<1>1. TypeOK /\ BalancingInv => CompleteIsReal
  <2> SUFFICES ASSUME TypeOK, BalancingInv,
                      balancing.state \in {"Complete", "None"}, cuts = 0, ~misread
               PROVE  /\ lbtc = 0
                      /\ \A no \in 1..started :
                             Cardinality(Payments(no)) = 1 /\ \A mv \in Payments(no) : mv.done
    BY DEF CompleteIsReal
  <2>1. ExactInv
    BY DEF BalancingInv, Exact
  <2>2. lbtc = 0
    <3>1. balancing.state \notin Asking /\ balancing.state /= "SendBtcWaitLbtcBalance"
      BY DEF Asking
    <3> QED BY <2>1, <3>1, LbtcIdle DEF ExactInv
  <2>3. ASSUME NEW no \in 1..started PROVE HasSettled(no)
    <3>1. balancing.state = "None" => balancing.no \notin 1..started
      <4>1. balancing.state = "None" => balancing.no = 0
        BY RecordFields, NoneIsNoState DEF TypeOK
      <4>2. 0 \notin 1..started
        BY SMT
      <4> QED BY <4>1, <4>2
    <3> QED BY <2>1, <3>1 DEF ExactInv, PaymentsInv
  <2>4. ASSUME NEW no \in 1..started
        PROVE  Cardinality(Payments(no)) = 1 /\ \A mv \in Payments(no) : mv.done
    <3>1. PICK mv \in ledger : Payments(no) = {mv} /\ mv.done
      BY <2>3 DEF HasSettled
    <3> QED BY <3>1, FS_Singleton
  <2> QED BY <2>2, <2>4
<1> QED BY <1>1, BalancingCorrect, PTL

=============================================================================
