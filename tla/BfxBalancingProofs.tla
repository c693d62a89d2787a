------------------------- MODULE BfxBalancingProofs -------------------------
(* The transfers of BfxBalancing, for every number of transfers, kills,    *)
(* lost connections and waiting reports.                                   *)
EXTENDS BfxBalancing, TLAPS

(* Zenon is tried where a leaf cites no prover; SMT is cited where         *)
(* arithmetic, sequences or records are needed.                            *)
USE Zenon

-----------------------------------------------------------------------------
(* Finite sets.  The facts about them that the proofs use are a hypothesis *)
(* of these lemmas; they are theorems of the library, cited where the      *)
(* lemmas are put together (BfxTransferProofs).                            *)
FiniteSizes ==
    /\ IsFiniteSet({}) /\ Cardinality({}) = 0
    /\ \A S : IsFiniteSet(S) => Cardinality(S) \in Nat /\ (Cardinality(S) = 0 <=> S = {})
    /\ \A S : IsFiniteSet(S) => \A T \in SUBSET S : IsFiniteSet(T)
    /\ \A S, x : IsFiniteSet(S) =>
           /\ IsFiniteSet(S \cup {x})
           /\ Cardinality(S \cup {x}) = IF x \in S THEN Cardinality(S) ELSE Cardinality(S) + 1
           /\ IsFiniteSet(S \ {x})
           /\ Cardinality(S \ {x}) = IF x \in S THEN Cardinality(S) - 1 ELSE Cardinality(S)

LEMMA FiniteSize ==
    ASSUME FiniteSizes, NEW S, IsFiniteSet(S)
    PROVE  Cardinality(S) \in Nat
  BY DEF FiniteSizes

LEMMA FiniteEmpty ==
    ASSUME FiniteSizes
    PROVE  /\ IsFiniteSet({}) /\ Cardinality({}) = 0
           /\ \A S : IsFiniteSet(S) => (Cardinality(S) = 0 <=> S = {})
  BY DEF FiniteSizes

LEMMA FinitePart ==
    ASSUME FiniteSizes, NEW S, IsFiniteSet(S), NEW T \in SUBSET S
    PROVE  IsFiniteSet(T)
  BY DEF FiniteSizes

LEMMA FiniteAdd ==
    ASSUME FiniteSizes, NEW S, NEW x, IsFiniteSet(S)
    PROVE  /\ IsFiniteSet(S \cup {x})
           /\ Cardinality(S \cup {x}) = IF x \in S THEN Cardinality(S) ELSE Cardinality(S) + 1
  BY DEF FiniteSizes

LEMMA FiniteRemove ==
    ASSUME FiniteSizes, NEW S, NEW x, IsFiniteSet(S)
    PROVE  /\ IsFiniteSet(S \ {x})
           /\ Cardinality(S \ {x}) = IF x \in S THEN Cardinality(S) - 1 ELSE Cardinality(S)
  BY DEF FiniteSizes

-----------------------------------------------------------------------------
(* Queues *)

LEMMA QueueTypes ==
    ASSUME NEW S, NEW q \in Seq(S)
    PROVE  /\ q /= <<>> => Head(q) \in S /\ Tail(q) \in Seq(S)
           /\ \A x \in S : Append(q, x) \in Seq(S)
  BY SMT

(* A queue whose head was read.                                            *)
LEMMA TailOf ==
    ASSUME NEW S, NEW q \in Seq(S), q /= <<>>
    PROVE  /\ \E i \in DOMAIN q : Head(q) = q[i]
           /\ \A i \in DOMAIN Tail(q) : \E j \in DOMAIN q : Tail(q)[i] = q[j]
           /\ \A T : NoneOf(q, T) => NoneOf(Tail(q), T) /\ Head(q).type \notin T
           /\ \A T : AtMostOne(q, T) => AtMostOne(Tail(q), T)
           /\ \A T : AtMostOne(q, T) /\ Head(q).type \in T => NoneOf(Tail(q), T)
<1> DEFINE t == Tail(q)
<1>1. /\ Head(q) = q[1] /\ 1 \in DOMAIN q
      /\ \A i \in DOMAIN t : i + 1 \in DOMAIN q /\ t[i] = q[i + 1] /\ i + 1 /= 1
      /\ \A i, j \in DOMAIN t : i + 1 = j + 1 => i = j
  BY SMT
<1> HIDE DEF t
<1>2. \A T : NoneOf(q, T) => NoneOf(t, T) /\ Head(q).type \notin T
  BY <1>1 DEF NoneOf
<1>3. \A T : AtMostOne(q, T) => AtMostOne(t, T)
  BY <1>1 DEF AtMostOne
<1>4. \A T : AtMostOne(q, T) /\ Head(q).type \in T => NoneOf(t, T)
  BY <1>1 DEF AtMostOne, NoneOf
<1> QED BY <1>1, <1>2, <1>3, <1>4 DEF t

(* A queue to which an entry was added.                                    *)
LEMMA AppendOf ==
    ASSUME NEW S, NEW q \in Seq(S), NEW x \in S
    PROVE  /\ \A i \in DOMAIN Append(q, x) :
                  Append(q, x)[i] = x \/ \E j \in DOMAIN q : Append(q, x)[i] = q[j]
           /\ \A T : NoneOf(q, T) /\ x.type \notin T => NoneOf(Append(q, x), T)
           /\ \A T : AtMostOne(q, T) /\ x.type \notin T => AtMostOne(Append(q, x), T)
           /\ \A T : NoneOf(q, T) => AtMostOne(Append(q, x), T)
<1> DEFINE a == Append(q, x)
<1>1. \A i \in DOMAIN a : (i = Len(q) + 1 /\ a[i] = x) \/ (i \in DOMAIN q /\ a[i] = q[i])
  BY SMT
<1> HIDE DEF a
<1>2. \A T : NoneOf(q, T) /\ x.type \notin T => NoneOf(a, T)
  BY <1>1 DEF NoneOf
<1>3. \A T : AtMostOne(q, T) /\ x.type \notin T => AtMostOne(a, T)
  BY <1>1 DEF AtMostOne
<1>4. \A T : NoneOf(q, T) => AtMostOne(a, T)
  BY <1>1 DEF AtMostOne, NoneOf
<1> QED BY <1>1, <1>2, <1>3, <1>4 DEF a

(* The same of the two queues.                                             *)
LEMMA RequestAdded ==
    ASSUME requests \in Seq(RequestSent), NEW x \in RequestSent, requests' = Append(requests, x)
    PROVE  /\ \A i \in DOMAIN requests' :
                  requests'[i] = x \/ \E j \in DOMAIN requests : requests'[i] = requests[j]
           /\ \A T : NoneOf(requests, T) /\ x.type \notin T => NoneOf(requests', T)
           /\ \A T : AtMostOne(requests, T) /\ x.type \notin T => AtMostOne(requests', T)
           /\ \A T : NoneOf(requests, T) => AtMostOne(requests', T)
  BY AppendOf, SMT

LEMMA RequestTaken ==
    ASSUME requests \in Seq(RequestSent), requests /= <<>>, requests' = Tail(requests)
    PROVE  /\ \E i \in DOMAIN requests : Head(requests) = requests[i]
           /\ \A i \in DOMAIN requests' : \E j \in DOMAIN requests : requests'[i] = requests[j]
           /\ \A T : NoneOf(requests, T) => NoneOf(requests', T) /\ Head(requests).type \notin T
           /\ \A T : AtMostOne(requests, T) => AtMostOne(requests', T)
           /\ \A T : AtMostOne(requests, T) /\ Head(requests).type \in T => NoneOf(requests', T)
  BY TailOf, SMT

LEMMA MessageAdded ==
    ASSUME inbox \in Seq(Message), NEW x \in Message, inbox' = Append(inbox, x)
    PROVE  /\ \A i \in DOMAIN inbox' :
                  inbox'[i] = x \/ \E j \in DOMAIN inbox : inbox'[i] = inbox[j]
           /\ \A T : NoneOf(inbox, T) /\ x.type \notin T => NoneOf(inbox', T)
           /\ \A T : AtMostOne(inbox, T) /\ x.type \notin T => AtMostOne(inbox', T)
           /\ \A T : NoneOf(inbox, T) => AtMostOne(inbox', T)
  BY AppendOf, SMT

LEMMA MessageTaken ==
    ASSUME inbox \in Seq(Message), inbox /= <<>>, inbox' = Tail(inbox)
    PROVE  /\ \E i \in DOMAIN inbox : Head(inbox) = inbox[i]
           /\ \A i \in DOMAIN inbox' : \E j \in DOMAIN inbox : inbox'[i] = inbox[j]
           /\ \A T : NoneOf(inbox, T) => NoneOf(inbox', T) /\ Head(inbox).type \notin T
           /\ \A T : AtMostOne(inbox, T) => AtMostOne(inbox', T)
           /\ \A T : AtMostOne(inbox, T) /\ Head(inbox).type \in T => NoneOf(inbox', T)
  BY TailOf, SMT

LEMMA EmptyQueue == \A T : NoneOf(<<>>, T) /\ AtMostOne(<<>>, T)
<1>1. \A i \in DOMAIN <<>> : FALSE
  BY SMT
<1> QED BY <1>1 DEF NoneOf, AtMostOne

-----------------------------------------------------------------------------
(* What the handlers write *)

LEMMA RecordFields ==
    ASSUME NEW b \in {NoTransfer} \cup Transfer
    PROVE  /\ b.no \in Nat /\ b.txid \in Nat /\ b.withdraw_id \in Nat
           /\ b = NoTransfer \/ b.state \in TransferState
           /\ NoTransfer.state = "None" /\ NoTransfer.no = 0
<1>1. CASE b = NoTransfer
  BY <1>1, SMT DEF NoTransfer
<1>2. CASE b \in Transfer
  BY <1>2, SMT DEF Transfer, NoTransfer
<1> QED BY <1>1, <1>2

LEMMA NoneIsNoState == "None" \notin TransferState
  BY SMT DEF TransferState

LEMMA StateWritten ==
    ASSUME balancing \in Transfer, NEW s \in TransferState, update_balancing_state(s)
    PROVE  /\ balancing' \in Transfer /\ saving' = TRUE
           /\ balancing'.no = balancing.no /\ balancing'.state = s
           /\ balancing'.txid = balancing.txid
           /\ balancing'.withdraw_id = balancing.withdraw_id
  BY SMT DEF Transfer, update_balancing_state

(* A new transfer has a number of its own.                                 *)
LEMMA NewTransfer ==
    ASSUME NEW no \in Nat, NEW s \in TransferState
    PROVE  New(no, s) \in Transfer /\ New(no, s).no = no /\ New(no, s).state = s
  BY SMT DEF New, Transfer

(* What a payment by the wallet does: the transfer is advanced when the    *)
(* node says so, and fails otherwise.                                      *)
LEMMA SendDoes ==
    ASSUME balancing \in Transfer, Cardinality(ledger) \in Nat,
           NEW asset \in {"usdt", "lbtc"}, NEW s \in TransferState, Send(asset, s)
    PROVE  \E mv \in Movement :
               /\ mv.id = Cardinality(ledger) + 1 /\ mv.no = balancing.no
               /\ mv.asset = asset /\ mv.in /\ ~mv.done
               /\ balancing' \in Transfer /\ saving' = TRUE
               /\ balancing'.no = balancing.no
               /\ balancing'.withdraw_id = balancing.withdraw_id
               /\ \/ /\ ledger' = ledger \cup {mv}
                     /\ balancing'.state = s /\ balancing'.txid = mv.id
                  \/ /\ ledger' \in {ledger, ledger \cup {mv}}
                     /\ balancing'.state = "Failed"
<1>1. PICK id \in Nat : id = Cardinality(ledger) + 1
  BY SMT
<1>2. PICK mv : mv = Paid(asset, TRUE)
  OBVIOUS
<1>3. balancing.no \in Nat
  BY SMT DEF Transfer
<1>4. /\ mv \in Movement /\ mv.id = id /\ mv.no = balancing.no
      /\ mv.asset = asset /\ mv.in /\ ~mv.done
  BY <1>1, <1>2, <1>3 DEF Paid, Movement
<1>5. CASE /\ ledger' = ledger \cup {mv} /\ saving' = TRUE
           /\ balancing' = [balancing EXCEPT !.txid = mv.id, !.state = s]
  <2>1. /\ balancing' \in Transfer /\ balancing'.no = balancing.no
        /\ balancing'.withdraw_id = balancing.withdraw_id
        /\ balancing'.state = s /\ balancing'.txid = id
    BY <1>1, <1>4, <1>5 DEF Transfer
  <2> QED BY <1>1, <1>4, <1>5, <2>1
<1>6. CASE update_balancing_state("Failed") /\ ledger' \in {ledger, ledger \cup {mv}}
  <2>1. "Failed" \in TransferState
    BY DEF TransferState
  <2> QED BY <1>1, <1>4, <1>6, <2>1, StateWritten
<1> QED BY <1>2, <1>5, <1>6 DEF Send

(* What a request to the module thread does.                               *)
LEMMA AskDoes ==
    ASSUME balancing \in Transfer, NEW type \in Money, NEW s \in TransferState, Ask(type, s)
    PROVE  /\ balancing' \in Transfer /\ saving' = TRUE
           /\ balancing'.no = balancing.no /\ balancing'.state = s
           /\ ledger' = ledger
           /\ \E x \in RequestSent : /\ x.type = type /\ x.no = balancing.no
                                     /\ requests' = Append(requests, x)
<1>1. balancing.no \in Nat
  BY SMT DEF Transfer
<1>2. Request(type) \in RequestSent /\ Request(type).type = type /\ Request(type).no = balancing.no
  BY <1>1 DEF Request, RequestSent, Money
<1> QED BY <1>2, StateWritten DEF Ask

(* The four requests of process_balancing.                                 *)
Asks(from, type, to) == balancing.state = from /\ type \in Money /\ to \in TransferState /\ Ask(type, to)

(* The cases of process_balancing.                                         *)
LEMMA ProcessBalancingDoes ==
    ASSUME TypeOK, process_balancing
    PROVE  /\ balancing \in Transfer /\ ~saving
           /\ \/ balancing.state = "SendUsdtNew" /\ Send("usdt", "SendUsdtWaitConfirm")
              \/ balancing.state = "SendBtcNew" /\ Send("lbtc", "SendBtcWaitLbtcBalance")
              \/ /\ \/ Asks("RecvUsdtNew", "WithdrawUsdt", "RecvUsdtWaitWithdrawId")
                    \/ Asks("RecvBtcNew", "TransferToLbtc", "RecvBtcWaitLbtcBalance")
                 /\ UNCHANGED misread
              \/ /\ \/ Asks("SendBtcWaitLbtcBalance", "TransferToBtc", "SendBtcWaitConfirm")
                    \/ Asks("RecvBtcWaitLbtcBalance", "WithdrawLbtc", "RecvBtcWaitWithdrawId")
                 /\ Amount \in known /\ misread' = (misread \/ (cuts = 0 /\ Outdated))
              \/ ConversionDone
              \/ TransferEnds
<1>1. balancing \in Transfer
  <2>1. balancing = NoTransfer => balancing.state = "None"
    BY SMT DEF NoTransfer
  <2> QED BY <2>1 DEF TypeOK, process_balancing, ConversionDone, TransferEnds
<1>2. /\ {"WithdrawUsdt", "TransferToLbtc", "TransferToBtc", "WithdrawLbtc"} \subseteq Money
      /\ {"RecvUsdtWaitWithdrawId", "RecvBtcWaitLbtcBalance", "SendBtcWaitConfirm",
          "RecvBtcWaitWithdrawId"} \subseteq TransferState
  BY SMT DEF Money, RequestType, TransferState
<1> QED BY <1>1, <1>2 DEF process_balancing, Asks, AskWithLbtc

(* The cases of a message of the module thread.                            *)
LEMMA MessageDoes ==
    ASSUME TypeOK, ModuleMessage
    PROVE  \E m \in Message :
               /\ ~saving /\ inbox /= <<>> /\ m = Head(inbox) /\ inbox' = Tail(inbox)
               /\ \/ /\ balancing' = balancing /\ saving' = saving
                     /\ known' = known \/ (m.type = "WalletUpdate" /\ known' = {m.value})
                     /\ m.type \in Withdrawal => balancing = NoTransfer
                  \/ /\ m.type \in Withdrawal /\ m.value > 0
                     /\ balancing \in Transfer /\ balancing' \in Transfer
                     /\ balancing'.no = balancing.no /\ balancing'.withdraw_id = m.value
                     /\ \/ /\ balancing.state = "RecvUsdtWaitWithdrawId"
                           /\ balancing'.state = "RecvUsdtWaitConfirm"
                        \/ /\ balancing.state = "RecvBtcWaitWithdrawId"
                           /\ balancing'.state = "RecvBtcWaitConfirm"
                     /\ saving' = TRUE /\ known' = known
                  \/ /\ balancing \in Transfer /\ balancing' \in Transfer
                     /\ balancing'.no = balancing.no /\ balancing'.state = "Failed"
                     /\ saving' = TRUE /\ known' = known
                  \/ /\ m.type = "Movements" /\ tx_found(m.seen)
                     /\ balancing \in Transfer /\ balancing' \in Transfer
                     /\ balancing'.no = balancing.no /\ balancing'.state = "Complete"
                     /\ saving' = TRUE /\ known' = known
<1>1. ~saving /\ inbox /= <<>> /\ inbox' = Tail(inbox) /\ inbox \in Seq(Message)
  BY DEF ModuleMessage, TypeOK
<1>2. PICK m \in Message : m = Head(inbox)
  BY <1>1, QueueTypes
<1>3. balancing = NoTransfer \/ balancing \in Transfer
  BY DEF TypeOK
<1>4. m.value \in Nat
  BY SMT DEF Message
<1>5. /\ {"Failed", "Complete", "RecvUsdtWaitConfirm", "RecvBtcWaitConfirm"} \subseteq TransferState
      /\ NoTransfer.state = "None"
  BY SMT DEF TransferState, NoTransfer
<1>6. CASE ModuleConnected(m) \/ ModuleDisconnected(m) \/ WalletUpdate(m)
  BY <1>1, <1>2, <1>6 DEF ModuleConnected, ModuleDisconnected, WalletUpdate, Withdrawal
<1>7. CASE process_withdraw(m)
  <2>1. CASE /\ balancing.state \in {"RecvUsdtWaitWithdrawId", "RecvBtcWaitWithdrawId"}
             /\ m.value > 0
             /\ balancing' = [balancing EXCEPT
                   !.withdraw_id = m.value,
                   !.state = IF @ = "RecvUsdtWaitWithdrawId" THEN "RecvUsdtWaitConfirm"
                                                             ELSE "RecvBtcWaitConfirm"]
             /\ saving' = TRUE
    <3>1. balancing \in Transfer
      BY <1>3, <1>5, <2>1
    <3>2. /\ balancing' \in Transfer /\ balancing'.no = balancing.no
          /\ balancing'.withdraw_id = m.value
          /\ balancing'.state = IF balancing.state = "RecvUsdtWaitWithdrawId"
                                THEN "RecvUsdtWaitConfirm" ELSE "RecvBtcWaitConfirm"
      BY <1>4, <1>5, <2>1, <3>1 DEF Transfer
    <3> QED BY <1>1, <1>2, <1>7, <2>1, <3>1, <3>2 DEF process_withdraw, Withdrawal
  <2>2. CASE balancing = NoTransfer /\ UNCHANGED <<balancing, saving>>
    BY <1>1, <1>2, <1>7, <2>2 DEF process_withdraw
  <2>3. CASE balancing /= NoTransfer /\ update_balancing_state("Failed")
    BY <1>1, <1>2, <1>3, <1>5, <1>7, <2>3, StateWritten DEF process_withdraw
  <2> QED BY <1>7, <2>1, <2>2, <2>3 DEF process_withdraw
<1>8. CASE process_movements(m)
  <2>1. CASE UNCHANGED <<balancing, saving>>
    BY <1>1, <1>2, <1>8, <2>1 DEF process_movements, Withdrawal
  <2>2. CASE tx_found(m.seen) /\ update_balancing_state("Complete")
    <3>1. balancing \in Transfer
      BY <1>3, <1>5, <2>2 DEF tx_found
    <3> QED BY <1>1, <1>2, <1>5, <1>8, <2>2, <3>1, StateWritten DEF process_movements
  <2> QED BY <1>8, <2>1, <2>2 DEF process_movements
<1>9. CASE process_transfer(m)
  <2>1. m.type \notin Withdrawal
    BY <1>9 DEF process_transfer, Withdrawal
  <2> QED BY <1>1, <1>2, <1>3, <1>5, <1>9, <2>1, StateWritten DEF process_transfer
<1> QED BY <1>2, <1>6, <1>7, <1>8, <1>9 DEF ModuleMessage

(* The proxy is done with a request: its result waits, unless nobody does. *)
LEMMA RanDoes ==
    ASSUME NEW r \in Execution, NEW value \in Nat, Ran(r, value)
    PROVE  \E s \in Execution :
               /\ s.type = r.type /\ s.no = r.no /\ s.ran /\ s.value = value
               /\ \A x \in running' : x = s \/ (x \in running /\ x /= r)
<1>1. PICK s : s = [r EXCEPT !.ran = TRUE, !.value = value]
  OBVIOUS
<1>2. s \in Execution /\ s.type = r.type /\ s.no = r.no /\ s.ran /\ s.value = value
  BY <1>1 DEF Execution
<1> QED BY <1>1, <1>2 DEF Ran

(* The cases of an execution.                                              *)
LEMMA ExecuteDoes ==
    ASSUME FiniteSizes, TypeOK, IsFiniteSet(ledger), ProxyExecutes
    PROVE  \E r \in running, s \in Execution :
               /\ ~r.ran /\ r.type \in Money
               /\ s.type = r.type /\ s.no = r.no /\ s.ran
               /\ \A x \in running' : x = s \/ (x \in running /\ x /= r)
               /\ \/ /\ r.type \in Withdrawal
                     /\ \E mv \in Movement :
                            /\ mv.id = Cardinality(ledger) + 1 /\ mv.no = r.no
                            /\ mv.asset = IF r.type = "WithdrawUsdt" THEN "usdt" ELSE "lbtc"
                            /\ ~mv.in /\ ~mv.done
                            /\ ledger' = ledger \cup {mv}
                            /\ s.value \in {0, mv.id}
                     /\ \/ r.type = "WithdrawUsdt" /\ lbtc' = lbtc
                        \/ /\ r.type = "WithdrawLbtc" /\ lbtc >= Amount
                           /\ lbtc' = lbtc - Amount
                  \/ /\ r.type = "TransferToBtc" /\ lbtc >= Amount
                     /\ lbtc' = lbtc - Amount /\ ledger' = ledger
                  \/ /\ r.type = "TransferToLbtc"
                     /\ lbtc' = lbtc + Amount /\ ledger' = ledger
                  \/ s.value = 0 /\ lbtc' = lbtc /\ ledger' = ledger
<1>1. PICK r \in running : ~r.ran /\ (ProxyWithdraws(r) \/ ProxyTransfers(r))
  BY DEF ProxyExecutes
<1>2. r \in Execution /\ r.no \in Nat
  BY DEF TypeOK, Execution
<1>3. /\ r.type \in Money
      /\ ProxyWithdraws(r) => r.type \in Withdrawal
      /\ ProxyTransfers(r) => r.type \in {"TransferToBtc", "TransferToLbtc"}
  BY <1>1 DEF ProxyWithdraws, ProxyTransfers, Money, RequestType, Withdrawal
<1>4. Cardinality(ledger) \in Nat /\ 0 \in Nat /\ 1 \in Nat
  BY FiniteSize, SMT
<1>5. CASE Ran(r, 0) /\ lbtc' = lbtc /\ ledger' = ledger
  <2>1. PICK s \in Execution :
            /\ s.type = r.type /\ s.no = r.no /\ s.ran /\ s.value = 0
            /\ \A x \in running' : x = s \/ (x \in running /\ x /= r)
    BY <1>2, <1>4, <1>5, RanDoes
  <2> QED BY <1>1, <1>3, <1>5, <2>1
<1>6. CASE /\ r.type \in Withdrawal /\ (r.type = "WithdrawLbtc" => lbtc >= Amount)
           /\ LET mv == [Paid(IF r.type = "WithdrawUsdt" THEN "usdt" ELSE "lbtc", FALSE)
                            EXCEPT !.no = r.no]
              IN  /\ ledger' = ledger \cup {mv}
                  /\ \E value \in {0, mv.id} : Ran(r, value)
           /\ lbtc' = IF r.type = "WithdrawLbtc" THEN lbtc - Amount ELSE lbtc
  <2>1. PICK asset \in {"usdt", "lbtc"} : asset = IF r.type = "WithdrawUsdt" THEN "usdt" ELSE "lbtc"
    OBVIOUS
  <2>2. PICK mv : mv = [Paid(asset, FALSE) EXCEPT !.no = r.no]
    OBVIOUS
  <2>3. PICK id \in Nat : id = Cardinality(ledger) + 1
    BY <1>4, SMT
  <2>4. /\ mv \in Movement /\ mv.id = id /\ mv.no = r.no /\ mv.asset = asset
        /\ ~mv.in /\ ~mv.done
    BY <1>2, <2>2, <2>3 DEF Paid, Movement
  <2>5. PICK value \in {0, mv.id} : Ran(r, value)
    BY <1>6, <2>1, <2>2
  <2>6. PICK s \in Execution :
            /\ s.type = r.type /\ s.no = r.no /\ s.ran /\ s.value = value
            /\ \A x \in running' : x = s \/ (x \in running /\ x /= r)
    <3>1. value \in Nat
      BY <1>4, <2>4
    <3> QED BY <1>2, <2>5, <3>1, RanDoes
  <2>7. \/ r.type = "WithdrawUsdt" /\ lbtc' = lbtc
        \/ r.type = "WithdrawLbtc" /\ lbtc >= Amount /\ lbtc' = lbtc - Amount
    BY <1>6 DEF Withdrawal
  <2>8. ledger' = ledger \cup {mv}
    BY <1>6, <2>1, <2>2
  <2> QED BY <1>1, <1>3, <1>6, <2>1, <2>3, <2>4, <2>5, <2>6, <2>7, <2>8
<1>7. CASE /\ r.type \in {"TransferToBtc", "TransferToLbtc"}
           /\ r.type = "TransferToBtc" => lbtc >= Amount
           /\ lbtc' = IF r.type = "TransferToBtc" THEN lbtc - Amount ELSE lbtc + Amount
           /\ \E value \in {0, 1} : Ran(r, value)
           /\ ledger' = ledger
  <2>1. PICK value \in Nat : Ran(r, value)
    BY <1>4, <1>7
  <2>2. PICK s \in Execution :
            /\ s.type = r.type /\ s.no = r.no /\ s.ran
            /\ \A x \in running' : x = s \/ (x \in running /\ x /= r)
    BY <1>2, <2>1, RanDoes
  <2> QED BY <1>1, <1>3, <1>7, <2>2
<1>8. CASE ProxyWithdraws(r)
  BY <1>3, <1>5, <1>6, <1>8 DEF ProxyWithdraws, exchange
<1>9. CASE ProxyTransfers(r)
  BY <1>5, <1>7, <1>9 DEF ProxyTransfers
<1> QED BY <1>1, <1>8, <1>9

(* A payment is confirmed.                                                 *)
LEMMA SettleDoes ==
    ASSUME TypeOK, Settle
    PROVE  \E mv \in ledger, s \in Movement :
               /\ ~mv.done /\ s.done /\ s.id = mv.id /\ s.no = mv.no
               /\ s.asset = mv.asset /\ s.in = mv.in
               /\ ledger' = (ledger \ {mv}) \cup {s}
               /\ lbtc' = IF mv.in /\ mv.asset = "lbtc" THEN lbtc + Amount ELSE lbtc
<1>1. PICK mv \in ledger :
          /\ ~mv.done
          /\ ledger' = (ledger \ {mv}) \cup {[mv EXCEPT !.done = TRUE]}
          /\ lbtc' = IF mv.in /\ mv.asset = "lbtc" THEN lbtc + Amount ELSE lbtc
  BY DEF Settle
<1>2. PICK s : s = [mv EXCEPT !.done = TRUE]
  OBVIOUS
<1>3. mv \in Movement
  BY DEF TypeOK
<1>4. s \in Movement /\ s.done /\ s.id = mv.id /\ s.no = mv.no /\ s.asset = mv.asset /\ s.in = mv.in
  BY <1>2, <1>3 DEF Movement
<1> QED BY <1>1, <1>2, <1>4

(* A lost connection drops requests and results.                           *)
LEMMA DisconnectDoes ==
    ASSUME TypeOK, Disconnect
    PROVE  /\ requests' = requests \/ (requests /= <<>> /\ requests' = Tail(requests))
           /\ running' \subseteq Execution
           /\ \A s \in running' : \E r \in running :
                  /\ r.type \in Money /\ ~r.ran /\ ~s.ran
                  /\ s.type = r.type /\ s.no = r.no /\ s.value = r.value
                  /\ s = [r EXCEPT !.lost = TRUE]
<1>1. requests' = requests \/ (requests /= <<>> /\ requests' = Tail(requests))
  BY DEF Disconnect
<1>2. ASSUME NEW s \in running'
      PROVE  /\ s \in Execution
             /\ \E r \in running :
                  /\ r.type \in Money /\ ~r.ran /\ ~s.ran
                  /\ s.type = r.type /\ s.no = r.no /\ s.value = r.value
                  /\ s = [r EXCEPT !.lost = TRUE]
  <2>1. PICK r \in running : r.type /= "Movements" /\ ~r.ran /\ s = [r EXCEPT !.lost = TRUE]
    BY <1>2 DEF Disconnect
  <2>2. r \in Execution
    BY DEF TypeOK
  <2>3. s \in Execution /\ s.type = r.type /\ s.no = r.no /\ s.value = r.value /\ s.ran = r.ran
    BY <2>1, <2>2 DEF Execution
  <2>4. r.type \in Money
    BY <2>1, <2>2 DEF Execution, Money
  <2> QED BY <2>1, <2>3, <2>4
<1> QED BY <1>1, <1>2

-----------------------------------------------------------------------------
(* Types *)

LEMMA MessageMade ==
    ASSUME NEW type \in RequestType \cup {"Connected", "Disconnected", "WalletUpdate"},
           NEW no \in Nat, NEW value \in Nat, NEW seen \in SUBSET Movement
    PROVE  LET m == Msg(type, no, value, seen)
           IN  m \in Message /\ m.type = type /\ m.no = no /\ m.value = value /\ m.seen = seen
  BY DEF Msg, Message

(* The parts of TypeOK that the main loop, the link and the exchange write. *)
MainType ==
    /\ balancing \in {NoTransfer} \cup Transfer /\ stored \in {NoTransfer} \cup Transfer
    /\ saving \in BOOLEAN /\ module_connected \in BOOLEAN
    /\ known \subseteq Nat

LinkType ==
    /\ up \in BOOLEAN /\ reported \subseteq Nat
    /\ requests \in Seq(RequestSent) /\ running \subseteq Execution /\ inbox \in Seq(Message)

ExchangeType == lbtc \in Nat /\ ledger \subseteq Movement /\ IsFiniteSet(ledger)

CountersType == {started, kills, losses, cuts} \subseteq Nat /\ misread \in BOOLEAN

LEMMA TypeParts ==
    /\ TypeOK /\ IsFiniteSet(ledger) => MainType /\ LinkType /\ ExchangeType /\ CountersType
    /\ MainType' /\ LinkType' /\ ExchangeType' /\ CountersType' => TypeOK' /\ IsFiniteSet(ledger')
  BY DEF TypeOK, MainType, LinkType, ExchangeType, CountersType

LEMMA MainKept ==
    ASSUME MainType, UNCHANGED <<main, stored>>
    PROVE  MainType'
  BY DEF MainType, main

LEMMA CountersKept ==
    ASSUME CountersType, UNCHANGED ghosts
    PROVE  CountersType'
  BY DEF CountersType, ghosts

LEMMA ExchangeKept ==
    ASSUME ExchangeType, UNCHANGED exchange
    PROVE  ExchangeType'
  BY DEF ExchangeType, exchange

LEMMA LinkKept ==
    ASSUME LinkType, UNCHANGED <<link, inbox>>
    PROVE  LinkType'
  BY DEF LinkType, link

LEMMA LedgerGrows ==
    ASSUME FiniteSizes, ExchangeType, NEW mv \in Movement, ledger' = ledger \cup {mv}, lbtc' \in Nat
    PROVE  ExchangeType'
  BY FiniteAdd DEF ExchangeType

LEMMA ProcessBalancingType ==
    ASSUME FiniteSizes, TypeOK, IsFiniteSet(ledger), process_balancing
    PROVE  TypeOK' /\ IsFiniteSet(ledger')
<1>1. MainType /\ LinkType /\ ExchangeType /\ CountersType
  BY TypeParts
<1>2. UNCHANGED <<stored, module_connected, known, up, running, reported, inbox, lbtc,
                  started, kills, losses, cuts>>
  BY DEF process_balancing
<1>3. balancing \in Transfer /\ Cardinality(ledger) \in Nat
  BY ProcessBalancingDoes, FiniteSize
<1>4. {"SendUsdtWaitConfirm", "SendBtcWaitLbtcBalance", "Complete"} \subseteq TransferState
  BY DEF TransferState
<1>5. CASE \E asset \in {"usdt", "lbtc"}, s \in TransferState : Send(asset, s)
  <2>1. PICK mv \in Movement :
            /\ balancing' \in Transfer /\ saving' = TRUE
            /\ ledger' = ledger \/ ledger' = ledger \cup {mv}
    BY <1>3, <1>5, SendDoes
  <2>2. UNCHANGED <<requests, misread>>
    BY <1>5 DEF Send
  <2>3. ExchangeType'
    BY <1>1, <1>2, <2>1, LedgerGrows DEF ExchangeType
  <2>4. MainType' /\ LinkType' /\ CountersType'
    BY <1>1, <1>2, <2>1, <2>2 DEF MainType, LinkType, CountersType
  <2> QED BY <2>3, <2>4, TypeParts
<1>6. CASE /\ \E from, type, to : Asks(from, type, to)
           /\ misread' \in BOOLEAN
  <2>1. /\ balancing' \in Transfer /\ saving' = TRUE /\ ledger' = ledger
        /\ \E x \in RequestSent : requests' = Append(requests, x)
    BY <1>3, <1>6, AskDoes DEF Asks
  <2>2. requests' \in Seq(RequestSent)
    <3>1. PICK x \in RequestSent : requests' = Append(requests, x)
      BY <2>1
    <3> QED BY <1>1, <3>1, QueueTypes DEF LinkType
  <2>3. MainType' /\ LinkType' /\ ExchangeType' /\ CountersType'
    BY <1>1, <1>2, <1>6, <2>1, <2>2 DEF MainType, LinkType, ExchangeType, CountersType
  <2> QED BY <2>3, TypeParts
<1>7. CASE ConversionDone \/ TransferEnds
  <2>1. balancing' \in {NoTransfer} \cup Transfer /\ saving' = TRUE
    BY <1>3, <1>4, <1>7, StateWritten DEF ConversionDone, TransferEnds
  <2>2. UNCHANGED <<requests, ledger, misread>>
    BY <1>7 DEF ConversionDone, TransferEnds
  <2>3. MainType' /\ LinkType' /\ ExchangeType' /\ CountersType'
    BY <1>1, <1>2, <2>1, <2>2 DEF MainType, LinkType, ExchangeType, CountersType
  <2> QED BY <2>3, TypeParts
<1>8. (misread \/ (cuts = 0 /\ Outdated)) \in BOOLEAN /\ misread \in BOOLEAN
  BY SMT DEF TypeOK
<1>9. \/ \E asset \in {"usdt", "lbtc"}, s \in TransferState : Send(asset, s)
      \/ (\E from, type, to : Asks(from, type, to)) /\ misread' \in BOOLEAN
      \/ ConversionDone \/ TransferEnds
  BY <1>4, <1>8, ProcessBalancingDoes
<1> QED BY <1>5, <1>6, <1>7, <1>9

LEMMA ModuleMessageType ==
    ASSUME TypeOK, IsFiniteSet(ledger), ModuleMessage
    PROVE  TypeOK' /\ IsFiniteSet(ledger')
<1>1. MainType /\ LinkType /\ ExchangeType /\ CountersType
  BY TypeParts
<1>2. UNCHANGED <<stored, link, exchange, ghosts>>
  BY DEF ModuleMessage
<1>3. PICK m \in Message :
          /\ inbox /= <<>> /\ inbox' = Tail(inbox)
          /\ balancing' = balancing \/ balancing' \in Transfer
          /\ saving' = saving \/ saving' = TRUE
          /\ known' = known \/ known' = {m.value}
  BY MessageDoes
<1>4. inbox' \in Seq(Message)
  BY <1>1, <1>3, QueueTypes DEF LinkType
<1>5. module_connected' \in BOOLEAN
  BY DEF TypeOK, ModuleMessage, ModuleConnected, ModuleDisconnected, WalletUpdate,
         process_withdraw, process_movements, process_transfer
<1>6. known' \subseteq Nat
  BY <1>1, <1>3 DEF MainType, Message
<1>7. MainType' /\ LinkType'
  BY <1>1, <1>2, <1>3, <1>4, <1>5, <1>6 DEF MainType, LinkType, link
<1>8. ExchangeType' /\ CountersType'
  BY <1>1, <1>2, ExchangeKept, CountersKept
<1> QED BY <1>7, <1>8, TypeParts

LEMMA LinkStepType ==
    ASSUME TypeOK, IsFiniteSet(ledger),
           \/ CheckExchange \/ Connect \/ Disconnect \/ ProxyReceives \/ ProxyReplies
           \/ MovementsFail \/ MovementsLoaded \/ Push
    PROVE  TypeOK' /\ IsFiniteSet(ledger')
<1>1. MainType /\ LinkType /\ ExchangeType /\ CountersType
  BY TypeParts
<1>2. UNCHANGED <<main, stored, exchange, started, kills, cuts, misread>>
  BY DEF CheckExchange, Connect, Disconnect, ProxyReceives, ProxyReplies, MovementsFail,
         MovementsLoaded, Push, Reply, ghosts
<1>3. MainType' /\ ExchangeType'
  BY <1>1, <1>2, MainKept, ExchangeKept
<1>4. losses' = losses \/ losses' = losses + 1
  BY DEF CheckExchange, Connect, Disconnect, ProxyReceives, ProxyReplies, MovementsFail,
         MovementsLoaded, Push, Reply, ghosts
<1>5. CountersType'
  <2>1. losses' \in Nat
    BY <1>1, <1>4, SMT DEF CountersType
  <2> QED BY <1>1, <1>2, <2>1 DEF CountersType
<1>6. 0 \in Nat /\ 1 \in Nat /\ {} \in SUBSET Movement /\ lbtc \in Nat /\ ledger \in SUBSET Movement
  BY <1>1, SMT DEF ExchangeType
<1>7. requests \in Seq(RequestSent) /\ running \subseteq Execution /\ inbox \in Seq(Message)
  BY <1>1 DEF LinkType
<1>8. CASE CheckExchange
  <2>1. balancing.no \in Nat /\ "Movements" \in RequestType
    BY RecordFields DEF TypeOK, RequestType
  <2>2. Request("Movements") \in RequestSent
    BY <2>1 DEF Request, RequestSent
  <2>3. requests' \in Seq(RequestSent)
    BY <1>7, <1>8, <2>2, QueueTypes DEF CheckExchange
  <2> QED BY <1>1, <1>3, <1>5, <1>8, <2>3, TypeParts DEF CheckExchange, LinkType
<1>9. CASE Connect \/ Push
  <2>1. PICK m \in Message : inbox' = Append(inbox, m)
    BY <1>6, <1>9, MessageMade DEF Connect, Push
  <2>2. inbox' \in Seq(Message)
    BY <1>7, <2>1, QueueTypes
  <2>3. up' \in BOOLEAN /\ reported' \subseteq Nat /\ UNCHANGED <<requests, running>>
    BY <1>1, <1>6, <1>9 DEF Connect, Push, LinkType
  <2> QED BY <1>3, <1>5, <1>7, <2>2, <2>3, TypeParts DEF LinkType
<1>10. CASE Disconnect
  <2>1. PICK m \in Message : inbox' = Append(inbox, m)
    BY <1>6, <1>10, MessageMade DEF Disconnect
  <2>2. inbox' \in Seq(Message)
    BY <1>7, <2>1, QueueTypes
  <2>3. requests' \in Seq(RequestSent) /\ running' \subseteq Execution
    <3>1. /\ requests' = requests \/ (requests /= <<>> /\ requests' = Tail(requests))
          /\ running' \subseteq Execution
      BY <1>10, DisconnectDoes
    <3> QED BY <1>7, <3>1, QueueTypes
  <2>4. up' \in BOOLEAN /\ reported' = reported
    BY <1>10 DEF Disconnect
  <2> QED BY <1>1, <1>3, <1>5, <2>2, <2>3, <2>4, TypeParts DEF LinkType
<1>11. CASE ProxyReceives
  <2>1. PICK x \in RequestSent : x = Head(requests)
    BY <1>7, <1>11, QueueTypes DEF ProxyReceives
  <2>2. requests' \in Seq(RequestSent)
    BY <1>7, <1>11, QueueTypes DEF ProxyReceives
  <2>3. [type |-> x.type, no |-> x.no, ran |-> FALSE, lost |-> FALSE, value |-> 0] \in Execution
    BY <1>6 DEF RequestSent, Execution
  <2>4. running' \subseteq Execution
    BY <1>7, <1>11, <2>1, <2>3 DEF ProxyReceives
  <2>5. UNCHANGED <<up, reported, inbox>>
    BY <1>11 DEF ProxyReceives
  <2> QED BY <1>1, <1>3, <1>5, <2>2, <2>4, <2>5, TypeParts DEF LinkType
<1>12. CASE ProxyReplies \/ MovementsFail \/ MovementsLoaded
  <2>1. PICK r \in running, value \in Nat, seen \in SUBSET Movement : Reply(r, value, seen)
    <3>1. \A r \in running : r.value \in Nat
      BY <1>7 DEF Execution
    <3> QED BY <1>6, <1>12, <3>1 DEF ProxyReplies, MovementsFail, MovementsLoaded
  <2>2. r.type \in RequestType /\ r.no \in Nat
    BY <1>7 DEF Execution
  <2>3. PICK m \in Message : m = Msg(r.type, r.no, value, seen)
    BY <2>2, MessageMade
  <2>4. inbox' \in Seq(Message)
    BY <1>7, <2>1, <2>3, QueueTypes DEF Reply
  <2>5. running' \subseteq Execution /\ UNCHANGED <<up, reported, requests>>
    BY <1>7, <2>1 DEF Reply
  <2> QED BY <1>1, <1>3, <1>5, <2>4, <2>5, TypeParts DEF LinkType
<1> QED BY <1>8, <1>9, <1>10, <1>11, <1>12

(* Every value the dealer, its storage and the exchange can hold has its   *)
(* type, and the exchange records finitely many payments.                  *)
LEMMA TypeStep ==
    ASSUME FiniteSizes, TypeOK, IsFiniteSet(ledger), [Next]_vars
    PROVE  TypeOK' /\ IsFiniteSet(ledger')
<1>1. MainType /\ LinkType /\ ExchangeType /\ CountersType
  BY TypeParts
<1>2. CASE UNCHANGED vars
  BY <1>1, <1>2, MainKept, LinkKept, ExchangeKept, CountersKept, TypeParts DEF vars
<1>3. CASE Start
  <2>1. PICK s \in TransferState : Cli(s)
    BY <1>3 DEF Start, TransferState
  <2>2. started \in Nat /\ started + 1 \in Nat
    BY <1>1, SMT DEF CountersType
  <2>3. balancing' \in Transfer
    BY <2>1, <2>2, NewTransfer DEF Cli
  <2>4. MainType' /\ CountersType'
    BY <1>1, <2>1, <2>2, <2>3 DEF Cli, MainType, CountersType
  <2>5. LinkType' /\ ExchangeType'
    BY <1>1, <2>1, LinkKept, ExchangeKept DEF Cli
  <2> QED BY <2>4, <2>5, TypeParts
<1>4. CASE save_storage
  <2>1. MainType'
    BY <1>1, <1>4 DEF save_storage, MainType
  <2>2. LinkType' /\ ExchangeType' /\ CountersType'
    BY <1>1, <1>4, LinkKept, ExchangeKept, CountersKept DEF save_storage
  <2> QED BY <2>1, <2>2, TypeParts
<1>5. CASE ProxyExecutes
  <2>1. PICK r \in running, s \in Execution :
            /\ \A x \in running' : x = s \/ (x \in running /\ x /= r)
            /\ \/ /\ \E mv \in Movement : ledger' = ledger \cup {mv}
                  /\ \/ lbtc' = lbtc
                     \/ lbtc >= Amount /\ lbtc' = lbtc - Amount
               \/ lbtc >= Amount /\ lbtc' = lbtc - Amount /\ ledger' = ledger
               \/ lbtc' = lbtc + Amount /\ ledger' = ledger
               \/ lbtc' = lbtc /\ ledger' = ledger
    BY <1>5, ExecuteDoes
  <2>2. lbtc' \in Nat
    BY <1>1, <2>1, SMT DEF ExchangeType, Amount
  <2>3. ExchangeType'
    BY <1>1, <2>1, <2>2, LedgerGrows DEF ExchangeType
  <2>4. LinkType'
    BY <1>1, <1>5, <2>1 DEF ProxyExecutes, LinkType
  <2>5. MainType' /\ CountersType'
    BY <1>1, <1>5, MainKept, CountersKept DEF ProxyExecutes
  <2> QED BY <2>3, <2>4, <2>5, TypeParts
<1>6. CASE Settle
  <2>1. PICK mv \in ledger, s \in Movement :
            /\ ledger' = (ledger \ {mv}) \cup {s}
            /\ lbtc' = lbtc + Amount \/ lbtc' = lbtc
    BY <1>6, SettleDoes
  <2>2. lbtc' \in Nat
    BY <1>1, <2>1, SMT DEF ExchangeType, Amount
  <2>3. IsFiniteSet(ledger')
    BY <1>1, <2>1, FiniteAdd, FiniteRemove DEF ExchangeType
  <2>4. ExchangeType'
    BY <1>1, <2>1, <2>2, <2>3 DEF ExchangeType
  <2>5. MainType' /\ LinkType' /\ CountersType'
    BY <1>1, <1>6, MainKept, LinkKept, CountersKept DEF Settle
  <2> QED BY <2>4, <2>5, TypeParts
<1>7. CASE Restart
  <2>1. kills' \in Nat /\ cuts' \in Nat /\ UNCHANGED <<started, losses, misread>>
    BY <1>1, <1>7, SMT DEF Restart, CountersType
  <2>2. <<>> \in Seq(RequestSent) /\ <<>> \in Seq(Message)
    BY SMT
  <2>3. LinkType'
    BY <1>7, <2>2 DEF Restart, LinkType
  <2>4. MainType'
    BY <1>1, <1>7 DEF Restart, MainType
  <2>5. ExchangeType' /\ CountersType'
    BY <1>1, <1>7, <2>1, ExchangeKept DEF Restart, CountersType
  <2> QED BY <2>3, <2>4, <2>5, TypeParts
<1> QED BY <1>2, <1>3, <1>4, <1>5, <1>6, <1>7, ProcessBalancingType, ModuleMessageType,
           LinkStepType DEF Next

-----------------------------------------------------------------------------
(* Withdrawals in flight *)

Awaiting == {"RecvUsdtWaitWithdrawId", "RecvBtcWaitWithdrawId", "Failed"}

NoWithdrawal ==
    /\ NoneOf(requests, Withdrawal) /\ NoneOf(inbox, Withdrawal)
    /\ \A r \in running : r.type \notin Withdrawal

LEMMA NoneIsAtMostOne == \A q, T : NoneOf(q, T) => AtMostOne(q, T)
  BY DEF NoneOf, AtMostOne

LEMMA IdleInv ==
    /\ WithdrawInv /\ balancing.state \notin Awaiting => NoWithdrawal
    /\ NoWithdrawal' => WithdrawInv'
<1>1. ASSUME WithdrawInv, balancing.state \notin Awaiting PROVE NoWithdrawal
  BY <1>1 DEF WithdrawInv, OneWithdrawal, IsOwn, Awaiting, NoWithdrawal, NoneOf
<1>2. ASSUME NoWithdrawal' PROVE WithdrawInv'
  BY <1>2, NoneIsAtMostOne DEF WithdrawInv, OneWithdrawal, IsOwn, NoWithdrawal, NoneOf
<1> QED BY <1>1, <1>2

(* What is queued after a step was queued before it.                       *)
LEMMA OwnKept ==
    ASSUME WithdrawInv, UNCHANGED balancing
    PROVE  /\ (\A i \in DOMAIN requests' : requests'[i].type \in Withdrawal =>
                   \E j \in DOMAIN requests : requests'[i] = requests[j])
                 => \A i \in DOMAIN requests' : IsOwn(requests[i])'
           /\ (\A i \in DOMAIN inbox' : inbox'[i].type \in Withdrawal =>
                   \E j \in DOMAIN inbox : inbox'[i] = inbox[j])
                 => \A i \in DOMAIN inbox' : IsOwn(inbox[i])'
<1>1. ASSUME NEW i \in DOMAIN requests', requests'[i].type \in Withdrawal,
             NEW j \in DOMAIN requests, requests'[i] = requests[j]
      PROVE  requests'[i].no = balancing.no /\ balancing.state \in Awaiting
  BY <1>1 DEF WithdrawInv, IsOwn, Awaiting
<1>2. ASSUME NEW i \in DOMAIN inbox', inbox'[i].type \in Withdrawal,
             NEW j \in DOMAIN inbox, inbox'[i] = inbox[j]
      PROVE  inbox'[i].no = balancing.no /\ balancing.state \in Awaiting
  BY <1>2 DEF WithdrawInv, IsOwn, Awaiting
<1> QED BY <1>1, <1>2 DEF IsOwn, Awaiting

(* The ways a withdrawal moves while the transfer stays as it is, or fails. *)
LEMMA RequestQueued ==
    ASSUME WithdrawInv, requests \in Seq(RequestSent), NEW x \in RequestSent,
           x.type \notin Withdrawal,
           requests' = Append(requests, x), UNCHANGED <<running, inbox, balancing>>
    PROVE  WithdrawInv'
<1>1. /\ \A i \in DOMAIN requests' : requests'[i] = x \/ \E j \in DOMAIN requests : requests'[i] = requests[j]
      /\ NoneOf(requests, Withdrawal) => NoneOf(requests', Withdrawal)
      /\ AtMostOne(requests, Withdrawal) => AtMostOne(requests', Withdrawal)
  BY RequestAdded
<1>2. OneWithdrawal'
  BY <1>1 DEF WithdrawInv, OneWithdrawal
<1>3. \A i \in DOMAIN requests' : IsOwn(requests[i])'
  BY <1>1, OwnKept
<1> QED BY <1>2, <1>3 DEF WithdrawInv, IsOwn

LEMMA MessageQueued ==
    ASSUME WithdrawInv, inbox \in Seq(Message), NEW m \in Message,
           m.type \notin Withdrawal,
           inbox' = Append(inbox, m), UNCHANGED balancing,
           \/ requests' = requests
           \/ requests \in Seq(RequestSent) /\ requests /= <<>> /\ requests' = Tail(requests),
           \A s \in running' : \E r \in running : s.type = r.type /\ s.no = r.no,
           \A r, s \in running' : r.type \in Withdrawal /\ s.type \in Withdrawal => r = s
    PROVE  WithdrawInv'
<1>1. /\ \A i \in DOMAIN inbox' : inbox'[i] = m \/ \E j \in DOMAIN inbox : inbox'[i] = inbox[j]
      /\ NoneOf(inbox, Withdrawal) => NoneOf(inbox', Withdrawal)
      /\ AtMostOne(inbox, Withdrawal) => AtMostOne(inbox', Withdrawal)
  BY MessageAdded
<1>2. /\ \A i \in DOMAIN requests' : \E j \in DOMAIN requests : requests'[i] = requests[j]
      /\ NoneOf(requests, Withdrawal) => NoneOf(requests', Withdrawal)
      /\ AtMostOne(requests, Withdrawal) => AtMostOne(requests', Withdrawal)
  <2>1. CASE requests' = requests
    BY <2>1
  <2>2. CASE requests \in Seq(RequestSent) /\ requests /= <<>> /\ requests' = Tail(requests)
    BY <2>2, RequestTaken
  <2> QED BY <2>1, <2>2
<1>3. OneWithdrawal'
  BY <1>1, <1>2 DEF WithdrawInv, OneWithdrawal
<1>4. \A r \in running' : IsOwn(r)'
  BY DEF WithdrawInv, IsOwn
<1>5. \A i \in DOMAIN inbox' : IsOwn(inbox[i])'
  BY <1>1, OwnKept
<1>6. \A i \in DOMAIN requests' : IsOwn(requests[i])'
  BY <1>2, OwnKept
<1> QED BY <1>3, <1>4, <1>5, <1>6 DEF WithdrawInv

LEMMA RequestReceived ==
    ASSUME WithdrawInv, requests \in Seq(RequestSent), requests /= <<>>,
           requests' = Tail(requests), UNCHANGED <<inbox, balancing>>,
           NEW s, s.type = Head(requests).type, s.no = Head(requests).no,
           running' = running \cup {s}
    PROVE  WithdrawInv'
<1>1. PICK x : x = Head(requests)
  OBVIOUS
<1>2. /\ \E i \in DOMAIN requests : x = requests[i]
      /\ \A i \in DOMAIN requests' : \E j \in DOMAIN requests : requests'[i] = requests[j]
      /\ NoneOf(requests, Withdrawal) => NoneOf(requests', Withdrawal)
      /\ AtMostOne(requests, Withdrawal) => AtMostOne(requests', Withdrawal)
      /\ AtMostOne(requests, Withdrawal) /\ x.type \in Withdrawal => NoneOf(requests', Withdrawal)
      /\ NoneOf(requests, Withdrawal) => x.type \notin Withdrawal
  BY <1>1, RequestTaken
<1>5. \A i \in DOMAIN requests' : IsOwn(requests[i])'
  BY <1>2, OwnKept
<1>6. IsOwn(x)
  BY <1>2 DEF WithdrawInv
<1>7. \A r \in running' : IsOwn(r)'
  BY <1>1, <1>6 DEF WithdrawInv, IsOwn
<1>8. \A i \in DOMAIN inbox' : IsOwn(inbox[i])'
  BY DEF WithdrawInv, IsOwn
<1>3. CASE x.type \in Withdrawal
  <2>1. /\ NoneOf(requests', Withdrawal) /\ AtMostOne(requests', Withdrawal)
        /\ NoneOf(inbox, Withdrawal) /\ \A r \in running : r.type \notin Withdrawal
    BY <1>2, <1>3 DEF WithdrawInv, OneWithdrawal
  <2>2. OneWithdrawal'
    BY <1>1, <1>3, <2>1 DEF WithdrawInv, OneWithdrawal
  <2> QED BY <1>5, <1>7, <1>8, <2>2 DEF WithdrawInv
<1>4. CASE x.type \notin Withdrawal
  <2>1. OneWithdrawal'
    BY <1>1, <1>2, <1>4 DEF WithdrawInv, OneWithdrawal
  <2> QED BY <1>5, <1>7, <1>8, <2>1 DEF WithdrawInv
<1> QED BY <1>3, <1>4

LEMMA RequestExecuted ==
    ASSUME WithdrawInv, UNCHANGED <<requests, inbox, balancing>>,
           NEW r \in running, NEW s, s.type = r.type, s.no = r.no,
           \A x \in running' : x = s \/ (x \in running /\ x /= r)
    PROVE  WithdrawInv'
<1>1. OneWithdrawal'
  BY DEF WithdrawInv, OneWithdrawal
<1> QED BY <1>1 DEF WithdrawInv, IsOwn

LEMMA ResultQueued ==
    ASSUME WithdrawInv, inbox \in Seq(Message), NEW m \in Message,
           NEW r \in running, m.type = r.type, m.no = r.no,
           running' = running \ {r}, inbox' = Append(inbox, m), UNCHANGED <<requests, balancing>>
    PROVE  WithdrawInv'
<1>1. /\ \A i \in DOMAIN inbox' : inbox'[i] = m \/ \E j \in DOMAIN inbox : inbox'[i] = inbox[j]
      /\ NoneOf(inbox, Withdrawal) /\ m.type \notin Withdrawal => NoneOf(inbox', Withdrawal)
      /\ AtMostOne(inbox, Withdrawal) /\ m.type \notin Withdrawal => AtMostOne(inbox', Withdrawal)
      /\ NoneOf(inbox, Withdrawal) => AtMostOne(inbox', Withdrawal)
  BY MessageAdded
<1>2. OneWithdrawal'
  BY <1>1 DEF WithdrawInv, OneWithdrawal
<1> QED BY <1>1, <1>2 DEF WithdrawInv, IsOwn

LEMMA WithdrawStep ==
    ASSUME FiniteSizes, TypeOK, IsFiniteSet(ledger), WithdrawInv, [Next]_vars
    PROVE  WithdrawInv'
<1>1. requests \in Seq(RequestSent) /\ running \subseteq Execution /\ inbox \in Seq(Message)
  BY DEF TypeOK
<1>2. CASE UNCHANGED <<requests, running, inbox, balancing>>
  BY <1>2 DEF WithdrawInv, OneWithdrawal, IsOwn
<1>3. CASE save_storage \/ Settle \/ UNCHANGED vars
  BY <1>2, <1>3 DEF save_storage, Settle, main, link, vars
<1>4. CASE Start
  <2>1. balancing = NoTransfer /\ UNCHANGED <<requests, running, inbox>>
    BY <1>4 DEF Start, Cli, link
  <2>2. balancing.state \notin Awaiting
    BY <2>1, SMT DEF NoTransfer, Awaiting
  <2> QED BY <2>1, <2>2, IdleInv DEF NoWithdrawal
<1>5. CASE CheckExchange
  <2>1. balancing.no \in Nat /\ "Movements" \in RequestType
    BY RecordFields DEF TypeOK, RequestType
  <2>2. Request("Movements") \in RequestSent /\ Request("Movements").type = "Movements"
    BY <2>1 DEF Request, RequestSent
  <2>3. PICK x \in RequestSent : x = Request("Movements")
    BY <2>2
  <2>4. x.type \notin Withdrawal
    BY <2>2, <2>3 DEF Withdrawal
  <2>5. requests' = Append(requests, x) /\ UNCHANGED <<running, inbox, balancing>>
    BY <1>5, <2>3 DEF CheckExchange, main
  <2> QED BY <1>1, <2>4, <2>5, RequestQueued
<1>6. CASE Connect \/ Push
  <2>1. PICK m \in Message : inbox' = Append(inbox, m) /\ m.type \in {"Connected", "WalletUpdate"}
    <3>1. 0 \in Nat /\ {} \in SUBSET Movement /\ lbtc \in Nat
      BY SMT DEF TypeOK
    <3>2. PICK m : /\ m = Msg("Connected", 0, 0, {}) \/ m = Msg("WalletUpdate", 0, lbtc, {})
                   /\ inbox' = Append(inbox, m)
      BY <1>6 DEF Connect, Push
    <3>3. m \in Message /\ m.type \in {"Connected", "WalletUpdate"}
      BY <3>1, <3>2, SMT DEF Msg, Message
    <3> QED BY <3>2, <3>3
  <2>2. m.type \notin Withdrawal
    BY <2>1 DEF Withdrawal
  <2>3. UNCHANGED <<requests, running, balancing>>
    BY <1>6 DEF Connect, Push, main
  <2> QED BY <1>1, <2>1, <2>2, <2>3, MessageQueued DEF WithdrawInv, OneWithdrawal
<1>7. CASE Disconnect
  <2>1. PICK m \in Message : inbox' = Append(inbox, m) /\ m.type = "Disconnected"
    <3>1. 0 \in Nat /\ {} \in SUBSET Movement
      BY SMT
    <3>2. PICK m : m = Msg("Disconnected", 0, 0, {}) /\ inbox' = Append(inbox, m)
      BY <1>7 DEF Disconnect
    <3>3. m \in Message /\ m.type = "Disconnected"
      BY <3>1, <3>2 DEF Msg, Message
    <3> QED BY <3>2, <3>3
  <2>2. m.type \notin Withdrawal
    BY <2>1 DEF Withdrawal
  <2>3. /\ requests' = requests \/ (requests /= <<>> /\ requests' = Tail(requests))
        /\ \A s \in running' : \E r \in running :
               s.type = r.type /\ s.no = r.no /\ s = [r EXCEPT !.lost = TRUE]
    BY <1>7, DisconnectDoes
  <2>4. \A r, s \in running' : r.type \in Withdrawal /\ s.type \in Withdrawal => r = s
    <3> SUFFICES ASSUME NEW r \in running', NEW s \in running',
                        r.type \in Withdrawal, s.type \in Withdrawal
                 PROVE  r = s
      OBVIOUS
    <3>1. PICK p \in running : p.type \in Withdrawal /\ r = [p EXCEPT !.lost = TRUE]
      BY <2>3
    <3>2. PICK q \in running : q.type \in Withdrawal /\ s = [q EXCEPT !.lost = TRUE]
      BY <2>3
    <3>3. p = q
      BY <3>1, <3>2 DEF WithdrawInv, OneWithdrawal
    <3> QED BY <3>1, <3>2, <3>3
  <2>5. UNCHANGED balancing
    BY <1>7 DEF Disconnect, main
  <2> QED BY <1>1, <2>1, <2>2, <2>3, <2>4, <2>5, MessageQueued
<1>8. CASE ProxyReceives
  <2>1. PICK s : s = [type |-> Head(requests).type, no |-> Head(requests).no,
                      ran |-> FALSE, lost |-> FALSE, value |-> 0]
    OBVIOUS
  <2>2. s.type = Head(requests).type /\ s.no = Head(requests).no
    BY <2>1
  <2>3. /\ requests /= <<>> /\ requests' = Tail(requests) /\ UNCHANGED <<inbox, balancing>>
        /\ running' = running \cup {s}
    BY <1>8, <2>1 DEF ProxyReceives, main
  <2> QED BY <1>1, <2>2, <2>3, RequestReceived
<1>9. CASE ProxyExecutes
  <2>1. PICK r \in running, s \in Execution : /\ s.type = r.type /\ s.no = r.no
                                              /\ \A x \in running' : x = s \/ (x \in running /\ x /= r)
    BY <1>9, ExecuteDoes
  <2>2. UNCHANGED <<requests, inbox, balancing>>
    BY <1>9 DEF ProxyExecutes, main
  <2> QED BY <2>1, <2>2, RequestExecuted
<1>10. CASE ProxyReplies \/ MovementsFail \/ MovementsLoaded
  <2>1. PICK r \in running, value \in Nat, seen \in SUBSET Movement : Reply(r, value, seen)
    <3>1. /\ \A r \in running : r.value \in Nat
          /\ 0 \in Nat /\ 1 \in Nat /\ {} \in SUBSET Movement /\ ledger \in SUBSET Movement
      BY <1>1, SMT DEF Execution, TypeOK
    <3> QED BY <1>10, <3>1 DEF ProxyReplies, MovementsFail, MovementsLoaded
  <2>2. r.type \in RequestType /\ r.no \in Nat
    BY <1>1 DEF Execution
  <2>3. PICK m \in Message : m = Msg(r.type, r.no, value, seen) /\ m.type = r.type /\ m.no = r.no
    BY <2>2, MessageMade, SMT
  <2>4. /\ running' = running \ {r} /\ inbox' = Append(inbox, m)
        /\ UNCHANGED <<requests, balancing>>
    BY <2>1, <2>3 DEF Reply, main
  <2> QED BY <1>1, <2>3, <2>4, ResultQueued
<1>11. CASE Restart
  BY <1>11, EmptyQueue, IdleInv DEF Restart, NoWithdrawal
<1>12. CASE process_balancing
  <2>1. UNCHANGED <<running, inbox>>
    BY <1>12 DEF process_balancing
  <2>2. balancing.state \notin Awaiting
    BY <1>12, SMT DEF process_balancing, Awaiting, ConversionDone, TransferEnds
  <2>3. NoWithdrawal
    BY <2>2, IdleInv
  <2>4. CASE UNCHANGED requests
    BY <2>1, <2>3, <2>4, IdleInv DEF NoWithdrawal
  <2>5. ASSUME NEW from, NEW type, NEW to, Asks(from, type, to),
               type \in Withdrawal => to \in Awaiting
        PROVE  WithdrawInv'
    <3>1. balancing \in Transfer
      BY <1>12, ProcessBalancingDoes
    <3>2. PICK x \in RequestSent : /\ x.type = type /\ x.no = balancing.no
                                   /\ requests' = Append(requests, x)
                                   /\ balancing'.no = balancing.no /\ balancing'.state = to
      BY <2>5, <3>1, AskDoes DEF Asks
    <3>3. /\ \A i \in DOMAIN requests' :
                 requests'[i] = x \/ \E j \in DOMAIN requests : requests'[i] = requests[j]
          /\ NoneOf(requests, Withdrawal) => AtMostOne(requests', Withdrawal)
      BY <1>1, <3>2, RequestAdded
    <3>4. OneWithdrawal'
      BY <2>1, <2>3, <3>3, NoneIsAtMostOne DEF NoWithdrawal, OneWithdrawal
    <3>5. \A i \in DOMAIN requests' : requests'[i].type \in Withdrawal =>
              requests'[i].no = balancing'.no /\ balancing'.state \in Awaiting
      <4> SUFFICES ASSUME NEW i \in DOMAIN requests', requests'[i].type \in Withdrawal
                   PROVE  requests'[i].no = balancing'.no /\ balancing'.state \in Awaiting
        OBVIOUS
      <4>1. requests'[i] = x
        BY <2>3, <3>3 DEF NoWithdrawal, NoneOf
      <4> QED BY <2>5, <3>2, <4>1
    <3> QED BY <2>1, <2>3, <3>4, <3>5 DEF WithdrawInv, IsOwn, NoWithdrawal, NoneOf, Awaiting
  <2>6. /\ {"RecvUsdtWaitWithdrawId", "RecvBtcWaitWithdrawId"} \subseteq Awaiting
        /\ "TransferToLbtc" \notin Withdrawal /\ "TransferToBtc" \notin Withdrawal
    BY DEF Awaiting, Withdrawal
  <2> QED BY <1>12, <2>4, <2>5, <2>6, ProcessBalancingDoes DEF Send, ConversionDone, TransferEnds
<1>13. CASE ModuleMessage
  <2>1. PICK m : /\ inbox /= <<>> /\ m = Head(inbox) /\ inbox' = Tail(inbox)
                 /\ \/ balancing' = balancing /\ (m.type \in Withdrawal => balancing = NoTransfer)
                    \/ m.type \in Withdrawal
                    \/ balancing'.no = balancing.no /\ balancing'.state = "Failed"
                    \/ tx_found(m.seen)
    BY <1>13, MessageDoes
  <2>2. UNCHANGED <<requests, running>>
    BY <1>13 DEF ModuleMessage, link
  <2>3. /\ \E i \in DOMAIN inbox : m = inbox[i]
        /\ \A i \in DOMAIN inbox' : \E j \in DOMAIN inbox : inbox'[i] = inbox[j]
        /\ NoneOf(inbox, Withdrawal) => NoneOf(inbox', Withdrawal)
        /\ AtMostOne(inbox, Withdrawal) => AtMostOne(inbox', Withdrawal)
        /\ AtMostOne(inbox, Withdrawal) /\ m.type \in Withdrawal => NoneOf(inbox', Withdrawal)
        /\ NoneOf(inbox, Withdrawal) => m.type \notin Withdrawal
    BY <1>1, <2>1, MessageTaken
  <2>4. CASE m.type \in Withdrawal
    <3>1. NoWithdrawal'
      BY <2>2, <2>3, <2>4 DEF WithdrawInv, OneWithdrawal, NoWithdrawal
    <3> QED BY <3>1, IdleInv
  <2>5. CASE tx_found(m.seen)
    <3>1. balancing.state \notin Awaiting
      BY <2>5, SMT DEF tx_found, Awaiting
    <3>2. NoWithdrawal'
      BY <2>2, <2>3, <3>1, IdleInv DEF NoWithdrawal
    <3> QED BY <3>2, IdleInv
  <2>6. OneWithdrawal'
    BY <2>2, <2>3 DEF WithdrawInv, OneWithdrawal
  <2>7. CASE balancing' = balancing
    <3>1. \A i \in DOMAIN inbox' : IsOwn(inbox[i])'
      BY <2>3, <2>7, OwnKept
    <3> QED BY <2>2, <2>6, <2>7, <3>1 DEF WithdrawInv, IsOwn
  <2>8. CASE balancing'.no = balancing.no /\ balancing'.state = "Failed"
    <3>1. \A i \in DOMAIN inbox' : inbox'[i].type \in Withdrawal => inbox'[i].no = balancing.no
      <4> SUFFICES ASSUME NEW i \in DOMAIN inbox', inbox'[i].type \in Withdrawal
                   PROVE  inbox'[i].no = balancing.no
        OBVIOUS
      <4>1. PICK j \in DOMAIN inbox : inbox'[i] = inbox[j]
        BY <2>3
      <4> QED BY <4>1 DEF WithdrawInv, IsOwn
    <3> QED BY <2>2, <2>6, <2>8, <3>1 DEF WithdrawInv, IsOwn
  <2> QED BY <2>1, <2>4, <2>5, <2>7, <2>8
<1> QED BY <1>3, <1>4, <1>5, <1>6, <1>7, <1>8, <1>9, <1>10, <1>11, <1>12, <1>13 DEF Next

-----------------------------------------------------------------------------
(* The payments *)

LEMMA PaymentAdded ==
    ASSUME FiniteSizes, LedgerInv, NEW mv, mv.id = Cardinality(ledger) + 1, mv.no \in 1..started,
           ledger' = ledger \cup {mv}, started' = started
    PROVE  LedgerInv' /\ mv \notin ledger
<1>1. IsFiniteSet(ledger) /\ Cardinality(ledger) \in Nat
  BY FiniteSize DEF LedgerInv
<1>2. PICK n \in Nat : n = Cardinality(ledger)
  BY <1>1
<1>3. \A p \in ledger : p.id \in 1..n /\ p.id /= mv.id
  BY <1>2, SMT DEF LedgerInv
<1>4. mv \notin ledger
  BY <1>3
<1>5. IsFiniteSet(ledger') /\ Cardinality(ledger') = n + 1
  BY <1>1, <1>2, <1>4, FiniteAdd
<1>6. ASSUME NEW p \in ledger' PROVE p.id \in 1..(n + 1) /\ p.no \in 1..started
  <2>1. CASE p = mv
    BY <1>2, <2>1, SMT
  <2>2. CASE p \in ledger
    BY <1>3, <2>2, SMT DEF LedgerInv
  <2> QED BY <2>1, <2>2
<1>7. \A p, q \in ledger' : p.id = q.id => p = q
  BY <1>3 DEF LedgerInv
<1> QED BY <1>4, <1>5, <1>6, <1>7 DEF LedgerInv

LEMMA PaymentSettled ==
    ASSUME FiniteSizes, LedgerInv, NEW mv \in ledger, NEW s, ~mv.done, s.done, s.id = mv.id, s.no = mv.no,
           ledger' = (ledger \ {mv}) \cup {s}, started' = started
    PROVE  /\ LedgerInv' /\ s \notin ledger
           /\ \A p \in ledger : p.done => p \in ledger'
<1>1. IsFiniteSet(ledger) /\ Cardinality(ledger) \in Nat
  BY FiniteSize DEF LedgerInv
<1>2. s \notin ledger
  BY DEF LedgerInv
<1>3. PICK rest : rest = ledger \ {mv}
  OBVIOUS
<1>4. IsFiniteSet(rest) /\ Cardinality(rest) = Cardinality(ledger) - 1 /\ s \notin rest
  BY <1>1, <1>2, <1>3, FiniteRemove
<1>5. IsFiniteSet(ledger') /\ Cardinality(ledger') = Cardinality(rest) + 1
  BY <1>3, <1>4, FiniteAdd
<1>6. Cardinality(ledger') = Cardinality(ledger)
  BY <1>1, <1>4, <1>5, SMT
<1>7. \A p \in ledger' : p.id \in 1..Cardinality(ledger) /\ p.no \in 1..started
  BY DEF LedgerInv
<1>8. \A p, q \in ledger' : p.id = q.id => p = q
  BY SMT DEF LedgerInv
<1> QED BY <1>2, <1>5, <1>6, <1>7, <1>8 DEF LedgerInv

(* The steps that leave the exchange, the transfer and its record alone.   *)
LEMMA LinkStepKeeps ==
    ASSUME \/ CheckExchange \/ Connect \/ Disconnect \/ ProxyReceives \/ ProxyReplies
           \/ MovementsFail \/ MovementsLoaded \/ Push
    PROVE  UNCHANGED <<main, stored, exchange, started, kills, cuts, misread>>
  BY DEF CheckExchange, Connect, Disconnect, ProxyReceives, ProxyReplies, MovementsFail,
         MovementsLoaded, Push, Reply, ghosts

LEMMA TransferIsNumbered ==
    ASSUME MemoryInv, balancing \in Transfer
    PROVE  balancing.no \in 1..started
<1>1. NoTransfer \notin Transfer
  BY NoneIsNoState, SMT DEF NoTransfer, Transfer
<1> QED BY <1>1 DEF MemoryInv

LEMMA LedgerStep ==
    ASSUME FiniteSizes, TypeOK, WithdrawInv, LedgerInv, MemoryInv, [Next]_vars
    PROVE  LedgerInv' /\ \A p \in ledger : p.done => p \in ledger'
<1>1. IsFiniteSet(ledger) /\ Cardinality(ledger) \in Nat
  BY FiniteSize DEF LedgerInv
<1>2. CASE ledger' = ledger /\ started' = started
  BY <1>2 DEF LedgerInv
<1>3. balancing \in Transfer => balancing.no \in 1..started
  BY TransferIsNumbered
<1>5. CASE process_balancing
  <2>1. started' = started
    BY <1>5 DEF process_balancing
  <2>2. CASE \E asset \in {"usdt", "lbtc"}, s \in TransferState : Send(asset, s)
    <3>1. PICK mv \in Movement :
              /\ mv.id = Cardinality(ledger) + 1 /\ mv.no = balancing.no
              /\ ledger' = ledger \/ ledger' = ledger \cup {mv}
      BY <1>1, <1>5, <2>2, SendDoes, ProcessBalancingDoes
    <3> QED BY <1>2, <1>3, <1>5, <2>1, <3>1, PaymentAdded, ProcessBalancingDoes
  <2>3. {"SendUsdtWaitConfirm", "SendBtcWaitLbtcBalance"} \subseteq TransferState
    BY DEF TransferState
  <2>4. \/ \E asset \in {"usdt", "lbtc"}, s \in TransferState : Send(asset, s)
        \/ ledger' = ledger
    BY <1>5, <2>3, ProcessBalancingDoes DEF Asks, Ask, ConversionDone, TransferEnds
  <2> QED BY <1>2, <2>1, <2>2, <2>4
<1>6. CASE ProxyExecutes
  <2>1. started' = started
    BY <1>6 DEF ProxyExecutes, ghosts
  <2>2. PICK r \in running :
            \/ ledger' = ledger
            \/ /\ r.type \in Withdrawal
               /\ \E mv \in Movement : /\ mv.id = Cardinality(ledger) + 1 /\ mv.no = r.no
                                       /\ ledger' = ledger \cup {mv}
    BY <1>1, <1>6, ExecuteDoes
  <2>3. CASE /\ r.type \in Withdrawal
             /\ \E mv \in Movement : /\ mv.id = Cardinality(ledger) + 1 /\ mv.no = r.no
                                     /\ ledger' = ledger \cup {mv}
    <3>1. r.no = balancing.no /\ balancing.state \in Awaiting
      BY <2>3 DEF WithdrawInv, IsOwn, Awaiting
    <3>2. balancing \in Transfer
      <4>1. NoTransfer.state \notin Awaiting
        BY SMT DEF NoTransfer, Awaiting
      <4> QED BY <3>1, <4>1 DEF TypeOK
    <3>3. r.no \in 1..started
      BY <1>3, <3>1, <3>2
    <3> QED BY <2>1, <2>3, <3>3, PaymentAdded
  <2> QED BY <1>2, <2>1, <2>2, <2>3
<1>7. CASE Settle
  <2>1. PICK mv \in ledger, s \in Movement :
               /\ ~mv.done /\ s.done /\ s.id = mv.id /\ s.no = mv.no
               /\ ledger' = (ledger \ {mv}) \cup {s}
    BY <1>7, SettleDoes
  <2> QED BY <1>7, <2>1, PaymentSettled DEF Settle, ghosts
<1>8. CASE Start
  <2>1. ledger' = ledger /\ started' = started + 1
    BY <1>8 DEF Start, Cli, exchange
  <2>2. \A n \in 1..started : n \in 1..(started + 1)
    BY SMT DEF TypeOK
  <2> QED BY <2>1, <2>2 DEF LedgerInv
<1>9. CASE save_storage \/ ModuleMessage \/ Restart \/ UNCHANGED vars
  BY <1>2, <1>9 DEF save_storage, ModuleMessage, Restart, exchange, ghosts, vars
<1> QED BY <1>2, <1>5, <1>6, <1>7, <1>8, <1>9, LinkStepKeeps DEF Next, exchange

(* The message that a step of the link leaves for the main loop.           *)
LEMMA LinkStepSends ==
    ASSUME TypeOK,
           \/ CheckExchange \/ Connect \/ Disconnect \/ ProxyReceives \/ ProxyReplies
           \/ MovementsFail \/ MovementsLoaded \/ Push
    PROVE  \/ inbox' = inbox
           \/ \E m \in Message :
                  /\ inbox' = Append(inbox, m)
                  /\ m.seen \subseteq ledger
                  /\ m.type = "WalletUpdate" => m.value = lbtc
                  /\ m.type \in Withdrawal =>
                         \E r \in running : m.type = r.type /\ m.no = r.no /\ m.value = r.value
<1>1. /\ \A r \in running : r.type \in RequestType /\ r.no \in Nat /\ r.value \in Nat
      /\ 0 \in Nat /\ 1 \in Nat /\ lbtc \in Nat /\ ledger \in SUBSET Movement
      /\ {} \in SUBSET Movement /\ {} \subseteq ledger
  BY SMT DEF TypeOK, Execution
<1>2. CASE CheckExchange \/ ProxyReceives
  BY <1>2 DEF CheckExchange, ProxyReceives
<1>3. CASE Connect
  <2>1. PICK m : m = Msg("Connected", 0, 0, {}) /\ inbox' = Append(inbox, m)
    BY <1>3 DEF Connect
  <2>2. m \in Message /\ m.type = "Connected" /\ m.seen = {}
    BY <1>1, <2>1 DEF Msg, Message
  <2> QED BY <1>1, <2>1, <2>2 DEF Withdrawal
<1>4. CASE Disconnect
  <2>1. PICK m : m = Msg("Disconnected", 0, 0, {}) /\ inbox' = Append(inbox, m)
    BY <1>4 DEF Disconnect
  <2>2. m \in Message /\ m.type = "Disconnected" /\ m.seen = {}
    BY <1>1, <2>1 DEF Msg, Message
  <2> QED BY <1>1, <2>1, <2>2 DEF Withdrawal
<1>5. CASE Push
  <2>1. PICK m : m = Msg("WalletUpdate", 0, lbtc, {}) /\ inbox' = Append(inbox, m)
    BY <1>5 DEF Push
  <2>2. m \in Message /\ m.type = "WalletUpdate" /\ m.seen = {} /\ m.value = lbtc
    BY <1>1, <2>1 DEF Msg, Message
  <2> QED BY <1>1, <2>1, <2>2 DEF Withdrawal
<1>6. ASSUME NEW r \in running, NEW value \in Nat, NEW seen \in SUBSET Movement,
             Reply(r, value, seen), seen \subseteq ledger,
             r.type \in Withdrawal => value = r.value
      PROVE  \E m \in Message :
                  /\ inbox' = Append(inbox, m)
                  /\ m.seen \subseteq ledger
                  /\ m.type = "WalletUpdate" => m.value = lbtc
                  /\ m.type \in Withdrawal =>
                         \E s \in running : m.type = s.type /\ m.no = s.no /\ m.value = s.value
  <2>1. PICK m : m = Msg(r.type, r.no, value, seen) /\ inbox' = Append(inbox, m)
    BY <1>6 DEF Reply
  <2>2. m.type = r.type /\ m.no = r.no /\ m.value = value /\ m.seen = seen
    BY <2>1 DEF Msg
  <2>3. m \in Message
    BY <1>1, <2>1 DEF Msg, Message
  <2>4. r.type /= "WalletUpdate"
    BY <1>1, SMT DEF RequestType
  <2> QED BY <1>6, <2>1, <2>2, <2>3, <2>4
<1>7. CASE ProxyReplies
  BY <1>1, <1>6, <1>7 DEF ProxyReplies
<1>8. CASE MovementsFail \/ MovementsLoaded
  <2>1. "Movements" \notin Withdrawal
    BY DEF Withdrawal
  <2> QED BY <1>1, <1>6, <1>8, <2>1 DEF MovementsFail, MovementsLoaded
<1> QED BY <1>2, <1>3, <1>4, <1>5, <1>7, <1>8

LEMMA MemoryStep ==
    ASSUME FiniteSizes, TypeOK, WithdrawInv, LedgerInv, MemoryInv, [Next]_vars
    PROVE  MemoryInv'
<1>1. inbox \in Seq(Message)
  BY DEF TypeOK
<1>2. \A p \in ledger : p.done => p \in ledger'
  BY LedgerStep
<1>3. \A i \in DOMAIN inbox' : \A mv \in inbox'[i].seen : mv.done => mv \in ledger'
  <2>1. CASE inbox' = inbox
    BY <1>2, <2>1 DEF MemoryInv
  <2>2. CASE ModuleMessage
    <3>1. \A i \in DOMAIN inbox' : \E j \in DOMAIN inbox : inbox'[i] = inbox[j]
      BY <1>1, <2>2, MessageTaken DEF ModuleMessage
    <3> QED BY <1>2, <3>1 DEF MemoryInv
  <2>3. ASSUME NEW m \in Message, m.seen \subseteq ledger, inbox' = Append(inbox, m)
        PROVE  \A i \in DOMAIN inbox' : \A mv \in inbox'[i].seen : mv.done => mv \in ledger'
    <3>1. \A i \in DOMAIN inbox' : inbox'[i] = m \/ \E j \in DOMAIN inbox : inbox'[i] = inbox[j]
      BY <1>1, <2>3, MessageAdded
    <3>2. \A mv \in m.seen : mv.done => mv \in ledger'
      BY <1>2, <2>3
    <3> QED BY <1>2, <3>1, <3>2 DEF MemoryInv
  <2>4. CASE \/ CheckExchange \/ Connect \/ Disconnect \/ ProxyReceives \/ ProxyReplies
             \/ MovementsFail \/ MovementsLoaded \/ Push
    BY <2>1, <2>3, <2>4, LinkStepSends
  <2>5. CASE Restart
    <3>1. inbox' = <<>> /\ \A i \in DOMAIN <<>> : FALSE
      BY <2>5, SMT DEF Restart
    <3> QED BY <3>1
  <2>6. CASE \/ Start \/ process_balancing \/ save_storage \/ ProxyExecutes \/ Settle
             \/ UNCHANGED vars
    BY <2>1, <2>6 DEF Start, Cli, process_balancing, save_storage, ProxyExecutes, Settle, vars
  <2> QED BY <2>2, <2>4, <2>5, <2>6 DEF Next
<1>4. /\ \A b \in {balancing', stored'} : b = NoTransfer \/ b.no \in 1..started'
      /\ ~saving' => stored' = balancing'
  <2>1. CASE UNCHANGED <<balancing, stored, saving, started>>
    BY <2>1 DEF MemoryInv
  <2>2. CASE Start
    <3>1. PICK s \in TransferState : Cli(s)
      BY <2>2 DEF Start, TransferState
    <3>2. /\ started \in Nat /\ started + 1 \in Nat /\ started + 1 \in 1..(started + 1)
          /\ \A n \in 1..started : n \in 1..(started + 1)
      BY SMT DEF TypeOK
    <3>3. /\ balancing'.no = started + 1 /\ saving' = TRUE /\ stored' = stored
          /\ started' = started + 1
      BY <3>1, <3>2, NewTransfer DEF Cli
    <3> QED BY <3>2, <3>3 DEF MemoryInv
  <2>3. CASE process_balancing
    <3>1. /\ balancing'.no = balancing.no \/ balancing' = NoTransfer
          /\ saving' = TRUE /\ balancing \in Transfer
      <4>1. "Complete" \in TransferState /\ "SendUsdtWaitConfirm" \in TransferState
            /\ "SendBtcWaitLbtcBalance" \in TransferState
        BY DEF TransferState
      <4>2. Cardinality(ledger) \in Nat
        BY FiniteSize DEF LedgerInv
      <4>3. balancing \in Transfer
        BY <2>3, ProcessBalancingDoes
      <4>4. ASSUME NEW asset \in {"usdt", "lbtc"}, NEW s \in TransferState, Send(asset, s)
            PROVE  balancing'.no = balancing.no /\ saving' = TRUE
        BY <4>2, <4>3, <4>4, SendDoes
      <4>5. ASSUME NEW from, NEW type, NEW to, Asks(from, type, to)
            PROVE  balancing'.no = balancing.no /\ saving' = TRUE
        BY <4>3, <4>5, AskDoes DEF Asks
      <4>6. CASE ConversionDone \/ TransferEnds
        BY <4>1, <4>3, <4>6, StateWritten DEF ConversionDone, TransferEnds
      <4> QED BY <2>3, <4>1, <4>3, <4>4, <4>5, <4>6, ProcessBalancingDoes
    <3>2. stored' = stored /\ started' = started
      BY <2>3 DEF process_balancing
    <3>3. balancing.no \in 1..started
      BY <3>1, TransferIsNumbered
    <3> QED BY <3>1, <3>2, <3>3 DEF MemoryInv
  <2>4. CASE ModuleMessage
    <3>1. \/ balancing' = balancing /\ saving' = saving
          \/ balancing'.no = balancing.no /\ saving' = TRUE /\ balancing \in Transfer
      BY <2>4, MessageDoes
    <3>2. stored' = stored /\ started' = started
      BY <2>4 DEF ModuleMessage, ghosts
    <3>3. balancing \in Transfer => balancing.no \in 1..started
      BY TransferIsNumbered
    <3> QED BY <3>1, <3>2, <3>3 DEF MemoryInv
  <2>5. CASE save_storage \/ Restart
    BY <2>5 DEF save_storage, Restart, ghosts, MemoryInv
  <2>6. CASE ProxyExecutes \/ Settle \/ UNCHANGED vars
    BY <2>1, <2>6 DEF ProxyExecutes, Settle, vars, main, ghosts
  <2> QED BY <2>1, <2>2, <2>3, <2>4, <2>5, <2>6, LinkStepKeeps DEF Next, main
<1> QED BY <1>3, <1>4 DEF MemoryInv

-----------------------------------------------------------------------------
(* A transfer pays once *)

LEMMA PaymentsFinite ==
    ASSUME FiniteSizes, LedgerInv, NEW no
    PROVE  IsFiniteSet(Payments(no)) /\ Cardinality(Payments(no)) \in Nat
<1>1. Payments(no) \in SUBSET ledger
  BY DEF Payments
<1> QED BY <1>1, FinitePart, FiniteSize DEF LedgerInv

LEMMA PaymentsGrow ==
    ASSUME FiniteSizes, LedgerInv, NEW mv, mv \notin ledger, ledger' = ledger \cup {mv}, NEW no
    PROVE  /\ mv.no /= no => Payments(no)' = Payments(no)
           /\ mv.no = no => Payments(no)' = Payments(no) \cup {mv}
           /\ Cardinality(Payments(no)') <= Cardinality(Payments(no)) + 1
<1>1. mv.no /= no => Payments(no)' = Payments(no)
  BY DEF Payments
<1>2. mv.no = no => Payments(no)' = Payments(no) \cup {mv}
  BY DEF Payments
<1>3. PICK P : P = Payments(no)
  OBVIOUS
<1>4. IsFiniteSet(P) /\ Cardinality(P) \in Nat /\ mv \notin P
  BY <1>3, PaymentsFinite DEF Payments
<1>5. Cardinality(P \cup {mv}) = Cardinality(P) + 1
  BY <1>4, FiniteAdd
<1>6. Cardinality(Payments(no)') = Cardinality(P) \/ Cardinality(Payments(no)') = Cardinality(P) + 1
  BY <1>1, <1>2, <1>3, <1>5
<1>7. Cardinality(Payments(no)') <= Cardinality(P) + 1
  BY <1>4, <1>6, SMT
<1> QED BY <1>1, <1>2, <1>3, <1>7

LEMMA PaymentsSettle ==
    ASSUME FiniteSizes, LedgerInv, NEW mv \in ledger, NEW s, s \notin ledger, s.no = mv.no,
           ledger' = (ledger \ {mv}) \cup {s}, NEW no
    PROVE  /\ mv.no /= no => Payments(no)' = Payments(no)
           /\ mv.no = no => Payments(no)' = (Payments(no) \ {mv}) \cup {s}
           /\ Cardinality(Payments(no)') = Cardinality(Payments(no))
<1>1. mv.no /= no => Payments(no)' = Payments(no)
  BY DEF Payments
<1>2. mv.no = no => Payments(no)' = (Payments(no) \ {mv}) \cup {s}
  BY DEF Payments
<1>3. PICK P : P = Payments(no)
  OBVIOUS
<1>4. IsFiniteSet(P) /\ Cardinality(P) \in Nat /\ s \notin P
  BY <1>3, PaymentsFinite DEF Payments
<1>5. CASE mv.no = no
  <2>1. mv \in P
    BY <1>3, <1>5 DEF Payments
  <2>2. PICK R : R = P \ {mv}
    OBVIOUS
  <2>3. IsFiniteSet(R) /\ Cardinality(R) = Cardinality(P) - 1 /\ s \notin R
    BY <1>4, <2>1, <2>2, FiniteRemove
  <2>4. Cardinality(R \cup {s}) = Cardinality(R) + 1
    BY <2>3, FiniteAdd
  <2>5. Cardinality(R \cup {s}) = Cardinality(P)
    BY <1>4, <2>3, <2>4, SMT
  <2> QED BY <1>2, <1>3, <1>5, <2>2, <2>5
<1> QED BY <1>1, <1>2, <1>5

(* A step of the link, or an execution, adds no request.                   *)
LEMMA NothingUnrunKept ==
    ASSUME FiniteSizes, TypeOK, IsFiniteSet(ledger),
           \/ CheckExchange \/ Connect \/ Disconnect \/ ProxyReceives \/ ProxyReplies
           \/ MovementsFail \/ MovementsLoaded \/ Push \/ ProxyExecutes,
           NEW T \in SUBSET Money, NothingUnrun(T)
    PROVE  NothingUnrun(T)'
<1>1. requests \in Seq(RequestSent) /\ NoneOf(requests, T) /\ \A r \in running : r.type \in T => r.ran
  BY DEF TypeOK, NothingUnrun, Unrun
<1>2. CASE CheckExchange
  <2>1. balancing.no \in Nat /\ "Movements" \in RequestType
    BY RecordFields DEF TypeOK, RequestType
  <2>2. Request("Movements") \in RequestSent /\ Request("Movements").type = "Movements"
    BY <2>1 DEF Request, RequestSent
  <2>3. PICK x \in RequestSent : x = Request("Movements")
    BY <2>2
  <2>4. x.type \notin T
    BY <2>2, <2>3 DEF Money
  <2>5. requests' = Append(requests, x) /\ running' = running
    BY <1>2, <2>3 DEF CheckExchange
  <2>6. NoneOf(requests', T)
    BY <1>1, <2>4, <2>5, RequestAdded
  <2> QED BY <1>1, <2>5, <2>6 DEF NothingUnrun, Unrun
<1>3. CASE Connect \/ Push
  BY <1>1, <1>3 DEF Connect, Push, NothingUnrun, Unrun
<1>4. CASE Disconnect
  <2>1. /\ requests' = requests \/ (requests /= <<>> /\ requests' = Tail(requests))
        /\ \A s \in running' : \E r \in running : ~r.ran /\ s.type = r.type
    BY <1>4, DisconnectDoes
  <2>2. NoneOf(requests', T)
    BY <1>1, <2>1, RequestTaken
  <2> QED BY <1>1, <2>1, <2>2 DEF NothingUnrun, Unrun
<1>5. CASE ProxyReceives
  <2>1. NoneOf(requests', T) /\ Head(requests).type \notin T
    BY <1>1, <1>5, RequestTaken DEF ProxyReceives
  <2>2. PICK s : s = [type |-> Head(requests).type, no |-> Head(requests).no,
                      ran |-> FALSE, lost |-> FALSE, value |-> 0]
    OBVIOUS
  <2>3. s.type = Head(requests).type
    BY <2>2
  <2>4. running' = running \cup {s}
    BY <1>5, <2>2 DEF ProxyReceives
  <2> QED BY <1>1, <2>1, <2>3, <2>4 DEF NothingUnrun, Unrun
<1>6. CASE ProxyReplies \/ MovementsFail \/ MovementsLoaded
  BY <1>1, <1>6 DEF ProxyReplies, MovementsFail, MovementsLoaded, Reply, NothingUnrun, Unrun
<1>7. CASE ProxyExecutes
  <2>1. PICK r \in running, s \in Execution : /\ s.type = r.type /\ s.ran
                                              /\ \A x \in running' : x = s \/ (x \in running /\ x /= r)
    BY <1>7, ExecuteDoes
  <2>2. requests' = requests
    BY <1>7 DEF ProxyExecutes
  <2> QED BY <1>1, <2>1, <2>2 DEF NothingUnrun, Unrun
<1> QED BY <1>2, <1>3, <1>4, <1>5, <1>6, <1>7

LEMMA NoWithdrawalUnrun == NoWithdrawal => NothingUnrun(Withdrawal)
  BY DEF NoWithdrawal, NothingUnrun, Unrun

LEMMA WithdrawalIsMoney == Withdrawal \in SUBSET Money
  BY DEF Withdrawal, Money, RequestType

LEMMA ToPayIsIdle == \A s \in ToPay : s \notin Awaiting
  BY SMT DEF ToPay, Awaiting

LEMMA PaidOnceMore ==
    ASSUME FiniteSizes, LedgerInv, PaidInv, cuts \in Nat, NEW mv, mv \notin ledger, ledger' = ledger \cup {mv},
           Cardinality(Payments(mv.no)) <= cuts, UNCHANGED <<cuts, started>>
    PROVE  \A no \in 0..started' : Cardinality(Payments(no)') <= 1 + cuts'
<1> SUFFICES ASSUME NEW no \in 0..started'
             PROVE  Cardinality(Payments(no)') <= 1 + cuts'
  OBVIOUS
<1>1. CASE no = mv.no
  <2>1. PICK k \in Nat : k = Cardinality(Payments(no))
    BY PaymentsFinite
  <2>2. PICK l : l = Cardinality(Payments(no)')
    OBVIOUS
  <2>3. k <= cuts /\ l <= k + 1
    BY <1>1, <2>1, <2>2, PaymentsGrow
  <2>4. l \in Nat
    <3>1. Payments(no)' = Payments(no) \cup {mv}
      BY <1>1, PaymentsGrow
    <3>2. PICK P : P = Payments(no) /\ IsFiniteSet(P)
      BY PaymentsFinite
    <3>3. IsFiniteSet(P \cup {mv})
      BY <3>2, FiniteAdd
    <3> QED BY <2>2, <3>1, <3>2, <3>3, FiniteSize
  <2>5. l <= 1 + cuts
    BY <2>3, <2>4, SMT
  <2> QED BY <2>2, <2>5
<1>2. CASE no /= mv.no
  <2>1. Payments(no)' = Payments(no)
    BY <1>2, PaymentsGrow
  <2> QED BY <2>1 DEF PaidInv
<1> QED BY <1>1, <1>2

(* A payment by the wallet adds at most one payment of the transfer to the *)
(* ledger, and the transfer leaves the states in which it still has to pay.*)
LEMMA SendPays ==
    ASSUME balancing \in Transfer, Cardinality(ledger) \in Nat,
           NEW asset \in {"usdt", "lbtc"}, NEW s \in TransferState, s \notin ToPay, Send(asset, s)
    PROVE  \E mv \in Movement :
               /\ mv.id = Cardinality(ledger) + 1 /\ mv.no = balancing.no
               /\ balancing'.no = balancing.no /\ balancing'.state \notin ToPay
               /\ ledger' = ledger \/ ledger' = ledger \cup {mv}
<1>1. "Failed" \notin ToPay
  BY SMT DEF ToPay
<1>2. PICK mv \in Movement :
          /\ mv.id = Cardinality(ledger) + 1 /\ mv.no = balancing.no
          /\ mv.asset = asset /\ mv.in /\ ~mv.done
          /\ balancing' \in Transfer /\ saving' = TRUE
          /\ balancing'.no = balancing.no
          /\ balancing'.withdraw_id = balancing.withdraw_id
          /\ \/ /\ ledger' = ledger \cup {mv}
                /\ balancing'.state = s /\ balancing'.txid = mv.id
             \/ /\ ledger' \in {ledger, ledger \cup {mv}}
                /\ balancing'.state = "Failed"
  BY SendDoes
<1>3. balancing'.state = s \/ balancing'.state = "Failed"
  BY <1>2
<1>4. balancing'.state \notin ToPay
  BY <1>1, <1>3
<1> QED BY <1>2, <1>4

LEMMA PaidStep ==
    ASSUME FiniteSizes, TypeOK, WithdrawInv, LedgerInv, MemoryInv, PaidInv, [Next]_vars
    PROVE  PaidInv'
<1>1. IsFiniteSet(ledger) /\ Cardinality(ledger) \in Nat /\ cuts \in Nat /\ started \in Nat
  BY FiniteSize DEF LedgerInv, TypeOK
<1>2. ASSUME UNCHANGED <<ledger, cuts, started>>,
             balancing'.no = balancing.no, balancing'.state \in ToPay => balancing.state \in ToPay,
             NothingUnrun(Withdrawal) => NothingUnrun(Withdrawal)'
      PROVE  PaidInv'
  BY <1>2 DEF PaidInv, Payments
<1>3. CASE \/ CheckExchange \/ Connect \/ Disconnect \/ ProxyReceives \/ ProxyReplies
           \/ MovementsFail \/ MovementsLoaded \/ Push
  <2>1. UNCHANGED <<ledger, cuts, started, balancing>>
    BY <1>3, LinkStepKeeps DEF exchange, main
  <2>2. NothingUnrun(Withdrawal) => NothingUnrun(Withdrawal)'
    BY <1>1, <1>3, WithdrawalIsMoney, NothingUnrunKept
  <2> QED BY <1>2, <2>1, <2>2
<1>4. CASE save_storage \/ UNCHANGED vars
  <2>1. UNCHANGED <<ledger, cuts, started, balancing, requests, running>>
    BY <1>4 DEF save_storage, vars, exchange, ghosts, link, main
  <2> QED BY <1>2, <2>1 DEF NothingUnrun, Unrun
<1>5. CASE Start
  <2>1. PICK s \in TransferState : Cli(s)
    BY <1>5 DEF Start, TransferState
  <2>2. PICK n \in Nat : n = started + 1
    BY <1>1, SMT
  <2>3. UNCHANGED <<ledger, cuts, requests, running>> /\ started' = n /\ balancing'.no = n
    BY <2>1, <2>2, NewTransfer DEF Cli, exchange, link
  <2>4. Payments(n) = {}
    <3>1. n \notin 1..started
      BY <1>1, <2>2, SMT
    <3> QED BY <3>1 DEF Payments, LedgerInv
  <2>5. Cardinality(Payments(n)) = 0
    BY <2>4, FiniteEmpty
  <2>6. Cardinality(Payments(n)) <= cuts /\ Cardinality(Payments(n)) <= 1 + cuts
    BY <1>1, <2>5, SMT
  <2>7. ASSUME NEW no \in 0..started' PROVE Cardinality(Payments(no)') <= 1 + cuts'
    <3>1. no = n \/ no \in 0..started
      BY <1>1, <2>2, <2>3, SMT
    <3>2. Payments(no)' = Payments(no)
      BY <2>3 DEF Payments
    <3> QED BY <2>3, <2>6, <3>1, <3>2 DEF PaidInv
  <2>8. Payments(balancing.no)' = Payments(n)
    BY <2>3 DEF Payments
  <2> QED BY <2>3, <2>6, <2>7, <2>8 DEF PaidInv
<1>6. CASE Settle
  <2>1. PICK mv \in ledger, s \in Movement :
               /\ ~mv.done /\ s.done /\ s.id = mv.id /\ s.no = mv.no
               /\ ledger' = (ledger \ {mv}) \cup {s}
    BY <1>6, SettleDoes
  <2>2. UNCHANGED <<cuts, started, balancing, requests, running>>
    BY <1>6 DEF Settle, ghosts, main, link
  <2>3. s \notin ledger
    BY <2>1, <2>2, PaymentSettled
  <2>4. \A no : Cardinality(Payments(no)') = Cardinality(Payments(no))
    BY <2>1, <2>3, PaymentsSettle
  <2>5. PICK n : n = balancing.no
    OBVIOUS
  <2>6. Cardinality(Payments(balancing.no)') = Cardinality(Payments(balancing.no))
    BY <2>2, <2>4, <2>5 DEF Payments
  <2> QED BY <2>2, <2>4, <2>6 DEF PaidInv, NothingUnrun, Unrun
<1>7. CASE Restart
  <2>1. UNCHANGED <<ledger, started>> /\ balancing' = stored
    BY <1>7 DEF Restart, exchange
  <2>2. NothingUnrun(Withdrawal)'
    BY <1>7, EmptyQueue DEF Restart, NothingUnrun, Unrun
  <2>3. CASE saving
    <3>1. cuts' = cuts + 1
      BY <1>7, <2>3 DEF Restart
    <3>2. \A no : Payments(no)' = Payments(no)
      BY <2>1 DEF Payments
    <3>3. \A no \in 0..started' : Cardinality(Payments(no)') <= 1 + cuts'
      <4>1. \A no : Cardinality(Payments(no)) \in Nat
        BY PaymentsFinite
      <4>2. \A k \in Nat : k <= 1 + cuts => k <= 1 + cuts' /\ k <= cuts'
        BY <1>1, <3>1, SMT
      <4> QED BY <2>1, <3>2, <4>1, <4>2 DEF PaidInv
    <3>4. stored.state \in ToPay => Cardinality(Payments(stored.no)) <= cuts'
      <4>1. stored.no \in 0..started
        <5>1. stored = NoTransfer => stored.no = 0
          BY SMT DEF NoTransfer
        <5>2. 0 \in 0..started /\ \A k \in 1..started : k \in 0..started
          BY <1>1, SMT
        <5> QED BY <5>1, <5>2 DEF MemoryInv
      <4>2. Cardinality(Payments(stored.no)) \in Nat
        BY PaymentsFinite
      <4>3. Cardinality(Payments(stored.no)) <= 1 + cuts
        BY <4>1 DEF PaidInv
      <4> QED BY <1>1, <3>1, <4>2, <4>3, SMT
    <3>5. Payments(balancing.no)' = Payments(stored.no)
      BY <2>1 DEF Payments
    <3> QED BY <2>1, <2>2, <3>3, <3>4, <3>5 DEF PaidInv
  <2>4. CASE ~saving
    <3>1. cuts' = cuts /\ balancing' = balancing
      BY <1>7, <2>4 DEF Restart, MemoryInv
    <3> QED BY <1>2, <2>1, <2>2, <3>1
  <2> QED BY <2>3, <2>4
<1>8. CASE ModuleMessage
  <2>1. /\ balancing' = balancing \/ balancing'.no = balancing.no
        /\ balancing'.state \in ToPay => balancing.state \in ToPay
    <3>1. \/ balancing' = balancing
          \/ /\ balancing'.no = balancing.no
             /\ balancing'.state \in {"RecvUsdtWaitConfirm", "RecvBtcWaitConfirm", "Failed", "Complete"}
      BY <1>8, MessageDoes
    <3> QED BY <3>1 DEF ToPay
  <2>2. UNCHANGED <<ledger, cuts, started, requests, running>>
    BY <1>8 DEF ModuleMessage, exchange, ghosts, link
  <2>3. NothingUnrun(Withdrawal) => NothingUnrun(Withdrawal)'
    BY <2>2 DEF NothingUnrun, Unrun
  <2> QED BY <1>2, <2>1, <2>2, <2>3
<1>9. CASE ProxyExecutes
  <2>1. PICK r \in running, s \in Execution :
            /\ ~r.ran /\ s.type = r.type /\ s.ran
            /\ \A x \in running' : x = s \/ (x \in running /\ x /= r)
            /\ \/ ledger' = ledger
               \/ /\ r.type \in Withdrawal
                  /\ \E mv \in Movement : /\ mv.id = Cardinality(ledger) + 1 /\ mv.no = r.no
                                          /\ ledger' = ledger \cup {mv}
    BY <1>1, <1>9, ExecuteDoes
  <2>2. UNCHANGED <<cuts, started, balancing, requests>>
    BY <1>9 DEF ProxyExecutes, ghosts, main
  <2>3. NothingUnrun(Withdrawal) => NothingUnrun(Withdrawal)'
    BY <1>1, <1>9, WithdrawalIsMoney, NothingUnrunKept
  <2>4. CASE ledger' = ledger
    BY <1>2, <2>2, <2>3, <2>4
  <2>5. CASE ledger' /= ledger /\ r.type \in Withdrawal
    <3>1. PICK mv \in Movement : /\ mv.id = Cardinality(ledger) + 1 /\ mv.no = r.no
                                 /\ ledger' = ledger \cup {mv}
      BY <2>1, <2>5
    <3>2. r.no = balancing.no /\ balancing.state \in Awaiting
      BY <2>5 DEF WithdrawInv, IsOwn, Awaiting
    <3>3. ~NothingUnrun(Withdrawal)
      BY <2>1, <2>5 DEF NothingUnrun, Unrun
    <3>4. Cardinality(Payments(mv.no)) <= cuts
      BY <3>1, <3>2, <3>3 DEF PaidInv
    <3>5. mv \notin ledger
      <4>1. \A p \in ledger : p.id /= mv.id
        BY <1>1, <3>1, SMT DEF LedgerInv
      <4> QED BY <4>1
    <3>6. CASE ledger' = ledger \cup {mv}
      <4>1. \A no \in 0..started' : Cardinality(Payments(no)') <= 1 + cuts'
        BY <1>1, <2>2, <3>4, <3>5, <3>6, PaidOnceMore
      <4>2. balancing'.state \notin ToPay
        BY <2>2, <3>2, ToPayIsIdle
      <4>3. NothingUnrun(Withdrawal)'
        <5>1. NoneOf(requests, Withdrawal) /\ \A x \in running : x.type \in Withdrawal => x = r
          BY <2>5 DEF WithdrawInv, OneWithdrawal
        <5> QED BY <2>1, <2>2, <5>1 DEF NothingUnrun, Unrun
      <4> QED BY <4>1, <4>2, <4>3 DEF PaidInv
    <3> QED BY <3>1, <3>6
  <2> QED BY <2>1, <2>4, <2>5
<1>10. CASE process_balancing
  <2>1. UNCHANGED <<cuts, started, running>>
    BY <1>10 DEF process_balancing
  <2>2. balancing.state \notin Awaiting
    BY <1>10, SMT DEF process_balancing, Awaiting, ConversionDone, TransferEnds
  <2>3. NoneOf(requests, Withdrawal) /\ Unrun(Withdrawal)' = {}
    BY <2>1, <2>2, IdleInv DEF NoWithdrawal, Unrun
  <2>4. balancing \in Transfer
    BY <1>10, ProcessBalancingDoes
  <2>5. ASSUME NEW asset \in {"usdt", "lbtc"}, NEW s \in TransferState, s \notin ToPay,
               Send(asset, s), balancing.state \in ToPay
        PROVE  PaidInv'
    <3>1. PICK mv \in Movement :
              /\ mv.id = Cardinality(ledger) + 1 /\ mv.no = balancing.no
              /\ balancing'.no = balancing.no /\ balancing'.state \notin ToPay
              /\ ledger' = ledger \/ ledger' = ledger \cup {mv}
      BY <1>1, <2>4, <2>5, SendPays
    <3>2. requests' = requests
      BY <2>5 DEF Send
    <3>3. NothingUnrun(Withdrawal)'
      BY <2>3, <3>2 DEF NothingUnrun
    <3>4. Cardinality(Payments(mv.no)) <= cuts
      BY <2>5, <3>1 DEF PaidInv
    <3>5. mv \notin ledger
      <4>1. \A p \in ledger : p.id /= mv.id
        BY <1>1, <3>1, SMT DEF LedgerInv
      <4> QED BY <4>1
    <3>6. CASE ledger' = ledger \cup {mv}
      <4>1. \A no \in 0..started' : Cardinality(Payments(no)') <= 1 + cuts'
        BY <1>1, <2>1, <3>4, <3>5, <3>6, PaidOnceMore
      <4> QED BY <3>1, <3>3, <4>1 DEF PaidInv
    <3> QED BY <1>2, <2>1, <3>1, <3>3, <3>6
  <2>6. ASSUME NEW from, NEW type, NEW to, Asks(from, type, to),
               from \in ToPay \/ (to \notin ToPay /\ type \notin Withdrawal)
        PROVE  PaidInv'
    <3>1. PICK x \in RequestSent :
              /\ x.type = type /\ requests' = Append(requests, x) /\ ledger' = ledger
              /\ balancing'.no = balancing.no /\ balancing'.state = to
      BY <2>4, <2>6, AskDoes DEF Asks
    <3>2. requests \in Seq(RequestSent)
      BY DEF TypeOK
    <3>3. type \notin Withdrawal => NothingUnrun(Withdrawal)'
      BY <2>3, <3>1, <3>2, RequestAdded DEF NothingUnrun
    <3>4. Payments(balancing.no)' = Payments(balancing.no)
      BY <3>1 DEF Payments
    <3>5. from \in ToPay => Cardinality(Payments(balancing.no)) <= cuts
      BY <2>6 DEF PaidInv, Asks
    <3>6. \A no \in 0..started' : Cardinality(Payments(no)') <= 1 + cuts'
      BY <2>1, <3>1 DEF PaidInv, Payments
    <3> QED BY <2>1, <2>6, <3>1, <3>3, <3>4, <3>5, <3>6 DEF PaidInv
  <2>7. CASE ConversionDone \/ TransferEnds
    <3>1. UNCHANGED <<requests, ledger>>
      BY <2>7 DEF ConversionDone, TransferEnds
    <3>2. balancing'.state \notin ToPay
      <4>1. "Complete" \in TransferState /\ "Complete" \notin ToPay /\ NoTransfer.state \notin ToPay
        BY SMT DEF TransferState, ToPay, NoTransfer
      <4> QED BY <2>4, <2>7, <4>1, StateWritten DEF ConversionDone, TransferEnds
    <3>3. NothingUnrun(Withdrawal)'
      BY <2>3, <3>1 DEF NothingUnrun
    <3>4. \A no \in 0..started' : Cardinality(Payments(no)') <= 1 + cuts'
      BY <2>1, <3>1 DEF PaidInv, Payments
    <3> QED BY <3>2, <3>3, <3>4 DEF PaidInv
  <2>8. /\ {"SendUsdtNew", "SendBtcNew", "RecvUsdtNew", "RecvBtcNew", "RecvBtcWaitLbtcBalance"} \subseteq ToPay
        /\ {"SendUsdtWaitConfirm", "SendBtcWaitLbtcBalance"} \subseteq TransferState
        /\ "SendUsdtWaitConfirm" \notin ToPay /\ "SendBtcWaitLbtcBalance" \notin ToPay
        /\ "SendBtcWaitConfirm" \notin ToPay /\ "TransferToBtc" \notin Withdrawal
    BY SMT DEF ToPay, TransferState, Withdrawal
  <2>9. CASE balancing.state = "SendUsdtNew" /\ Send("usdt", "SendUsdtWaitConfirm")
    BY <2>5, <2>8, <2>9
  <2>10. CASE balancing.state = "SendBtcNew" /\ Send("lbtc", "SendBtcWaitLbtcBalance")
    BY <2>5, <2>8, <2>10
  <2>11. CASE \/ Asks("RecvUsdtNew", "WithdrawUsdt", "RecvUsdtWaitWithdrawId")
              \/ Asks("RecvBtcNew", "TransferToLbtc", "RecvBtcWaitLbtcBalance")
              \/ Asks("SendBtcWaitLbtcBalance", "TransferToBtc", "SendBtcWaitConfirm")
              \/ Asks("RecvBtcWaitLbtcBalance", "WithdrawLbtc", "RecvBtcWaitWithdrawId")
    BY <2>6, <2>8, <2>11
  <2> QED BY <1>10, <2>7, <2>9, <2>10, <2>11, ProcessBalancingDoes
<1> QED BY <1>3, <1>4, <1>5, <1>6, <1>7, <1>8, <1>9, <1>10 DEF Next

-----------------------------------------------------------------------------
(* Requests that move money *)

LEMMA AskedStates ==
    /\ AskedIn("WithdrawUsdt") = "RecvUsdtWaitWithdrawId"
    /\ AskedIn("WithdrawLbtc") = "RecvBtcWaitWithdrawId"
    /\ AskedIn("TransferToLbtc") = "RecvBtcWaitLbtcBalance"
    /\ AskedIn("TransferToBtc") = "SendBtcWaitConfirm"
    /\ Money = {"WithdrawUsdt", "WithdrawLbtc", "TransferToLbtc", "TransferToBtc"}
<1>1. Money = {"WithdrawUsdt", "WithdrawLbtc", "TransferToLbtc", "TransferToBtc"}
  BY DEF Money, RequestType
<1> QED BY <1>1, SMT DEF AskedIn

(* Only in these states can one be outstanding.                            *)
Asking ==
    {"RecvUsdtWaitWithdrawId", "RecvBtcWaitWithdrawId", "RecvBtcWaitLbtcBalance",
     "SendBtcWaitConfirm", "Failed"}

LEMMA MoneyIdle ==
    /\ MoneyInv /\ balancing.state \notin Asking => NothingUnrun(Money)
    /\ NothingUnrun(Money)' => MoneyInv'
<1>1. \A type \in Money : AskedIn(type) \in Asking
  BY AskedStates DEF Asking
<1>2. "Failed" \in Asking
  BY DEF Asking
<1>3. ASSUME MoneyInv, balancing.state \notin Asking PROVE NothingUnrun(Money)
  <2>1. NoneOf(requests, Money)
    BY <1>1, <1>2, <1>3 DEF MoneyInv, IsDue, NoneOf
  <2>2. Unrun(Money) = {}
    BY <1>1, <1>2, <1>3 DEF MoneyInv, IsDue, Unrun
  <2> QED BY <2>1, <2>2 DEF NothingUnrun
<1>4. ASSUME NothingUnrun(Money)' PROVE MoneyInv'
  BY <1>4 DEF NothingUnrun, MoneyInv, AtMostOne, NoneOf, IsDue
<1> QED BY <1>3, <1>4

(* The ways such a request moves while the transfer stays as it is.        *)
LEMMA DueKept ==
    ASSUME MoneyInv, balancing'.no = balancing.no,
           balancing'.state = balancing.state \/ balancing'.state = "Failed"
    PROVE  /\ (\A i \in DOMAIN requests' : requests'[i].type \in Money =>
                   \E j \in DOMAIN requests : requests'[i] = requests[j])
                 => \A i \in DOMAIN requests' : IsDue(requests[i])'
           /\ (\A s \in Unrun(Money)' : \E r \in Unrun(Money) : s.type = r.type /\ s.no = r.no)
                 => \A s \in Unrun(Money)' : IsDue(s)'
<1>1. ASSUME NEW i \in DOMAIN requests', requests'[i].type \in Money,
             NEW j \in DOMAIN requests, requests'[i] = requests[j]
      PROVE  /\ requests'[i].no = balancing.no
             /\ balancing.state \in {AskedIn(requests'[i].type), "Failed"}
  BY <1>1 DEF MoneyInv, IsDue
<1>2. ASSUME NEW s \in Unrun(Money)', NEW r \in Unrun(Money), s.type = r.type, s.no = r.no
      PROVE  s.no = balancing.no /\ balancing.state \in {AskedIn(s.type), "Failed"}
  BY <1>2 DEF MoneyInv, IsDue, Unrun
<1>3. ASSUME \A i \in DOMAIN requests' : requests'[i].type \in Money =>
                 \E j \in DOMAIN requests : requests'[i] = requests[j]
      PROVE  \A i \in DOMAIN requests' : IsDue(requests[i])'
  BY <1>1, <1>3 DEF IsDue
<1>4. ASSUME \A s \in Unrun(Money)' : \E r \in Unrun(Money) : s.type = r.type /\ s.no = r.no
      PROVE  \A s \in Unrun(Money)' : IsDue(s)'
  BY <1>2, <1>4 DEF IsDue
<1> QED BY <1>3, <1>4

LEMMA MoneyMoves ==
    ASSUME MoneyInv, balancing'.no = balancing.no,
           balancing'.state = balancing.state \/ balancing'.state = "Failed",
           \/ requests' = requests
           \/ requests \in Seq(RequestSent) /\ requests /= <<>> /\ requests' = Tail(requests),
           \A s \in Unrun(Money)' : \E r \in Unrun(Money) : s.type = r.type /\ s.no = r.no,
           \A r, s \in Unrun(Money)' : r = s
    PROVE  MoneyInv'
<1>1. /\ \A i \in DOMAIN requests' : \E j \in DOMAIN requests : requests'[i] = requests[j]
      /\ NoneOf(requests, Money) => NoneOf(requests', Money)
      /\ AtMostOne(requests, Money) => AtMostOne(requests', Money)
  <2>1. CASE requests' = requests
    BY <2>1
  <2>2. CASE requests \in Seq(RequestSent) /\ requests /= <<>> /\ requests' = Tail(requests)
    BY <2>2, RequestTaken
  <2> QED BY <2>1, <2>2
<1>2. Unrun(Money) = {} => Unrun(Money)' = {}
  OBVIOUS
<1>3. \A i \in DOMAIN requests' : IsDue(requests[i])'
  BY <1>1, DueKept
<1>4. \A s \in Unrun(Money)' : IsDue(s)'
  BY DueKept
<1>5. AtMostOne(requests', Money) /\ (NoneOf(requests', Money) \/ Unrun(Money)' = {})
  BY <1>1, <1>2 DEF MoneyInv
<1> QED BY <1>3, <1>4, <1>5 DEF MoneyInv

LEMMA MoneyLink ==
    ASSUME TypeOK, MoneyInv,
           \/ CheckExchange \/ Connect \/ Disconnect \/ ProxyReceives \/ ProxyReplies
           \/ MovementsFail \/ MovementsLoaded \/ Push
    PROVE  MoneyInv'
<1>1. requests \in Seq(RequestSent) /\ running \subseteq Execution /\ balancing' = balancing
  BY LinkStepKeeps DEF TypeOK, main
<1>2. CASE CheckExchange
  <2>1. balancing.no \in Nat /\ "Movements" \in RequestType
    BY RecordFields DEF TypeOK, RequestType
  <2>2. Request("Movements") \in RequestSent /\ Request("Movements").type = "Movements"
    BY <2>1 DEF Request, RequestSent
  <2>3. PICK x \in RequestSent : x = Request("Movements")
    BY <2>2
  <2>4. x.type \notin Money
    BY <2>2, <2>3 DEF Money
  <2>5. requests' = Append(requests, x) /\ running' = running
    BY <1>2, <2>3 DEF CheckExchange
  <2>6. /\ \A i \in DOMAIN requests' :
               requests'[i] = x \/ \E j \in DOMAIN requests : requests'[i] = requests[j]
        /\ NoneOf(requests, Money) => NoneOf(requests', Money)
        /\ AtMostOne(requests, Money) => AtMostOne(requests', Money)
    BY <1>1, <2>4, <2>5, RequestAdded
  <2>7. Unrun(Money)' = Unrun(Money)
    BY <2>5 DEF Unrun
  <2>8. \A i \in DOMAIN requests' : IsDue(requests[i])'
    BY <1>1, <2>4, <2>6, DueKept
  <2>9. \A s \in Unrun(Money)' : IsDue(s)'
    BY <1>1, <2>7, DueKept
  <2> QED BY <2>6, <2>7, <2>8, <2>9 DEF MoneyInv
<1>3. CASE Connect \/ Push \/ ProxyReplies \/ MovementsFail \/ MovementsLoaded
  <2>1. requests' = requests /\ running' \subseteq running
    BY <1>3 DEF Connect, Push, ProxyReplies, MovementsFail, MovementsLoaded, Reply
  <2>2. Unrun(Money)' \subseteq Unrun(Money)
    BY <2>1 DEF Unrun
  <2>3. \A r, s \in Unrun(Money)' : r = s
    BY <2>2 DEF MoneyInv
  <2> QED BY <1>1, <2>1, <2>2, <2>3, MoneyMoves
<1>4. CASE Disconnect
  <2>1. /\ requests' = requests \/ (requests /= <<>> /\ requests' = Tail(requests))
        /\ \A s \in running' : \E r \in running :
               /\ r.type \in Money /\ ~r.ran
               /\ s.type = r.type /\ s.no = r.no /\ s = [r EXCEPT !.lost = TRUE]
    BY <1>4, DisconnectDoes
  <2>2. \A s \in Unrun(Money)' : \E r \in Unrun(Money) :
            s.type = r.type /\ s.no = r.no /\ s = [r EXCEPT !.lost = TRUE]
    BY <2>1 DEF Unrun
  <2>3. ASSUME NEW r \in Unrun(Money)', NEW s \in Unrun(Money)' PROVE r = s
    <3>1. PICK p \in Unrun(Money) : r = [p EXCEPT !.lost = TRUE]
      BY <2>2
    <3>2. PICK q \in Unrun(Money) : s = [q EXCEPT !.lost = TRUE]
      BY <2>2
    <3>3. p = q
      BY DEF MoneyInv
    <3> QED BY <3>1, <3>2, <3>3
  <2> QED BY <1>1, <2>1, <2>2, <2>3, MoneyMoves
<1>5. CASE ProxyReceives
  <2>1. PICK x : x = Head(requests)
    OBVIOUS
  <2>2. PICK s : s = [type |-> Head(requests).type, no |-> Head(requests).no,
                      ran |-> FALSE, lost |-> FALSE, value |-> 0]
    OBVIOUS
  <2>3. s.type = x.type /\ s.no = x.no /\ ~s.ran
    BY <2>1, <2>2
  <2>4. requests /= <<>> /\ requests' = Tail(requests) /\ running' = running \cup {s}
    BY <1>5, <2>2 DEF ProxyReceives
  <2>5. /\ \E i \in DOMAIN requests : x = requests[i]
        /\ \A i \in DOMAIN requests' : \E j \in DOMAIN requests : requests'[i] = requests[j]
        /\ NoneOf(requests, Money) => x.type \notin Money
        /\ AtMostOne(requests, Money) /\ x.type \in Money => NoneOf(requests', Money)
    BY <1>1, <2>1, <2>4, RequestTaken
  <2>6. CASE x.type \notin Money
    <3>1. Unrun(Money)' = Unrun(Money)
      BY <2>3, <2>4, <2>6 DEF Unrun
    <3>2. \A r, p \in Unrun(Money)' : r = p
      BY <3>1 DEF MoneyInv
    <3> QED BY <1>1, <2>4, <3>1, <3>2, MoneyMoves
  <2>7. CASE x.type \in Money
    <3>1. NoneOf(requests', Money) /\ Unrun(Money) = {}
      BY <2>5, <2>7 DEF MoneyInv
    <3>2. Unrun(Money)' = {s}
      BY <2>3, <2>4, <2>7, <3>1 DEF Unrun
    <3>3. IsDue(x)
      BY <2>5 DEF MoneyInv
    <3>4. IsDue(s)'
      BY <1>1, <2>3, <3>3 DEF IsDue
    <3>5. AtMostOne(requests', Money)
      BY <3>1, NoneIsAtMostOne
    <3>6. \A i \in DOMAIN requests' : IsDue(requests[i])'
      BY <2>5, <1>1, DueKept
    <3>7. \A r, p \in Unrun(Money)' : r = p
      BY <3>2
    <3>8. \A r \in Unrun(Money)' : IsDue(r)'
      BY <3>2, <3>4
    <3> QED BY <3>1, <3>5, <3>6, <3>7, <3>8 DEF MoneyInv
  <2> QED BY <2>6, <2>7
<1> QED BY <1>2, <1>3, <1>4, <1>5

-----------------------------------------------------------------------------
(* While no change of storage was lost and no balance misread *)

(* A transfer that is to pay has not paid.                                 *)
LEMMA NotPaidYet ==
    ASSUME FiniteSizes, LedgerInv, PaidInv, cuts = 0,
           balancing.state \in ToPay \/ ~NothingUnrun(Withdrawal)
    PROVE  Payments(balancing.no) = {}
<1>1. PICK P : P = Payments(balancing.no) /\ IsFiniteSet(P)
  BY PaymentsFinite
<1>2. PICK k \in Nat : k = Cardinality(P)
  BY <1>1, FiniteSize
<1>3. k <= cuts
  BY <1>1, <1>2 DEF PaidInv
<1>4. k = 0
  BY <1>3, SMT
<1> QED BY <1>1, <1>2, <1>4, FiniteEmpty

(* A payment that is not confirmed belongs to the active transfer.         *)
LEMMA PendingIsActive ==
    ASSUME LedgerInv, PaymentsInv, NEW mv \in ledger, ~mv.done
    PROVE  mv.no = balancing.no
<1> SUFFICES ASSUME mv.no /= balancing.no
             PROVE  FALSE
  OBVIOUS
<1>1. HasSettled(mv.no)
  BY DEF LedgerInv, PaymentsInv
<1>2. mv \in Payments(mv.no)
  BY DEF Payments
<1> QED BY <1>1, <1>2 DEF HasSettled

(* How the payments of the transfers change.                               *)
LEMMA ViewKept ==
    ASSUME ledger' = ledger, balancing'.no = balancing.no
    PROVE  /\ \A no : Payments(no)' = Payments(no) /\ HasSettled(no)' = HasSettled(no)
           /\ Payments(balancing.no)' = Payments(balancing.no)
           /\ HasSettled(balancing.no)' = HasSettled(balancing.no)
           /\ \A id : HasPaid(id)' = HasPaid(id)
           /\ NoDeposit' = NoDeposit
<1>1. \A no : Payments(no)' = Payments(no)
  BY DEF Payments
<1>2. Payments(balancing.no)' = Payments(balancing.no)
  BY DEF Payments
<1>3. \A no : HasSettled(no)' = HasSettled(no)
  BY <1>1 DEF HasSettled
<1>4. HasSettled(balancing.no)' = HasSettled(balancing.no)
  BY <1>2 DEF HasSettled
<1>5. \A id : HasPaid(id)' = HasPaid(id)
  BY <1>2 DEF HasPaid
<1>6. NoDeposit' = NoDeposit
  BY DEF NoDeposit
<1> QED BY <1>1, <1>2, <1>3, <1>4, <1>5, <1>6

LEMMA ViewPaid ==
    ASSUME FiniteSizes, LedgerInv, NEW mv, mv \notin ledger, ledger' = ledger \cup {mv}, mv.no = balancing.no,
           balancing'.no = balancing.no, Payments(balancing.no) = {}
    PROVE  /\ Payments(balancing.no)' = {mv} /\ mv \in ledger'
           /\ HasPaid(mv.id)'
           /\ \A no : no /= balancing.no /\ HasSettled(no) => HasSettled(no)'
<1>1. Payments(balancing.no)' = {mv} /\ mv \in ledger'
  <2>1. PICK n : n = balancing.no
    OBVIOUS
  <2>2. Payments(n)' = Payments(n) \cup {mv}
    BY <2>1, PaymentsGrow
  <2>3. Payments(balancing.no)' = Payments(n)'
    BY <2>1 DEF Payments
  <2> QED BY <2>1, <2>2, <2>3
<1>2. HasPaid(mv.id)'
  BY <1>1 DEF HasPaid
<1>3. \A no : no /= balancing.no => Payments(no)' = Payments(no)
  BY PaymentsGrow
<1>4. \A no : no /= balancing.no /\ HasSettled(no) => HasSettled(no)'
  BY <1>3 DEF HasSettled
<1> QED BY <1>1, <1>2, <1>4

LEMMA ViewSettled ==
    ASSUME FiniteSizes, LedgerInv, NEW mv \in ledger, NEW s, s \notin ledger, s.id = mv.id, s.no = mv.no,
           mv.no = balancing.no,
           ledger' = (ledger \ {mv}) \cup {s}, balancing'.no = balancing.no
    PROVE  /\ \A no : no /= balancing.no /\ HasSettled(no) => HasSettled(no)'
           /\ \A p : Payments(balancing.no) = {p} => p = mv /\ Payments(balancing.no)' = {s}
           /\ \A id : HasPaid(id) => HasPaid(id)'
           /\ s \in ledger' /\ Payments(balancing.no) /= {}
<1>1. \A no : no /= balancing.no => Payments(no)' = Payments(no)
  BY PaymentsSettle
<1>2. mv \in Payments(balancing.no) /\ s \in ledger'
  BY DEF Payments
<1>3. \A no : no /= balancing.no /\ HasSettled(no) => HasSettled(no)'
  <2> SUFFICES ASSUME NEW no, no /= balancing.no, HasSettled(no)
               PROVE  HasSettled(no)'
    OBVIOUS
  <2>1. PICK p \in ledger : Payments(no) = {p} /\ p.done
    BY DEF HasSettled
  <2>2. Payments(no)' = {p}
    BY <1>1, <2>1
  <2>3. p \in ledger'
    BY <2>2 DEF Payments
  <2> QED BY <2>1, <2>2, <2>3 DEF HasSettled
<1>4. ASSUME NEW p, Payments(balancing.no) = {p}
      PROVE  p = mv /\ Payments(balancing.no)' = {s}
  <2>1. p = mv
    BY <1>2, <1>4
  <2> QED BY <1>4, <2>1 DEF Payments
<1>5. ASSUME NEW id, HasPaid(id) PROVE HasPaid(id)'
  <2>1. PICK p \in ledger : Payments(balancing.no) = {p} /\ p.id = id
    BY <1>5 DEF HasPaid
  <2>2. Payments(balancing.no)' = {s} /\ s.id = id
    BY <1>4, <2>1
  <2> QED BY <1>2, <2>2 DEF HasPaid
<1> QED BY <1>2, <1>3, <1>4, <1>5

(* Parts of the invariant that hold by the state of the transfer alone.    *)
LEMMA LbtcIdle ==
    /\ LbtcInv /\ balancing.state \notin Asking /\ balancing.state /= "SendBtcWaitLbtcBalance"
           => lbtc = 0
    /\ LbtcInv /\ balancing.state = "RecvUsdtWaitWithdrawId" => lbtc = 0
    /\ lbtc' = 0 /\ balancing'.state \notin {"SendBtcWaitLbtcBalance", "SendBtcWaitConfirm"}
           => LbtcInv'
    /\ balancing'.state = "Failed" => LbtcInv'
<1>1. ASSUME LbtcInv, balancing.state \notin Asking, balancing.state /= "SendBtcWaitLbtcBalance"
      PROVE  lbtc = 0
  BY <1>1 DEF LbtcInv, Asking
<1>2. ASSUME LbtcInv, balancing.state = "RecvUsdtWaitWithdrawId" PROVE lbtc = 0
  BY <1>2 DEF LbtcInv
<1>3. ASSUME lbtc' = 0, balancing'.state \notin {"SendBtcWaitLbtcBalance", "SendBtcWaitConfirm"}
      PROVE  LbtcInv'
  BY <1>3 DEF LbtcInv
<1>4. ASSUME balancing'.state = "Failed" PROVE LbtcInv'
  BY <1>4 DEF LbtcInv
<1> QED BY <1>1, <1>2, <1>3, <1>4

LEMMA ResultsIdle ==
    /\ NoWithdrawal' => ResultsInv'
    /\ balancing'.state = "Failed" => ResultsInv'
  BY DEF ResultsInv, IsTrue, NoWithdrawal, NoneOf

LEMMA PaymentsIdle ==
    ASSUME \A no \in 1..started' : no /= balancing'.no => HasSettled(no)',
           NoDeposit' \/ balancing'.state \in {"SendBtcWaitLbtcBalance", "Failed"},
           balancing'.state \notin {"SendUsdtWaitConfirm", "RecvUsdtWaitConfirm",
                                    "RecvBtcWaitConfirm", "Complete"}
    PROVE  PaymentsInv'
  BY DEF PaymentsInv

LEMMA ExactLink ==
    ASSUME FiniteSizes, TypeOK, LedgerInv, ExactInv,
           \/ CheckExchange \/ Connect \/ Disconnect \/ ProxyReceives \/ ProxyReplies
           \/ MovementsFail \/ MovementsLoaded \/ Push
    PROVE  ExactInv'
<1>1. UNCHANGED <<balancing, known, ledger, lbtc, started>>
  BY LinkStepKeeps DEF main, exchange
<1>2. MoneyInv'
  BY MoneyLink DEF ExactInv
<1>3. NothingUnrun(Money) => NothingUnrun(Money)'
  BY NothingUnrunKept DEF LedgerInv
<1>4. /\ \A no : Payments(no)' = Payments(no) /\ HasSettled(no)' = HasSettled(no)
      /\ Payments(balancing.no)' = Payments(balancing.no)
      /\ HasSettled(balancing.no)' = HasSettled(balancing.no)
      /\ \A id : HasPaid(id)' = HasPaid(id)
      /\ NoDeposit' = NoDeposit
  BY <1>1, ViewKept
<1>5. \A x : IsTrue(x) => IsTrue(x)'
  BY <1>1, <1>4 DEF IsTrue
<1>6. inbox \in Seq(Message)
  BY DEF TypeOK
<1>7. \A s \in running' : \/ s \in running \/ s.value = 0
                          \/ \E r \in running : s.type = r.type /\ s.value = r.value
  <2>1. CASE Disconnect
    BY <2>1, DisconnectDoes
  <2>2. CASE ProxyReceives
    <3>1. PICK s : s = [type |-> Head(requests).type, no |-> Head(requests).no,
                        ran |-> FALSE, lost |-> FALSE, value |-> 0]
      OBVIOUS
    <3>2. s.value = 0
      BY <3>1
    <3>3. running' = running \cup {s}
      BY <2>2, <3>1 DEF ProxyReceives
    <3> QED BY <3>2, <3>3
  <2>3. CASE \/ CheckExchange \/ Connect \/ Push \/ ProxyReplies \/ MovementsFail \/ MovementsLoaded
    BY <2>3 DEF CheckExchange, Connect, Push, ProxyReplies, MovementsFail, MovementsLoaded, Reply
  <2> QED BY <2>1, <2>2, <2>3
<1>8. \A s \in running' : IsTrue(s)'
  <2>1. ~(0 > 0)
    BY SMT
  <2>2. ASSUME NEW s \in running' PROVE IsTrue(s)
    BY <1>7, <2>1 DEF ExactInv, ResultsInv, IsTrue
  <2> QED BY <1>5, <2>2
<1>9. CASE inbox' = inbox
  <2>1. \A i \in DOMAIN inbox' : IsTrue(inbox[i])'
    BY <1>1, <1>4, <1>9 DEF ExactInv, ResultsInv, IsTrue
  <2>2. LbtcInv'
    BY <1>1, <1>3, <1>4, <1>9 DEF ExactInv, LbtcInv
  <2>3. PaymentsInv'
    BY <1>1, <1>4 DEF ExactInv, PaymentsInv
  <2> QED BY <1>2, <1>8, <2>1, <2>2, <2>3 DEF ExactInv, ResultsInv
<1>10. ASSUME NEW m \in Message, inbox' = Append(inbox, m),
              m.type = "WalletUpdate" => m.value = lbtc,
              m.type \in Withdrawal => \E r \in running : m.type = r.type /\ m.value = r.value
       PROVE  ExactInv'
  <2>1. \A i \in DOMAIN inbox' : inbox'[i] = m \/ \E j \in DOMAIN inbox : inbox'[i] = inbox[j]
    BY <1>6, <1>10, MessageAdded
  <2>2. \A i \in DOMAIN inbox' : IsTrue(inbox[i])'
    <3>1. IsTrue(m)
      BY <1>10 DEF ExactInv, ResultsInv, IsTrue
    <3>2. \A i \in DOMAIN inbox' : IsTrue(inbox'[i])
      BY <2>1, <3>1 DEF ExactInv, ResultsInv
    <3>3. SUFFICES ASSUME NEW i \in DOMAIN inbox' PROVE IsTrue(inbox[i])'
      OBVIOUS
    <3> QED BY <1>1, <1>4, <3>2 DEF IsTrue
  <2>3. ASSUME lbtc = Amount,
               \A i \in DOMAIN inbox : inbox[i].type = "WalletUpdate" => inbox[i].value /= 0
        PROVE  \A i \in DOMAIN inbox' : inbox'[i].type = "WalletUpdate" => inbox'[i].value /= 0
    <3>1. m.type = "WalletUpdate" => m.value /= 0
      BY <1>10, <2>3, SMT DEF Amount
    <3> QED BY <2>1, <2>3, <3>1
  <2>4. LbtcInv'
    BY <1>1, <1>3, <1>4, <2>3 DEF ExactInv, LbtcInv
  <2>5. PaymentsInv'
    BY <1>1, <1>4 DEF ExactInv, PaymentsInv
  <2> QED BY <1>2, <1>8, <2>2, <2>4, <2>5 DEF ExactInv, ResultsInv
<1> QED BY <1>9, <1>10, LinkStepSends

LEMMA ExactStart ==
    ASSUME TypeOK, WithdrawInv, LedgerInv, ExactInv, Start
    PROVE  ExactInv'
<1>1. PICK s \in {"SendUsdtNew", "RecvUsdtNew", "SendBtcNew", "RecvBtcNew"} : Cli(s)
  BY DEF Start
<1>2. s \in TransferState
  BY DEF TransferState
<1>3. PICK n \in Nat : n = started + 1
  BY SMT DEF TypeOK
<1>4. /\ balancing = NoTransfer /\ started' = n /\ balancing'.no = n /\ balancing'.state = s
      /\ UNCHANGED <<lbtc, ledger, requests, running, inbox>>
  BY <1>1, <1>2, <1>3, NewTransfer DEF Cli, exchange, link
<1>5. balancing.state = "None" /\ balancing.no = 0
  BY <1>4, SMT DEF NoTransfer
<1>6. NoWithdrawal'
  <2>1. balancing.state \notin Awaiting
    BY <1>5 DEF Awaiting
  <2> QED BY <1>4, <2>1, IdleInv DEF NoWithdrawal
<1>7. NothingUnrun(Money)'
  <2>1. balancing.state \notin Asking
    BY <1>5 DEF Asking
  <2> QED BY <1>4, <2>1, MoneyIdle DEF ExactInv, NothingUnrun, Unrun
<1>8. LbtcInv'
  <2>1. balancing.state \notin Asking /\ balancing.state /= "SendBtcWaitLbtcBalance"
    BY <1>5 DEF Asking
  <2>2. lbtc' = 0
    BY <1>4, <2>1, LbtcIdle DEF ExactInv
  <2>3. balancing'.state \notin {"SendBtcWaitLbtcBalance", "SendBtcWaitConfirm"}
    BY <1>1, <1>4
  <2> QED BY <2>2, <2>3, LbtcIdle
<1>9. PaymentsInv'
  <2>1. \A no \in 1..started' : no /= balancing'.no => HasSettled(no)'
    <3> SUFFICES ASSUME NEW no \in 1..started', no /= balancing'.no
                 PROVE  HasSettled(no)'
      OBVIOUS
    <3>1. no \in 1..started /\ no /= 0
      BY <1>3, <1>4, SMT DEF TypeOK
    <3>2. HasSettled(no)
      BY <1>5, <3>1 DEF ExactInv, PaymentsInv
    <3> QED BY <1>4, <3>2 DEF HasSettled, Payments
  <2>2. NoDeposit'
    <3>1. NoDeposit
      BY <1>5 DEF ExactInv, PaymentsInv
    <3> QED BY <1>4, <3>1 DEF NoDeposit
  <2>3. balancing'.state \notin {"SendUsdtWaitConfirm", "RecvUsdtWaitConfirm",
                                 "RecvBtcWaitConfirm", "Complete"}
    BY <1>1, <1>4
  <2> QED BY <2>1, <2>2, <2>3, PaymentsIdle
<1> QED BY <1>6, <1>7, <1>8, <1>9, MoneyIdle, ResultsIdle DEF ExactInv

LEMMA ExactSettle ==
    ASSUME FiniteSizes, TypeOK, WithdrawInv, LedgerInv, ExactInv, Settle
    PROVE  ExactInv'
<1>1. PICK mv \in ledger, s \in Movement :
          /\ ~mv.done /\ s.done /\ s.id = mv.id /\ s.no = mv.no
          /\ s.asset = mv.asset /\ s.in = mv.in
          /\ ledger' = (ledger \ {mv}) \cup {s}
          /\ lbtc' = IF mv.in /\ mv.asset = "lbtc" THEN lbtc + Amount ELSE lbtc
  BY SettleDoes
<1>2. UNCHANGED <<balancing, known, started, requests, running, inbox>>
  BY DEF Settle, main, link, ghosts
<1>3. s \notin ledger /\ mv.no = balancing.no
  BY <1>1, <1>2, PaymentSettled, PendingIsActive DEF ExactInv
<1>4. /\ \A no : no /= balancing.no /\ HasSettled(no) => HasSettled(no)'
      /\ \A p : Payments(balancing.no) = {p} => p = mv /\ Payments(balancing.no)' = {s}
      /\ \A id : HasPaid(id) => HasPaid(id)'
      /\ s \in ledger' /\ Payments(balancing.no) /= {}
  BY <1>1, <1>2, <1>3, ViewSettled
<1>5. MoneyInv'
  BY <1>2 DEF ExactInv, MoneyInv, Unrun, IsDue
<1>6. NoDeposit' \/ balancing'.state \in {"SendBtcWaitLbtcBalance", "Failed"}
  BY <1>1, <1>2 DEF ExactInv, PaymentsInv, NoDeposit
<1>7. \A no \in 1..started' : no /= balancing'.no => HasSettled(no)'
  BY <1>2, <1>4 DEF ExactInv, PaymentsInv
<1>8. CASE balancing.state = "Failed"
  <2>1. balancing'.state = "Failed"
    BY <1>2, <1>8
  <2>2. PaymentsInv'
    BY <1>6, <1>7, <2>1, PaymentsIdle
  <2> QED BY <1>5, <2>1, <2>2, LbtcIdle, ResultsIdle DEF ExactInv
<1>9. CASE balancing.state = "SendBtcWaitLbtcBalance"
  <2>1. balancing'.state = "SendBtcWaitLbtcBalance"
    BY <1>2, <1>9
  <2>2. PaymentsInv'
    BY <1>6, <1>7, <2>1, PaymentsIdle
  <2>3. Payments(balancing.no) = {mv} /\ mv.in /\ mv.asset = "lbtc" /\ lbtc = 0
    BY <1>1, <1>4, <1>9 DEF ExactInv, LbtcInv
  <2>4. lbtc' = Amount
    BY <1>1, <2>3, SMT DEF Amount
  <2>5. Payments(balancing.no)' = {s} /\ s.in /\ s.asset = "lbtc"
    BY <1>1, <1>4, <2>3
  <2>6. LbtcInv'
    BY <1>1, <1>4, <2>1, <2>4, <2>5 DEF LbtcInv
  <2>7. NoWithdrawal'
    <3>1. balancing.state \notin Awaiting
      BY <1>9 DEF Awaiting
    <3> QED BY <1>2, <3>1, IdleInv DEF NoWithdrawal
  <2> QED BY <1>5, <2>2, <2>6, <2>7, ResultsIdle DEF ExactInv
<1>10. CASE balancing.state \notin {"SendBtcWaitLbtcBalance", "Failed"}
  <2>1. lbtc' = lbtc
    BY <1>1, <1>10 DEF ExactInv, PaymentsInv, NoDeposit
  <2>2. ~HasSettled(balancing.no)
    BY <1>1, <1>4 DEF HasSettled
  <2>3. balancing.state /= "SendBtcWaitConfirm" /\ balancing.state /= "Complete"
    BY <2>2 DEF ExactInv, LbtcInv, PaymentsInv
  <2>4. balancing.state = "RecvBtcWaitWithdrawId" => lbtc = 0
    BY <1>4 DEF ExactInv, LbtcInv
  <2>5. NothingUnrun(Money)' = NothingUnrun(Money)
    BY <1>2 DEF NothingUnrun, Unrun
  <2>6. LbtcInv'
    BY <1>2, <1>10, <2>1, <2>3, <2>4, <2>5 DEF ExactInv, LbtcInv
  <2>7. PaymentsInv'
    BY <1>2, <1>4, <1>6, <1>7, <2>3 DEF ExactInv, PaymentsInv
  <2>8. ResultsInv'
    BY <1>2, <1>4, <2>1 DEF ExactInv, ResultsInv, IsTrue
  <2> QED BY <1>5, <2>6, <2>7, <2>8 DEF ExactInv
<1> QED BY <1>8, <1>9, <1>10

LEMMA ExactExecute ==
    ASSUME FiniteSizes, TypeOK, WithdrawInv, LedgerInv, PaidInv, cuts = 0, ExactInv, ProxyExecutes
    PROVE  ExactInv'
<1>1. PICK r \in running, s \in Execution :
          /\ ~r.ran /\ r.type \in Money
          /\ s.type = r.type /\ s.no = r.no /\ s.ran
          /\ \A x \in running' : x = s \/ (x \in running /\ x /= r)
          /\ \/ /\ r.type \in Withdrawal
                /\ \E mv \in Movement :
                       /\ mv.id = Cardinality(ledger) + 1 /\ mv.no = r.no
                       /\ ~mv.in /\ ~mv.done
                       /\ ledger' = ledger \cup {mv}
                       /\ s.value \in {0, mv.id}
                /\ \/ r.type = "WithdrawUsdt" /\ lbtc' = lbtc
                   \/ r.type = "WithdrawLbtc" /\ lbtc >= Amount /\ lbtc' = lbtc - Amount
             \/ /\ r.type = "TransferToBtc" /\ lbtc >= Amount
                /\ lbtc' = lbtc - Amount /\ ledger' = ledger
             \/ /\ r.type = "TransferToLbtc"
                /\ lbtc' = lbtc + Amount /\ ledger' = ledger
             \/ s.value = 0 /\ lbtc' = lbtc /\ ledger' = ledger
  BY ExecuteDoes DEF LedgerInv
<1>2. UNCHANGED <<balancing, known, started, requests, inbox>>
  BY DEF ProxyExecutes, main, ghosts
<1>3. r \in Unrun(Money)
  BY <1>1 DEF Unrun
<1>4. r.no = balancing.no /\ balancing.state \in {AskedIn(r.type), "Failed"}
  BY <1>1, <1>3 DEF ExactInv, MoneyInv, IsDue
<1>5. NothingUnrun(Money)' /\ ~NothingUnrun(Money)
  <2>1. NoneOf(requests, Money) /\ \A x \in Unrun(Money) : x = r
    BY <1>3 DEF ExactInv, MoneyInv
  <2> QED BY <1>1, <1>2, <1>3, <2>1 DEF NothingUnrun, Unrun
<1>6. MoneyInv'
  BY <1>5, MoneyIdle
<1>7. CASE ledger' = ledger
  <2>1. /\ Payments(balancing.no)' = Payments(balancing.no)
        /\ HasSettled(balancing.no)' = HasSettled(balancing.no)
        /\ \A no : HasSettled(no)' = HasSettled(no)
        /\ \A id : HasPaid(id)' = HasPaid(id)
        /\ NoDeposit' = NoDeposit
    BY <1>2, <1>7, ViewKept
  <2>2. PaymentsInv'
    BY <1>2, <2>1 DEF ExactInv, PaymentsInv
  <2>3. CASE s.value = 0 /\ lbtc' = lbtc
    <3>1. LbtcInv'
      BY <1>2, <1>5, <1>7, <2>1, <2>3 DEF ExactInv, LbtcInv
    <3>2. IsTrue(s)'
      <4>1. ~(0 > 0)
        BY SMT
      <4> QED BY <2>3, <4>1 DEF IsTrue
    <3>3. \A x \in running' : IsTrue(x)'
      BY <1>1, <1>2, <2>1, <2>3, <3>2 DEF ExactInv, ResultsInv, IsTrue
    <3>4. \A i \in DOMAIN inbox' : IsTrue(inbox[i])'
      BY <1>2, <2>1, <2>3 DEF ExactInv, ResultsInv, IsTrue
    <3> QED BY <1>6, <2>2, <3>1, <3>3, <3>4 DEF ExactInv, ResultsInv
  <2>4. CASE balancing.state = "Failed"
    BY <1>2, <1>6, <2>2, <2>4, LbtcIdle, ResultsIdle DEF ExactInv
  <2>5. CASE balancing.state \notin Awaiting /\ LbtcInv'
    <3>1. NoWithdrawal
      BY <2>5, IdleInv
    <3>2. NoWithdrawal'
      BY <1>1, <1>2, <3>1 DEF NoWithdrawal
    <3> QED BY <1>6, <2>2, <2>5, <3>2, ResultsIdle DEF ExactInv
  <2>6. CASE r.type = "TransferToBtc" /\ lbtc >= Amount /\ lbtc' = lbtc - Amount /\ balancing.state /= "Failed"
    <3>1. balancing.state = "SendBtcWaitConfirm"
      BY <1>4, <2>6, AskedStates
    <3>2. HasSettled(balancing.no) /\ (lbtc = 0 \/ lbtc = Amount)
      BY <3>1 DEF ExactInv, LbtcInv
    <3>3. lbtc' = 0
      BY <2>6, <3>2, SMT DEF Amount
    <3>4. LbtcInv'
      BY <1>2, <1>5, <2>1, <3>1, <3>2, <3>3 DEF LbtcInv
    <3> QED BY <2>5, <3>1, <3>4 DEF Awaiting
  <2>7. CASE r.type = "TransferToLbtc" /\ lbtc' = lbtc + Amount /\ balancing.state /= "Failed"
    <3>1. balancing.state = "RecvBtcWaitLbtcBalance"
      BY <1>4, <2>7, AskedStates
    <3>2. lbtc = 0
      BY <1>5, <3>1 DEF ExactInv, LbtcInv
    <3>3. lbtc' = Amount
      BY <2>7, <3>2, SMT DEF Amount
    <3>4. LbtcInv'
      BY <1>2, <1>5, <3>1, <3>3 DEF LbtcInv
    <3> QED BY <2>5, <3>1, <3>4 DEF Awaiting
  <2>8. \A mv \in Movement : mv.id = Cardinality(ledger) + 1 => ledger /= ledger \cup {mv}
    <3> SUFFICES ASSUME NEW mv \in Movement, mv.id = Cardinality(ledger) + 1, mv \in ledger
                 PROVE  FALSE
      OBVIOUS
    <3>1. Cardinality(ledger) \in Nat /\ mv.id \in 1..Cardinality(ledger)
      BY FiniteSize DEF LedgerInv
    <3> QED BY <3>1, SMT
  <2> QED BY <1>1, <1>7, <2>3, <2>4, <2>6, <2>7, <2>8
<1>8. ASSUME r.type \in Withdrawal, NEW mv \in Movement,
             mv.id = Cardinality(ledger) + 1, mv.no = r.no, ~mv.in, ~mv.done,
             ledger' = ledger \cup {mv}, s.value \in {0, mv.id},
             \/ r.type = "WithdrawUsdt" /\ lbtc' = lbtc
             \/ r.type = "WithdrawLbtc" /\ lbtc >= Amount /\ lbtc' = lbtc - Amount
      PROVE  ExactInv'
  <2>1. mv \notin ledger
    <3>1. Cardinality(ledger) \in Nat
      BY FiniteSize DEF LedgerInv
    <3>2. \A p \in ledger : p.id /= mv.id
      BY <1>8, <3>1, SMT DEF LedgerInv
    <3> QED BY <3>2
  <2>2. Payments(balancing.no) = {}
    <3>1. ~NothingUnrun(Withdrawal)
      BY <1>1, <1>8 DEF NothingUnrun, Unrun
    <3> QED BY <3>1, NotPaidYet
  <2>3. HasPaid(mv.id)' /\ \A no : no /= balancing.no /\ HasSettled(no) => HasSettled(no)'
    BY <1>2, <1>4, <1>8, <2>1, <2>2, ViewPaid
  <2>4. balancing'.state \in Awaiting
    BY <1>1, <1>2, <1>8 DEF WithdrawInv, IsOwn, Awaiting
  <2>5. PaymentsInv'
    <3>1. \A no \in 1..started' : no /= balancing'.no => HasSettled(no)'
      BY <1>2, <2>3 DEF ExactInv, PaymentsInv
    <3>2. NoDeposit' \/ balancing'.state \in {"SendBtcWaitLbtcBalance", "Failed"}
      BY <1>2, <1>8 DEF ExactInv, PaymentsInv, NoDeposit
    <3>3. balancing'.state \notin {"SendUsdtWaitConfirm", "RecvUsdtWaitConfirm",
                                   "RecvBtcWaitConfirm", "Complete"}
      BY <2>4 DEF Awaiting
    <3> QED BY <3>1, <3>2, <3>3, PaymentsIdle
  <2>6. CASE balancing.state = "Failed"
    BY <1>2, <1>6, <2>5, <2>6, LbtcIdle, ResultsIdle DEF ExactInv
  <2>7. CASE balancing.state /= "Failed"
    <3>1. lbtc' = 0
      <4>1. CASE r.type = "WithdrawUsdt" /\ lbtc' = lbtc
        <5>1. balancing.state = "RecvUsdtWaitWithdrawId"
          BY <1>4, <2>7, <4>1, AskedStates
        <5> QED BY <4>1, <5>1, LbtcIdle DEF ExactInv
      <4>2. CASE r.type = "WithdrawLbtc" /\ lbtc >= Amount /\ lbtc' = lbtc - Amount
        <5>1. balancing.state = "RecvBtcWaitWithdrawId"
          BY <1>4, <2>7, <4>2, AskedStates
        <5>2. lbtc = 0 \/ lbtc = Amount
          BY <5>1 DEF ExactInv, LbtcInv
        <5> QED BY <4>2, <5>2, SMT DEF Amount
      <4> QED BY <1>8, <4>1, <4>2
    <3>2. LbtcInv'
      BY <2>4, <3>1, LbtcIdle DEF Awaiting
    <3>3. IsTrue(s)'
      <4>1. ~(0 > 0)
        BY SMT
      <4> QED BY <1>8, <2>3, <3>1, <4>1 DEF IsTrue
    <3>4. NoneOf(inbox, Withdrawal) /\ \A x \in running : x.type \in Withdrawal => x = r
      BY <1>8 DEF WithdrawInv, OneWithdrawal
    <3>5. \A x \in running' : IsTrue(x)'
      BY <1>1, <3>3, <3>4 DEF IsTrue
    <3>6. \A i \in DOMAIN inbox' : IsTrue(inbox[i])'
      BY <1>2, <3>4 DEF IsTrue, NoneOf
    <3> QED BY <1>6, <2>5, <3>2, <3>5, <3>6 DEF ExactInv, ResultsInv
  <2> QED BY <2>6, <2>7
<1> QED BY <1>1, <1>7, <1>8

LEMMA ExactMessage ==
    ASSUME TypeOK, WithdrawInv, LedgerInv, MemoryInv, ExactInv, ModuleMessage
    PROVE  ExactInv'
<1>1. PICK m \in Message :
          /\ inbox /= <<>> /\ m = Head(inbox) /\ inbox' = Tail(inbox)
          /\ \/ /\ balancing' = balancing
                /\ known' = known \/ (m.type = "WalletUpdate" /\ known' = {m.value})
             \/ /\ m.type \in Withdrawal /\ m.value > 0
                /\ balancing'.no = balancing.no /\ balancing'.withdraw_id = m.value
                /\ \/ /\ balancing.state = "RecvUsdtWaitWithdrawId"
                      /\ balancing'.state = "RecvUsdtWaitConfirm"
                   \/ /\ balancing.state = "RecvBtcWaitWithdrawId"
                      /\ balancing'.state = "RecvBtcWaitConfirm"
             \/ balancing'.no = balancing.no /\ balancing'.state = "Failed"
             \/ /\ tx_found(m.seen)
                /\ balancing'.no = balancing.no /\ balancing'.state = "Complete"
  BY MessageDoes
<1>2. UNCHANGED <<lbtc, ledger, started, requests, running>>
  BY DEF ModuleMessage, exchange, ghosts, link
<1>3. /\ \E i \in DOMAIN inbox : m = inbox[i]
      /\ \A i \in DOMAIN inbox' : \E j \in DOMAIN inbox : inbox'[i] = inbox[j]
      /\ NoneOf(inbox, Withdrawal) => NoneOf(inbox', Withdrawal)
      /\ AtMostOne(inbox, Withdrawal) /\ m.type \in Withdrawal => NoneOf(inbox', Withdrawal)
      /\ NoneOf(inbox, Withdrawal) => m.type \notin Withdrawal
  BY <1>1, MessageTaken DEF TypeOK
<1>4. Unrun(Money)' = Unrun(Money) /\ NothingUnrun(Money)' = NothingUnrun(Money)
  BY <1>2 DEF Unrun, NothingUnrun
<1>5. balancing'.no = balancing.no
  BY <1>1
<1>6. /\ \A no : Payments(no)' = Payments(no) /\ HasSettled(no)' = HasSettled(no)
      /\ Payments(balancing.no)' = Payments(balancing.no)
      /\ HasSettled(balancing.no)' = HasSettled(balancing.no)
      /\ \A id : HasPaid(id)' = HasPaid(id)
      /\ NoDeposit' = NoDeposit
  BY <1>2, <1>5, ViewKept
<1>7. \A no \in 1..started' : no /= balancing'.no => HasSettled(no)'
  BY <1>2, <1>5, <1>6 DEF ExactInv, PaymentsInv
<1>8. CASE /\ balancing' = balancing
           /\ known' = known \/ (m.type = "WalletUpdate" /\ known' = {m.value})
  <2>1. MoneyInv'
    BY <1>2, <1>4, <1>8 DEF ExactInv, MoneyInv, IsDue
  <2>2. PaymentsInv'
    BY <1>6, <1>7, <1>8 DEF ExactInv, PaymentsInv
  <2>3. ResultsInv'
    BY <1>2, <1>3, <1>6, <1>8 DEF ExactInv, ResultsInv, IsTrue
  <2>4. ASSUME 0 \notin known,
               \A i \in DOMAIN inbox : inbox[i].type = "WalletUpdate" => inbox[i].value /= 0
        PROVE  /\ 0 \notin known'
               /\ \A i \in DOMAIN inbox' : inbox'[i].type = "WalletUpdate" => inbox'[i].value /= 0
    BY <1>3, <1>8, <2>4
  <2>5. LbtcInv'
    BY <1>2, <1>4, <1>6, <1>8, <2>4 DEF ExactInv, LbtcInv
  <2> QED BY <2>1, <2>2, <2>3, <2>5 DEF ExactInv
<1>9. CASE balancing'.state = "Failed"
  <2>1. MoneyInv'
    <3>1. \A r, s \in Unrun(Money)' : r = s
      BY <1>4 DEF ExactInv, MoneyInv
    <3> QED BY <1>2, <1>4, <1>5, <1>9, <3>1, MoneyMoves DEF ExactInv
  <2>2. PaymentsInv'
    BY <1>7, <1>9, PaymentsIdle
  <2> QED BY <1>9, <2>1, <2>2, LbtcIdle, ResultsIdle DEF ExactInv
<1>10. CASE /\ m.type \in Withdrawal /\ m.value > 0 /\ balancing'.withdraw_id = m.value
            /\ \/ /\ balancing.state = "RecvUsdtWaitWithdrawId"
                  /\ balancing'.state = "RecvUsdtWaitConfirm"
               \/ /\ balancing.state = "RecvBtcWaitWithdrawId"
                  /\ balancing'.state = "RecvBtcWaitConfirm"
  <2>1. HasPaid(m.value) /\ lbtc = 0
    <3>1. balancing.state /= "Failed" /\ IsTrue(m)
      BY <1>3, <1>10 DEF ExactInv, ResultsInv
    <3> QED BY <1>10, <3>1 DEF IsTrue
  <2>2. /\ NoneOf(requests, Withdrawal) /\ NoneOf(inbox', Withdrawal)
        /\ \A r \in running : r.type \notin Withdrawal
    BY <1>3, <1>10 DEF WithdrawInv, OneWithdrawal
  <2>3. NoWithdrawal'
    BY <1>2, <2>2 DEF NoWithdrawal
  <2>4. \A type \in Money : balancing.state \in {AskedIn(type), "Failed"} => type \in Withdrawal
    BY <1>10, AskedStates DEF Withdrawal
  <2>5. NothingUnrun(Money)
    <3>1. NoneOf(requests, Money)
      BY <2>2, <2>4 DEF ExactInv, MoneyInv, IsDue, NoneOf
    <3>2. Unrun(Money) = {}
      BY <2>2, <2>4 DEF ExactInv, MoneyInv, IsDue, Unrun
    <3> QED BY <3>1, <3>2 DEF NothingUnrun
  <2>6. MoneyInv'
    BY <1>4, <2>5, MoneyIdle
  <2>7. LbtcInv'
    <3>1. balancing'.state \notin {"SendBtcWaitLbtcBalance", "SendBtcWaitConfirm"}
      BY <1>10
    <3> QED BY <1>2, <2>1, <3>1, LbtcIdle
  <2>8. PaymentsInv'
    <3>1. NoDeposit'
      BY <1>6, <1>10 DEF ExactInv, PaymentsInv
    <3>2. HasPaid(balancing.withdraw_id)'
      BY <1>2, <1>5, <1>10, <2>1 DEF HasPaid, Payments
    <3>3. balancing'.state /= "SendUsdtWaitConfirm" /\ balancing'.state /= "Complete"
      BY <1>10
    <3> QED BY <1>7, <3>1, <3>2, <3>3 DEF PaymentsInv
  <2> QED BY <2>3, <2>6, <2>7, <2>8, ResultsIdle DEF ExactInv
<1>11. CASE tx_found(m.seen) /\ balancing'.state = "Complete"
  <2>1. PICK mv \in m.seen :
            /\ mv.done
            /\ \/ balancing.state = "SendUsdtWaitConfirm" /\ mv.id = balancing.txid
               \/ /\ balancing.state \in {"RecvUsdtWaitConfirm", "RecvBtcWaitConfirm"}
                  /\ mv.id = balancing.withdraw_id
    BY <1>11 DEF tx_found
  <2>2. mv \in ledger
    BY <1>3, <2>1 DEF MemoryInv
  <2>3. HasPaid(mv.id)
    BY <2>1 DEF ExactInv, PaymentsInv
  <2>4. HasSettled(balancing.no)
    <3>1. PICK p \in ledger : Payments(balancing.no) = {p} /\ p.id = mv.id
      BY <2>3 DEF HasPaid
    <3>2. p = mv
      BY <2>2, <3>1 DEF LedgerInv
    <3> QED BY <2>1, <3>1, <3>2 DEF HasSettled
  <2>5. /\ balancing.state \notin Asking /\ balancing.state \notin Awaiting
        /\ balancing.state \notin {"SendBtcWaitLbtcBalance", "Failed"}
    BY <2>1 DEF Asking, Awaiting
  <2>6. MoneyInv'
    BY <1>4, <2>5, MoneyIdle DEF ExactInv
  <2>7. LbtcInv'
    <3>1. lbtc = 0
      BY <2>5, LbtcIdle DEF ExactInv
    <3>2. balancing'.state \notin {"SendBtcWaitLbtcBalance", "SendBtcWaitConfirm"}
      BY <1>11
    <3> QED BY <1>2, <3>1, <3>2, LbtcIdle
  <2>8. PaymentsInv'
    <3>1. NoDeposit'
      BY <1>6, <2>5 DEF ExactInv, PaymentsInv
    <3> QED BY <1>6, <1>7, <1>11, <2>4, <3>1 DEF PaymentsInv
  <2>9. NoWithdrawal'
    BY <1>2, <1>3, <2>5, IdleInv DEF NoWithdrawal
  <2> QED BY <2>6, <2>7, <2>8, <2>9, ResultsIdle DEF ExactInv
<1> QED BY <1>1, <1>8, <1>9, <1>10, <1>11

LEMMA MoneyAsked ==
    ASSUME requests \in Seq(RequestSent), NothingUnrun(Money), NEW x \in RequestSent,
           requests' = Append(requests, x), running' = running,
           x.no = balancing'.no, balancing'.state = AskedIn(x.type)
    PROVE  MoneyInv'
<1>1. NoneOf(requests, Money) /\ Unrun(Money) = {}
  BY DEF NothingUnrun
<1>2. /\ \A i \in DOMAIN requests' :
             requests'[i] = x \/ \E j \in DOMAIN requests : requests'[i] = requests[j]
      /\ AtMostOne(requests', Money)
  BY <1>1, RequestAdded
<1>3. Unrun(Money)' = {}
  BY <1>1 DEF Unrun
<1>4. \A i \in DOMAIN requests' : requests'[i].type \in Money => requests'[i] = x
  BY <1>1, <1>2 DEF NoneOf
<1>5. \A i \in DOMAIN requests' : IsDue(requests[i])'
  BY <1>4 DEF IsDue
<1> QED BY <1>2, <1>3, <1>5 DEF MoneyInv

LEMMA ExactSend ==
    ASSUME FiniteSizes, TypeOK, LedgerInv, PaidInv, cuts = 0, ExactInv, balancing \in Transfer,
           UNCHANGED <<running, lbtc, started>>, ResultsInv',
           NEW asset \in {"usdt", "lbtc"}, NEW s \in TransferState, Send(asset, s),
           \/ balancing.state = "SendUsdtNew" /\ asset = "usdt" /\ s = "SendUsdtWaitConfirm"
           \/ balancing.state = "SendBtcNew" /\ asset = "lbtc" /\ s = "SendBtcWaitLbtcBalance"
    PROVE  ExactInv'
<1>1. Cardinality(ledger) \in Nat
  BY FiniteSize DEF LedgerInv
<1>2. PICK mv \in Movement :
          /\ mv.id = Cardinality(ledger) + 1 /\ mv.no = balancing.no
          /\ mv.asset = asset /\ mv.in /\ ~mv.done
          /\ balancing'.no = balancing.no
          /\ \/ /\ ledger' = ledger \cup {mv}
                /\ balancing'.state = s /\ balancing'.txid = mv.id
             \/ /\ ledger' \in {ledger, ledger \cup {mv}}
                /\ balancing'.state = "Failed"
  BY <1>1, SendDoes
<1>3. mv \notin ledger
  <2>1. \A p \in ledger : p.id /= mv.id
    BY <1>1, <1>2, SMT DEF LedgerInv
  <2> QED BY <2>1
<1>4. /\ balancing.state \notin Asking /\ balancing.state \in ToPay
      /\ balancing.state \notin {"SendBtcWaitLbtcBalance", "Failed"}
  BY DEF Asking, ToPay
<1>5. MoneyInv'
  <2>1. NothingUnrun(Money) /\ requests' = requests
    BY <1>4, MoneyIdle DEF ExactInv, Send
  <2> QED BY <2>1, MoneyIdle DEF NothingUnrun, Unrun
<1>6. lbtc' = 0 /\ NoDeposit /\ Payments(balancing.no) = {}
  BY <1>4, LbtcIdle, NotPaidYet DEF ExactInv, PaymentsInv
<1>7. \A no \in 1..started' : no /= balancing'.no => HasSettled(no)'
  <2>1. CASE ledger' = ledger
    BY <1>2, <2>1, ViewKept DEF ExactInv, PaymentsInv
  <2>2. CASE ledger' = ledger \cup {mv}
    BY <1>2, <1>3, <1>6, <2>2, ViewPaid DEF ExactInv, PaymentsInv
  <2> QED BY <1>2, <2>1, <2>2
<1>8. CASE balancing'.state = "Failed"
  <2>1. PaymentsInv'
    BY <1>7, <1>8, PaymentsIdle
  <2> QED BY <1>5, <1>8, <2>1, LbtcIdle DEF ExactInv
<1>9. CASE ledger' = ledger \cup {mv} /\ balancing'.state = s /\ balancing'.txid = mv.id
  <2>1. Payments(balancing.no)' = {mv} /\ mv \in ledger' /\ HasPaid(mv.id)'
    BY <1>2, <1>3, <1>6, <1>9, ViewPaid
  <2>2. CASE asset = "usdt" /\ s = "SendUsdtWaitConfirm"
    <3>1. HasPaid(balancing.txid)'
      BY <1>9, <2>1 DEF HasPaid
    <3>2. NoDeposit'
      BY <1>2, <1>6, <1>9, <2>2 DEF NoDeposit
    <3>3. PaymentsInv'
      BY <1>7, <1>9, <2>2, <3>1, <3>2 DEF PaymentsInv
    <3>4. LbtcInv'
      BY <1>6, <1>9, <2>2, LbtcIdle
    <3> QED BY <1>5, <3>3, <3>4 DEF ExactInv
  <2>3. CASE asset = "lbtc" /\ s = "SendBtcWaitLbtcBalance"
    <3>1. PaymentsInv'
      BY <1>7, <1>9, <2>3, PaymentsIdle
    <3>2. LbtcInv'
      BY <1>2, <1>6, <1>9, <2>1, <2>3 DEF LbtcInv
    <3> QED BY <1>5, <3>1, <3>2 DEF ExactInv
  <2> QED BY <2>2, <2>3
<1> QED BY <1>2, <1>8, <1>9

(* A request is made; the payments are as before.                          *)
LEMMA ExactAsk ==
    ASSUME TypeOK, ExactInv, balancing \in Transfer,
           UNCHANGED <<running, lbtc, started>>, ResultsInv',
           NEW from, NEW type, NEW to, Asks(from, type, to), NothingUnrun(Money),
           to = AskedIn(type), NoDeposit, LbtcInv'
    PROVE  ExactInv'
<1>1. PICK x \in RequestSent :
          /\ x.type = type /\ x.no = balancing.no /\ requests' = Append(requests, x)
          /\ balancing'.no = balancing.no /\ balancing'.state = to /\ ledger' = ledger
  BY AskDoes DEF Asks
<1>2. requests \in Seq(RequestSent)
  BY DEF TypeOK
<1>3. MoneyInv'
  BY <1>1, <1>2, MoneyAsked
<1>4. to \in Asking
  BY AskedStates DEF Asks, Asking
<1>5. PaymentsInv'
  <2>1. NoDeposit' /\ \A no \in 1..started' : no /= balancing'.no => HasSettled(no)'
    BY <1>1, ViewKept DEF ExactInv, PaymentsInv
  <2>2. balancing'.state \notin {"SendUsdtWaitConfirm", "RecvUsdtWaitConfirm",
                                 "RecvBtcWaitConfirm", "Complete"}
    BY <1>1, <1>4 DEF Asking
  <2> QED BY <2>1, <2>2, PaymentsIdle
<1> QED BY <1>3, <1>5 DEF ExactInv

LEMMA ExactProcess ==
    ASSUME FiniteSizes, TypeOK, WithdrawInv, LedgerInv, MemoryInv, PaidInv, cuts = 0, ExactInv,
           process_balancing, ~misread'
    PROVE  ExactInv'
<1>1. balancing \in Transfer /\ UNCHANGED <<known, running, inbox, lbtc, started>>
  BY ProcessBalancingDoes DEF process_balancing
<1>2. balancing.state \notin Awaiting
  BY SMT DEF process_balancing, Awaiting, ConversionDone, TransferEnds
<1>3. ResultsInv'
  BY <1>1, <1>2, IdleInv DEF ResultsInv, IsTrue, NoWithdrawal, NoneOf
<1>4. CASE balancing.state = "SendUsdtNew" /\ Send("usdt", "SendUsdtWaitConfirm")
  <2>1. "SendUsdtWaitConfirm" \in TransferState /\ "usdt" \in {"usdt", "lbtc"}
    BY DEF TransferState
  <2> QED BY <1>1, <1>3, <1>4, <2>1, ExactSend
<1>5. CASE balancing.state = "SendBtcNew" /\ Send("lbtc", "SendBtcWaitLbtcBalance")
  <2>1. "SendBtcWaitLbtcBalance" \in TransferState /\ "lbtc" \in {"usdt", "lbtc"}
    BY DEF TransferState
  <2> QED BY <1>1, <1>3, <1>5, <2>1, ExactSend
<1>6. CASE \/ Asks("RecvUsdtNew", "WithdrawUsdt", "RecvUsdtWaitWithdrawId")
           \/ Asks("RecvBtcNew", "TransferToLbtc", "RecvBtcWaitLbtcBalance")
  <2>1. /\ balancing.state \notin Asking
        /\ balancing.state \notin {"SendBtcWaitLbtcBalance", "Failed"}
    BY <1>6 DEF Asks, Asking
  <2>2. NothingUnrun(Money) /\ NoDeposit /\ lbtc' = 0
    BY <1>1, <2>1, MoneyIdle, LbtcIdle DEF ExactInv, PaymentsInv
  <2>3. balancing'.state \in {"RecvUsdtWaitWithdrawId", "RecvBtcWaitLbtcBalance"}
    BY <1>1, <1>6, AskDoes DEF Asks
  <2>4. LbtcInv'
    BY <2>2, <2>3, LbtcIdle
  <2> QED BY <1>1, <1>3, <1>6, <2>2, <2>4, AskedStates, ExactAsk
<1>7. ASSUME Amount \in known, misread' = (misread \/ (cuts = 0 /\ Outdated))
      PROVE  /\ lbtc = Amount /\ known = {Amount}
             /\ \A i \in DOMAIN inbox : inbox[i].type = "WalletUpdate" => inbox[i].value = Amount
  <2>1. ~Outdated
    BY <1>7
  <2>2. known = {lbtc}
    BY <2>1 DEF Outdated
  <2>3. \A i \in DOMAIN inbox : inbox[i].type = "WalletUpdate" => inbox[i].value = lbtc
    BY <2>1 DEF Outdated
  <2>4. lbtc = Amount
    BY <1>7, <2>2
  <2> QED BY <2>2, <2>3, <2>4
<1>8. CASE /\ Asks("SendBtcWaitLbtcBalance", "TransferToBtc", "SendBtcWaitConfirm")
           /\ Amount \in known /\ misread' = (misread \/ (cuts = 0 /\ Outdated))
  <2>1. balancing.state = "SendBtcWaitLbtcBalance"
    BY <1>8 DEF Asks
  <2>2. NothingUnrun(Money)
    <3>1. balancing.state \notin Asking
      BY <2>1 DEF Asking
    <3> QED BY <3>1, MoneyIdle DEF ExactInv
  <2>3. /\ lbtc = Amount /\ known = {Amount}
        /\ \A i \in DOMAIN inbox : inbox[i].type = "WalletUpdate" => inbox[i].value = Amount
    BY <1>7, <1>8
  <2>4. Amount /= 0
    BY SMT DEF Amount
  <2>5. PICK mv \in ledger : Payments(balancing.no) = {mv} /\ mv.done
    BY <2>1, <2>3, <2>4 DEF ExactInv, LbtcInv
  <2>6. NoDeposit
    <3>1. \A p \in ledger : ~p.done => p \in Payments(balancing.no)
      BY PendingIsActive DEF ExactInv, Payments
    <3> QED BY <2>5, <3>1 DEF NoDeposit
  <2>7. /\ balancing'.no = balancing.no /\ balancing'.state = "SendBtcWaitConfirm"
        /\ ledger' = ledger
    BY <1>1, <1>8, AskDoes DEF Asks
  <2>8. HasSettled(balancing.no)'
    <3>1. HasSettled(balancing.no)
      BY <2>5 DEF HasSettled
    <3> QED BY <2>7, <3>1, ViewKept
  <2>9. LbtcInv'
    BY <1>1, <2>3, <2>4, <2>7, <2>8 DEF LbtcInv
  <2> QED BY <1>1, <1>3, <1>8, <2>2, <2>6, <2>9, AskedStates, ExactAsk
<1>9. CASE /\ Asks("RecvBtcWaitLbtcBalance", "WithdrawLbtc", "RecvBtcWaitWithdrawId")
           /\ Amount \in known /\ misread' = (misread \/ (cuts = 0 /\ Outdated))
  <2>1. balancing.state = "RecvBtcWaitLbtcBalance"
    BY <1>9 DEF Asks
  <2>2. lbtc = Amount
    BY <1>7, <1>9
  <2>3. lbtc /= 0
    BY <2>2, SMT DEF Amount
  <2>4. NothingUnrun(Money) /\ NoDeposit
    BY <2>1, <2>3 DEF ExactInv, LbtcInv, PaymentsInv
  <2>5. Payments(balancing.no) = {}
    <3>1. balancing.state \in ToPay
      BY <2>1 DEF ToPay
    <3> QED BY <3>1, NotPaidYet
  <2>6. /\ balancing'.no = balancing.no /\ balancing'.state = "RecvBtcWaitWithdrawId"
        /\ ledger' = ledger
    BY <1>1, <1>9, AskDoes DEF Asks
  <2>7. Payments(balancing.no)' = {}
    BY <2>5, <2>6, ViewKept
  <2>8. LbtcInv'
    BY <1>1, <2>2, <2>6, <2>7 DEF LbtcInv
  <2> QED BY <1>1, <1>3, <1>9, <2>4, <2>8, AskedStates, ExactAsk
<1>10. CASE ConversionDone
  <2>1. balancing.state = "SendBtcWaitConfirm" /\ 0 \in known /\ UNCHANGED <<requests, ledger>>
    BY <1>10 DEF ConversionDone
  <2>2. lbtc = 0 /\ NothingUnrun(Money) /\ HasSettled(balancing.no) /\ NoDeposit
    BY <2>1 DEF ExactInv, LbtcInv, PaymentsInv
  <2>3. balancing'.no = balancing.no /\ balancing'.state = "Complete"
    <3>1. "Complete" \in TransferState
      BY DEF TransferState
    <3> QED BY <1>1, <1>10, <3>1, StateWritten DEF ConversionDone
  <2>4. MoneyInv'
    BY <1>1, <2>1, <2>2, MoneyIdle DEF NothingUnrun, Unrun
  <2>5. LbtcInv'
    BY <1>1, <2>2, <2>3, LbtcIdle
  <2>6. PaymentsInv'
    <3>1. /\ \A no : HasSettled(no)' = HasSettled(no)
          /\ HasSettled(balancing.no)' /\ NoDeposit'
      BY <2>1, <2>2, <2>3, ViewKept
    <3> QED BY <1>1, <2>3, <3>1 DEF ExactInv, PaymentsInv
  <2> QED BY <1>3, <2>4, <2>5, <2>6 DEF ExactInv
<1>11. CASE TransferEnds
  <2>1. /\ balancing.state = "Complete" /\ balancing' = NoTransfer
        /\ UNCHANGED <<requests, ledger>>
    BY <1>11 DEF TransferEnds
  <2>2. balancing.state \notin Asking
    BY <2>1 DEF Asking
  <2>3. NothingUnrun(Money) /\ lbtc = 0 /\ HasSettled(balancing.no) /\ NoDeposit
    BY <2>1, <2>2, MoneyIdle, LbtcIdle DEF ExactInv, PaymentsInv
  <2>4. balancing'.state = "None"
    BY <2>1, SMT DEF NoTransfer
  <2>5. MoneyInv'
    BY <1>1, <2>1, <2>3, MoneyIdle DEF NothingUnrun, Unrun
  <2>6. LbtcInv'
    BY <1>1, <2>3, <2>4, LbtcIdle
  <2>7. PaymentsInv'
    <3>1. \A no \in 1..started' : HasSettled(no)
      BY <1>1, <2>3 DEF ExactInv, PaymentsInv
    <3>2. \A no \in 1..started' : HasSettled(no)'
      BY <2>1, <3>1 DEF HasSettled, Payments
    <3>3. NoDeposit'
      BY <2>1, <2>3 DEF NoDeposit
    <3> QED BY <2>4, <3>2, <3>3, PaymentsIdle
  <2> QED BY <1>3, <2>5, <2>6, <2>7 DEF ExactInv
<1> QED BY <1>4, <1>5, <1>6, <1>8, <1>9, <1>10, <1>11, ProcessBalancingDoes

(* Such a step was preceded by none of the mishaps, and none happens in it. *)
LEMMA ExactBefore ==
    ASSUME TypeOK, [Next]_vars
    PROVE  /\ ~misread' => ~misread
           /\ cuts' = 0 => cuts = 0 /\ ~(Restart /\ saving)
           /\ cuts' <= 1 => cuts <= 1 /\ (Restart /\ saving => cuts = 0)
<1>1. cuts \in Nat /\ misread \in BOOLEAN
  BY DEF TypeOK
<1>2. CASE Restart
  <2>1. cuts' = (IF saving THEN cuts + 1 ELSE cuts) /\ misread' = misread
    BY <1>2 DEF Restart
  <2> QED BY <1>1, <2>1, SMT
<1>3. CASE ~Restart
  <2>1. cuts' = cuts
    BY <1>3, LinkStepKeeps DEF Next, Start, Cli, process_balancing, save_storage, ModuleMessage,
       ProxyExecutes, Settle, ghosts, vars
  <2>2. misread => misread'
    BY <1>3, LinkStepKeeps DEF Next, Start, Cli, process_balancing, save_storage, ModuleMessage,
       ProxyExecutes, Settle, ghosts, vars, Send, AskWithLbtc, ConversionDone, TransferEnds
  <2> QED BY <1>3, <2>1, <2>2
<1> QED BY <1>2, <1>3

LEMMA ExactStep ==
    ASSUME FiniteSizes, TypeOK, WithdrawInv, LedgerInv, MemoryInv, PaidInv, Exact => ExactInv,
           [Next]_vars, Exact'
    PROVE  ExactInv'
<1>1. cuts = 0 /\ ~misread' /\ ExactInv /\ ~(Restart /\ saving)
  BY ExactBefore DEF Exact
<1>2. CASE save_storage \/ UNCHANGED vars
  <2>1. UNCHANGED <<balancing, known, requests, running, inbox, lbtc, ledger, started>>
    BY <1>2 DEF save_storage, vars, main, link, exchange, ghosts
  <2>2. /\ \A no : Payments(no)' = Payments(no) /\ HasSettled(no)' = HasSettled(no)
        /\ Payments(balancing.no)' = Payments(balancing.no)
        /\ HasSettled(balancing.no)' = HasSettled(balancing.no)
        /\ \A id : HasPaid(id)' = HasPaid(id)
        /\ NoDeposit' = NoDeposit
    BY <2>1, ViewKept
  <2>3. Unrun(Money)' = Unrun(Money) /\ NothingUnrun(Money)' = NothingUnrun(Money)
    BY <2>1 DEF Unrun, NothingUnrun
  <2>4. MoneyInv'
    BY <1>1, <2>1, <2>3 DEF ExactInv, MoneyInv, IsDue
  <2>5. LbtcInv'
    BY <1>1, <2>1, <2>2, <2>3 DEF ExactInv, LbtcInv
  <2>6. PaymentsInv' /\ ResultsInv'
    BY <1>1, <2>1, <2>2 DEF ExactInv, PaymentsInv, ResultsInv, IsTrue
  <2> QED BY <2>4, <2>5, <2>6 DEF ExactInv
<1>3. CASE Restart
  <2>1. /\ balancing' = balancing /\ UNCHANGED <<lbtc, ledger, started>>
        /\ known' = {} /\ requests' = <<>> /\ running' = {} /\ inbox' = <<>>
    BY <1>1, <1>3 DEF Restart, exchange, MemoryInv
  <2>2. /\ \A no : Payments(no)' = Payments(no) /\ HasSettled(no)' = HasSettled(no)
        /\ Payments(balancing.no)' = Payments(balancing.no)
        /\ HasSettled(balancing.no)' = HasSettled(balancing.no)
        /\ \A id : HasPaid(id)' = HasPaid(id)
        /\ NoDeposit' = NoDeposit
    BY <2>1, ViewKept
  <2>3. NothingUnrun(Money)' /\ NoWithdrawal'
    BY <2>1, EmptyQueue DEF NothingUnrun, Unrun, NoWithdrawal
  <2>4. 0 \notin known' /\ \A i \in DOMAIN inbox' : FALSE
    <3>1. \A i \in DOMAIN <<>> : FALSE
      BY SMT
    <3> QED BY <2>1, <3>1
  <2>5. LbtcInv'
    BY <1>1, <2>1, <2>2, <2>3, <2>4 DEF ExactInv, LbtcInv
  <2>6. PaymentsInv'
    BY <1>1, <2>1, <2>2 DEF ExactInv, PaymentsInv
  <2> QED BY <2>3, <2>5, <2>6, MoneyIdle, ResultsIdle DEF ExactInv
<1> QED BY <1>1, <1>2, <1>3, ExactLink, ExactStart, ExactSettle, ExactExecute, ExactMessage,
        ExactProcess DEF Next

-----------------------------------------------------------------------------
(* Withdrawals of L-BTC *)

LEMMA OutIsPayment == \A no : Payments(no) = {} => LbtcOut(no) = {}
  BY DEF Payments, LbtcOut

LEMMA OutKept ==
    ASSUME \/ ledger' = ledger
           \/ \E mv : ledger' = ledger \cup {mv} /\ (mv.in \/ mv.asset /= "lbtc")
    PROVE  \A no : LbtcOut(no)' = LbtcOut(no)
  BY DEF LbtcOut

LEMMA OutSettled ==
    ASSUME LedgerInv, NEW mv \in ledger, NEW s, s.no = mv.no, s.asset = mv.asset, s.in = mv.in,
           ledger' = (ledger \ {mv}) \cup {s}, started' = started
    PROVE  /\ \A no : LbtcOut(no) = {} => LbtcOut(no)' = {}
           /\ OneLbtcOut => OneLbtcOut'
<1>1. \A no : LbtcOut(no) = {} => LbtcOut(no)' = {}
  BY DEF LbtcOut
<1>2. ASSUME OneLbtcOut, NEW no \in 1..started, NEW p \in LbtcOut(no)', NEW q \in LbtcOut(no)'
      PROVE  p = q
  <2>1. \A x \in LbtcOut(no)' : (x = s /\ mv \in LbtcOut(no)) \/ (x \in LbtcOut(no) /\ x /= mv)
    <3> SUFFICES ASSUME NEW x \in LbtcOut(no)', x /= s
                 PROVE  x \in LbtcOut(no) /\ x /= mv
      BY DEF LbtcOut
    <3>1. x \in ledger /\ x.no = no /\ x.asset = "lbtc" /\ ~x.in
      BY DEF LbtcOut
    <3>2. x /= mv \/ s = mv
      BY DEF LbtcOut
    <3> QED BY <3>1, <3>2 DEF LbtcOut
  <2> QED BY <1>2, <2>1 DEF OneLbtcOut
<1> QED BY <1>1, <1>2 DEF OneLbtcOut

(* The transfer in memory before a handler ran is the one a kill would     *)
(* fall back to after it.                                                  *)
LEMMA FallbackStep ==
    ASSUME FiniteSizes, TypeOK, WithdrawInv, LedgerInv, MemoryInv, PaidInv, cuts = 0, FallbackInv, [Next]_vars
    PROVE  FallbackInv'
<1>1. {"WithdrawLbtc"} \in SUBSET Money /\ {"WithdrawLbtc"} \subseteq Withdrawal
  BY AskedStates DEF Withdrawal
<1>2. NoWithdrawal => NothingUnrun({"WithdrawLbtc"})
  BY <1>1 DEF NoWithdrawal, NothingUnrun, Unrun, NoneOf
<1>3. /\ {"RecvBtcNew", "RecvBtcWaitLbtcBalance"} \subseteq ToPay
      /\ \A s \in {"RecvBtcNew", "RecvBtcWaitLbtcBalance"} : s \notin Awaiting
  BY DEF ToPay, Awaiting
<1>4. Cardinality(ledger) \in Nat
  BY FiniteSize DEF LedgerInv
<1>5. CASE ~saving'
  BY <1>5 DEF FallbackInv
<1>6. CASE \/ CheckExchange \/ Connect \/ Disconnect \/ ProxyReceives \/ ProxyReplies
           \/ MovementsFail \/ MovementsLoaded \/ Push
  <2>1. UNCHANGED <<saving, stored, balancing, ledger>>
    BY <1>6, LinkStepKeeps DEF main, exchange
  <2>2. NothingUnrun({"WithdrawLbtc"}) => NothingUnrun({"WithdrawLbtc"})'
    BY <1>1, <1>6, NothingUnrunKept DEF LedgerInv
  <2>3. LbtcOut(stored.no)' = LbtcOut(stored.no)
    BY <2>1 DEF LbtcOut
  <2> QED BY <2>1, <2>2, <2>3 DEF FallbackInv
<1>7. CASE UNCHANGED vars
  <2>1. UNCHANGED <<saving, stored, balancing, ledger, requests, running>>
    BY <1>7 DEF vars, main, exchange, link
  <2> QED BY <2>1 DEF FallbackInv, LbtcOut, NothingUnrun, Unrun
<1>8. CASE Start
  <2>1. stored' = NoTransfer
    BY <1>8 DEF Start, Cli, MemoryInv
  <2>2. stored'.state = "None"
    BY <2>1, SMT DEF NoTransfer
  <2> QED BY <2>2 DEF FallbackInv
<1>9. ASSUME stored' = balancing, balancing'.no = balancing.no,
             balancing.state \in {"RecvBtcNew", "RecvBtcWaitLbtcBalance"} =>
                 /\ ledger' = ledger
                 /\ \/ balancing.state = "RecvBtcWaitLbtcBalance" /\ balancing'.state = "RecvBtcWaitWithdrawId"
                    \/ NothingUnrun({"WithdrawLbtc"})'
      PROVE  FallbackInv'
  <2> SUFFICES ASSUME balancing.state \in {"RecvBtcNew", "RecvBtcWaitLbtcBalance"}
               PROVE  /\ stored'.no = balancing'.no
                      /\ \/ LbtcOut(stored.no)' = {} /\ NothingUnrun({"WithdrawLbtc"})'
                         \/ /\ stored'.state = "RecvBtcWaitLbtcBalance"
                            /\ balancing'.state = "RecvBtcWaitWithdrawId"
    BY <1>9 DEF FallbackInv
  <2>1. LbtcOut(balancing.no) = {}
    BY <1>3, NotPaidYet, OutIsPayment
  <2>2. LbtcOut(stored.no)' = {}
    BY <1>9, <2>1 DEF LbtcOut
  <2> QED BY <1>9, <2>2
<1>10. CASE ModuleMessage /\ saving'
  <2>1. ~saving /\ stored' = stored /\ UNCHANGED <<ledger, requests, running>>
    BY <1>10 DEF ModuleMessage, exchange, link
  <2>2. stored' = balancing
    BY <2>1 DEF MemoryInv
  <2>3. balancing'.no = balancing.no
    BY <1>10, MessageDoes
  <2>4. balancing.state \in {"RecvBtcNew", "RecvBtcWaitLbtcBalance"} => NothingUnrun({"WithdrawLbtc"})
    BY <1>2, <1>3, IdleInv
  <2>5. NothingUnrun({"WithdrawLbtc"})' = NothingUnrun({"WithdrawLbtc"})
    BY <2>1 DEF NothingUnrun, Unrun
  <2> QED BY <1>9, <2>1, <2>2, <2>3, <2>4, <2>5
<1>11. CASE process_balancing
  <2>1. /\ balancing \in Transfer /\ ~saving /\ stored' = stored /\ running' = running
    BY <1>11, ProcessBalancingDoes DEF process_balancing
  <2>2. stored' = balancing
    BY <2>1 DEF MemoryInv
  <2>3. balancing.state \notin Awaiting
    BY <1>11, SMT DEF process_balancing, Awaiting, ConversionDone, TransferEnds
  <2>4. NoWithdrawal
    BY <2>3, IdleInv
  <2>5. CASE balancing.state \notin {"RecvBtcNew", "RecvBtcWaitLbtcBalance"}
    BY <2>2, <2>5 DEF FallbackInv
  <2>6. CASE Asks("RecvBtcNew", "TransferToLbtc", "RecvBtcWaitLbtcBalance")
    <3>1. PICK x \in RequestSent :
              /\ x.type = "TransferToLbtc" /\ requests' = Append(requests, x)
              /\ balancing'.no = balancing.no /\ ledger' = ledger
      BY <2>1, <2>6, AskDoes DEF Asks
    <3>2. NothingUnrun({"WithdrawLbtc"})
      BY <1>2, <2>4
    <3>3. x.type \notin {"WithdrawLbtc"} /\ requests \in Seq(RequestSent)
      BY <3>1 DEF TypeOK
    <3>4. NoneOf(requests', {"WithdrawLbtc"})
      BY <3>1, <3>2, <3>3, RequestAdded DEF NothingUnrun
    <3>5. NothingUnrun({"WithdrawLbtc"})'
      BY <2>1, <3>2, <3>4 DEF NothingUnrun, Unrun
    <3> QED BY <1>9, <2>2, <3>1, <3>5
  <2>7. CASE Asks("RecvBtcWaitLbtcBalance", "WithdrawLbtc", "RecvBtcWaitWithdrawId")
    <3>1. /\ balancing'.no = balancing.no /\ ledger' = ledger
          /\ balancing.state = "RecvBtcWaitLbtcBalance" /\ balancing'.state = "RecvBtcWaitWithdrawId"
      BY <2>1, <2>7, AskDoes DEF Asks
    <3> QED BY <1>9, <2>2, <3>1
  <2>8. \/ balancing.state \notin {"RecvBtcNew", "RecvBtcWaitLbtcBalance"}
        \/ Asks("RecvBtcNew", "TransferToLbtc", "RecvBtcWaitLbtcBalance")
        \/ Asks("RecvBtcWaitLbtcBalance", "WithdrawLbtc", "RecvBtcWaitWithdrawId")
    BY <1>11, ProcessBalancingDoes DEF Asks, ConversionDone, TransferEnds
  <2> QED BY <2>5, <2>6, <2>7, <2>8
<1>12. CASE ProxyExecutes
  <2>1. PICK r \in running :
            /\ ~r.ran
            /\ \/ ledger' = ledger
               \/ r.type = "WithdrawLbtc"
               \/ \E mv : ledger' = ledger \cup {mv} /\ mv.asset /= "lbtc"
    <3>1. PICK r \in running :
              /\ ~r.ran
              /\ \/ ledger' = ledger
                 \/ /\ r.type \in Withdrawal
                    /\ \E mv : /\ mv.asset = IF r.type = "WithdrawUsdt" THEN "usdt" ELSE "lbtc"
                               /\ ledger' = ledger \cup {mv}
      BY <1>12, ExecuteDoes DEF LedgerInv
    <3>2. r.type \in Withdrawal => r.type = "WithdrawUsdt" \/ r.type = "WithdrawLbtc"
      BY DEF Withdrawal
    <3> QED BY <3>1, <3>2
  <2>2. UNCHANGED <<saving, stored, balancing>>
    BY <1>12 DEF ProxyExecutes, main
  <2>3. NothingUnrun({"WithdrawLbtc"}) => NothingUnrun({"WithdrawLbtc"})' /\ r.type /= "WithdrawLbtc"
    BY <1>1, <1>12, <2>1, NothingUnrunKept DEF LedgerInv, NothingUnrun, Unrun
  <2>4. PICK n : n = stored.no
    OBVIOUS
  <2>5. r.type /= "WithdrawLbtc" => LbtcOut(n)' = LbtcOut(n)
    BY <2>1, OutKept
  <2>6. LbtcOut(stored.no)' = LbtcOut(n)'
    BY <2>2, <2>4 DEF LbtcOut
  <2> QED BY <2>2, <2>3, <2>4, <2>5, <2>6 DEF FallbackInv
<1>13. CASE Settle
  <2>1. PICK mv \in ledger, s \in Movement : /\ s.no = mv.no /\ s.asset = mv.asset /\ s.in = mv.in
                                             /\ ledger' = (ledger \ {mv}) \cup {s}
    BY <1>13, SettleDoes
  <2>2. UNCHANGED <<saving, stored, balancing, requests, running, started>>
    BY <1>13 DEF Settle, main, link, ghosts
  <2>3. PICK n : n = stored.no
    OBVIOUS
  <2>4. LbtcOut(n) = {} => LbtcOut(n)' = {}
    BY <2>1, <2>2, OutSettled
  <2>5. LbtcOut(stored.no)' = LbtcOut(n)'
    BY <2>2, <2>3 DEF LbtcOut
  <2> QED BY <2>2, <2>3, <2>4, <2>5 DEF FallbackInv, NothingUnrun, Unrun
<1>14. CASE save_storage \/ Restart
  BY <1>5, <1>14 DEF save_storage, Restart
<1> QED BY <1>5, <1>6, <1>7, <1>8, <1>10, <1>11, <1>12, <1>13, <1>14 DEF Next

LEMMA DrainedStep ==
    ASSUME FiniteSizes, TypeOK, WithdrawInv, LedgerInv, MemoryInv, Exact => ExactInv /\ FallbackInv,
           DrainedInv, [Next]_vars, cuts' <= 1, ~misread'
    PROVE  DrainedInv'
<1>1. /\ {"WithdrawLbtc"} \in SUBSET Money /\ {"WithdrawLbtc"} \subseteq Withdrawal
      /\ {"TransferToLbtc"} \in SUBSET Money
  BY AskedStates DEF Withdrawal
<1>2. NoWithdrawal => NothingUnrun({"WithdrawLbtc"})
  BY <1>1 DEF NoWithdrawal, NothingUnrun, Unrun, NoneOf
<1>3. Cardinality(ledger) \in Nat /\ started \in Nat /\ IsFiniteSet(ledger)
  BY FiniteSize DEF LedgerInv, TypeOK
(* Nothing is withdrawn, and the transfer is not to withdraw again unless  *)
(* it was before.                                                          *)
<1>4. ASSUME started' = started, balancing'.no = balancing.no,
             \A no : LbtcOut(no)' = LbtcOut(no),
             NothingUnrun({"WithdrawLbtc"}) => NothingUnrun({"WithdrawLbtc"})',
             balancing'.state = "RecvBtcNew" => balancing.state = "RecvBtcNew",
             balancing'.state = "RecvBtcWaitLbtcBalance" => balancing.state = "RecvBtcWaitLbtcBalance",
             Drained => Drained'
      PROVE  DrainedInv'
  <2>1. OneLbtcOut'
    BY <1>4 DEF DrainedInv, OneLbtcOut
  <2>2. LbtcOut(balancing.no)' = LbtcOut(balancing.no)
    <3>1. PICK n : n = balancing.no
      OBVIOUS
    <3>2. LbtcOut(balancing.no)' = LbtcOut(n)'
      BY <1>4, <3>1 DEF LbtcOut
    <3> QED BY <1>4, <3>1, <3>2
  <2> QED BY <1>4, <2>1, <2>2 DEF DrainedInv
<1>5. CASE \/ CheckExchange \/ Connect \/ Disconnect \/ ProxyReceives \/ ProxyReplies
           \/ MovementsFail \/ MovementsLoaded \/ Push
  <2>1. UNCHANGED <<balancing, ledger, lbtc, started>>
    BY <1>5, LinkStepKeeps DEF main, exchange
  <2>2. /\ NothingUnrun({"WithdrawLbtc"}) => NothingUnrun({"WithdrawLbtc"})'
        /\ NothingUnrun({"TransferToLbtc"}) => NothingUnrun({"TransferToLbtc"})'
    BY <1>1, <1>3, <1>5, NothingUnrunKept
  <2>3. (\A no : LbtcOut(no)' = LbtcOut(no)) /\ NoDeposit' = NoDeposit
    BY <2>1, OutKept DEF NoDeposit
  <2> QED BY <1>4, <2>1, <2>2, <2>3 DEF Drained
<1>6. CASE save_storage \/ UNCHANGED vars
  <2>1. UNCHANGED <<balancing, ledger, lbtc, started, requests, running>>
    BY <1>6 DEF save_storage, vars, main, link, exchange, ghosts
  <2>2. /\ NothingUnrun({"WithdrawLbtc"})' = NothingUnrun({"WithdrawLbtc"})
        /\ NothingUnrun({"TransferToLbtc"})' = NothingUnrun({"TransferToLbtc"})
    BY <2>1 DEF NothingUnrun, Unrun
  <2>3. (\A no : LbtcOut(no)' = LbtcOut(no)) /\ NoDeposit' = NoDeposit
    BY <2>1, OutKept DEF NoDeposit
  <2> QED BY <1>4, <2>1, <2>2, <2>3 DEF Drained
<1>7. CASE Start
  <2>1. PICK s \in TransferState : Cli(s)
    BY <1>7 DEF Start, TransferState
  <2>2. PICK n \in Nat : n = started + 1
    BY <1>3, SMT
  <2>3. UNCHANGED <<ledger, requests, running>> /\ started' = n /\ balancing'.no = n
    BY <2>1, <2>2, NewTransfer DEF Cli, exchange, link
  <2>4. \A no : LbtcOut(no)' = LbtcOut(no)
    BY <2>3, OutKept
  <2>5. LbtcOut(n) = {}
    <3>1. n \notin 1..started
      BY <1>3, <2>2, SMT
    <3> QED BY <3>1 DEF LbtcOut, LedgerInv
  <2>6. LbtcOut(balancing.no)' = {}
    <3>1. LbtcOut(balancing.no)' = LbtcOut(n)'
      BY <2>3 DEF LbtcOut
    <3> QED BY <2>4, <2>5, <3>1
  <2>7. OneLbtcOut'
    <3>1. \A no \in 1..started' : no = n \/ no \in 1..started
      BY <1>3, <2>2, <2>3, SMT
    <3> QED BY <2>4, <2>5, <3>1 DEF DrainedInv, OneLbtcOut
  <2> QED BY <2>6, <2>7 DEF DrainedInv
<1>8. CASE ModuleMessage
  <2>1. /\ balancing'.no = balancing.no
        /\ \/ balancing'.state = balancing.state
           \/ balancing'.state \in {"RecvUsdtWaitConfirm", "RecvBtcWaitConfirm", "Failed", "Complete"}
    BY <1>8, MessageDoes
  <2>2. UNCHANGED <<ledger, lbtc, started, requests, running>>
    BY <1>8 DEF ModuleMessage, exchange, ghosts, link
  <2>3. /\ NothingUnrun({"WithdrawLbtc"})' = NothingUnrun({"WithdrawLbtc"})
        /\ NothingUnrun({"TransferToLbtc"})' = NothingUnrun({"TransferToLbtc"})
    BY <2>2 DEF NothingUnrun, Unrun
  <2>4. (\A no : LbtcOut(no)' = LbtcOut(no)) /\ NoDeposit' = NoDeposit
    BY <2>2, OutKept DEF NoDeposit
  <2>5. /\ balancing'.state = "RecvBtcNew" => balancing.state = "RecvBtcNew"
        /\ balancing'.state = "RecvBtcWaitLbtcBalance" => balancing.state = "RecvBtcWaitLbtcBalance"
    BY <2>1
  <2> QED BY <1>4, <2>1, <2>2, <2>3, <2>4, <2>5 DEF Drained
<1>9. CASE Settle
  <2>1. PICK mv \in ledger, s \in Movement :
            /\ ~mv.done /\ s.done /\ s.no = mv.no /\ s.asset = mv.asset /\ s.in = mv.in
            /\ ledger' = (ledger \ {mv}) \cup {s}
            /\ lbtc' = IF mv.in /\ mv.asset = "lbtc" THEN lbtc + Amount ELSE lbtc
    BY <1>9, SettleDoes
  <2>2. UNCHANGED <<balancing, requests, running, started>>
    BY <1>9 DEF Settle, main, link, ghosts
  <2>3. (\A no : LbtcOut(no) = {} => LbtcOut(no)' = {}) /\ OneLbtcOut'
    BY <2>1, <2>2, OutSettled DEF DrainedInv
  <2>4. LbtcOut(balancing.no) = {} => LbtcOut(balancing.no)' = {}
    <3>1. PICK n : n = balancing.no
      OBVIOUS
    <3>2. LbtcOut(balancing.no)' = LbtcOut(n)'
      BY <2>2, <3>1 DEF LbtcOut
    <3> QED BY <2>3, <3>1, <3>2
  <2>5. /\ NothingUnrun({"WithdrawLbtc"})' = NothingUnrun({"WithdrawLbtc"})
        /\ NothingUnrun({"TransferToLbtc"})' = NothingUnrun({"TransferToLbtc"})
    BY <2>2 DEF NothingUnrun, Unrun
  <2>6. NoDeposit => NoDeposit' /\ lbtc' = lbtc
    BY <2>1 DEF NoDeposit
  <2>7. Drained => Drained'
    BY <2>5, <2>6 DEF Drained
  <2> QED BY <2>2, <2>3, <2>4, <2>5, <2>7 DEF DrainedInv
<1>10. CASE Restart
  <2>1. UNCHANGED <<ledger, lbtc, started>> /\ balancing' = stored
    BY <1>10 DEF Restart, exchange
  <2>2. NothingUnrun({"WithdrawLbtc"})' /\ NothingUnrun({"TransferToLbtc"})'
    BY <1>10, EmptyQueue DEF Restart, NothingUnrun, Unrun
  <2>3. (\A no : LbtcOut(no)' = LbtcOut(no)) /\ NoDeposit' = NoDeposit
    BY <2>1, OutKept DEF NoDeposit
  <2>4. CASE ~saving
    <3>1. balancing' = balancing
      BY <2>1, <2>4 DEF MemoryInv
    <3> QED BY <1>4, <2>1, <2>2, <2>3, <3>1 DEF Drained
  <2>5. CASE saving
    <3>1. ExactInv /\ FallbackInv
      BY <1>10, <2>5, ExactBefore DEF Exact
    <3>2. OneLbtcOut'
      BY <2>1, <2>3 DEF DrainedInv, OneLbtcOut
    <3>3. LbtcOut(balancing.no)' = LbtcOut(stored.no)
      BY <2>1 DEF LbtcOut
    <3>4. CASE stored.state \notin {"RecvBtcNew", "RecvBtcWaitLbtcBalance"}
      BY <2>1, <2>2, <3>2, <3>4 DEF DrainedInv
    <3>5. CASE LbtcOut(stored.no) = {}
      BY <3>2, <3>3, <3>5 DEF DrainedInv
    <3>6. CASE /\ stored.state = "RecvBtcWaitLbtcBalance" /\ stored.no = balancing.no
               /\ balancing.state = "RecvBtcWaitWithdrawId"
      <4>1. NoDeposit /\ (lbtc = 0 \/ Payments(balancing.no) = {})
        BY <3>1, <3>6 DEF ExactInv, LbtcInv, PaymentsInv
      <4>2. CASE Payments(balancing.no) = {}
        BY <3>5, <3>6, <4>2, OutIsPayment
      <4>3. CASE lbtc = 0
        BY <2>1, <2>2, <2>3, <3>2, <3>6, <4>1, <4>3 DEF DrainedInv, Drained
      <4> QED BY <4>1, <4>2, <4>3
    <3> QED BY <2>5, <3>1, <3>4, <3>5, <3>6 DEF FallbackInv
  <2> QED BY <2>4, <2>5
<1>11. CASE process_balancing
  <2>1. balancing \in Transfer /\ UNCHANGED <<known, running, lbtc, started>>
    BY <1>11, ProcessBalancingDoes DEF process_balancing
  <2>2. balancing.state \notin Awaiting
    BY <1>11, SMT DEF process_balancing, Awaiting, ConversionDone, TransferEnds
  <2>3. NothingUnrun({"WithdrawLbtc"})
    BY <1>2, <2>2, IdleInv
  <2>4. ASSUME \A no : LbtcOut(no)' = LbtcOut(no), requests' = requests,
               balancing'.state \notin {"RecvBtcNew", "RecvBtcWaitLbtcBalance"}
        PROVE  DrainedInv'
    <3>1. OneLbtcOut'
      BY <2>1, <2>4 DEF DrainedInv, OneLbtcOut
    <3>2. NothingUnrun({"WithdrawLbtc"})'
      BY <2>1, <2>3, <2>4 DEF NothingUnrun, Unrun
    <3> QED BY <2>4, <3>1, <3>2 DEF DrainedInv
  <2>5. ASSUME NEW asset \in {"usdt", "lbtc"},
               NEW s \in TransferState \ {"RecvBtcNew", "RecvBtcWaitLbtcBalance"}, Send(asset, s)
        PROVE  DrainedInv'
    <3>1. /\ \/ ledger' = ledger
             \/ \E mv : ledger' = ledger \cup {mv} /\ mv.in
          /\ balancing'.state = s \/ balancing'.state = "Failed"
      BY <1>3, <2>1, <2>5, SendDoes
    <3>2. requests' = requests
      BY <2>5 DEF Send
    <3>3. \A no : LbtcOut(no)' = LbtcOut(no)
      BY <3>1, OutKept
    <3>4. balancing'.state \notin {"RecvBtcNew", "RecvBtcWaitLbtcBalance"}
      BY <2>5, <3>1
    <3> QED BY <2>4, <3>2, <3>3, <3>4
  <2>6. ASSUME NEW from, NEW type, NEW to, Asks(from, type, to), to /= "RecvBtcNew",
               to = "RecvBtcWaitLbtcBalance" => LbtcOut(balancing.no) = {},
               type = "WithdrawLbtc" => LbtcOut(balancing.no) = {} \/ Drained
        PROVE  DrainedInv'
    <3>1. PICK x \in RequestSent :
              /\ x.type = type /\ requests' = Append(requests, x)
              /\ balancing'.no = balancing.no /\ balancing'.state = to /\ ledger' = ledger
      BY <2>1, <2>6, AskDoes DEF Asks
    <3>2. \A no : LbtcOut(no)' = LbtcOut(no)
      BY <3>1, OutKept
    <3>3. OneLbtcOut'
      BY <2>1, <3>2 DEF DrainedInv, OneLbtcOut
    <3>4. LbtcOut(balancing.no)' = LbtcOut(balancing.no)
      BY <3>1 DEF LbtcOut
    <3>5. type /= "WithdrawLbtc" => NothingUnrun({"WithdrawLbtc"})'
      <4> SUFFICES ASSUME type /= "WithdrawLbtc" PROVE NothingUnrun({"WithdrawLbtc"})'
        OBVIOUS
      <4>1. x.type \notin {"WithdrawLbtc"} /\ requests \in Seq(RequestSent)
        BY <3>1 DEF TypeOK
      <4>2. NoneOf(requests', {"WithdrawLbtc"})
        BY <2>3, <3>1, <4>1, RequestAdded DEF NothingUnrun
      <4> QED BY <2>1, <2>3, <4>2 DEF NothingUnrun, Unrun
    <3>6. type = "WithdrawLbtc" /\ Drained => Drained'
      <4> SUFFICES ASSUME type = "WithdrawLbtc", Drained PROVE Drained'
        OBVIOUS
      <4>1. x.type \notin {"TransferToLbtc"} /\ requests \in Seq(RequestSent)
        BY <3>1 DEF TypeOK
      <4>2. NoneOf(requests', {"TransferToLbtc"})
        BY <3>1, <4>1, RequestAdded DEF Drained, NothingUnrun
      <4> QED BY <2>1, <3>1, <4>2 DEF Drained, NothingUnrun, Unrun, NoDeposit
    <3> QED BY <2>6, <3>1, <3>3, <3>4, <3>5, <3>6 DEF DrainedInv
  <2>7. CASE balancing.state = "SendUsdtNew" /\ Send("usdt", "SendUsdtWaitConfirm")
    <3>1. "SendUsdtWaitConfirm" \in TransferState \ {"RecvBtcNew", "RecvBtcWaitLbtcBalance"}
      BY DEF TransferState
    <3> QED BY <2>5, <2>7, <3>1
  <2>8. CASE balancing.state = "SendBtcNew" /\ Send("lbtc", "SendBtcWaitLbtcBalance")
    <3>1. "SendBtcWaitLbtcBalance" \in TransferState \ {"RecvBtcNew", "RecvBtcWaitLbtcBalance"}
      BY DEF TransferState
    <3> QED BY <2>5, <2>8, <3>1
  <2>9. CASE \/ Asks("RecvUsdtNew", "WithdrawUsdt", "RecvUsdtWaitWithdrawId")
             \/ Asks("SendBtcWaitLbtcBalance", "TransferToBtc", "SendBtcWaitConfirm")
    BY <2>6, <2>9
  <2>10. CASE Asks("RecvBtcNew", "TransferToLbtc", "RecvBtcWaitLbtcBalance")
    <3>1. LbtcOut(balancing.no) = {}
      BY <2>10 DEF Asks, DrainedInv
    <3> QED BY <2>6, <2>10, <3>1
  <2>11. CASE Asks("RecvBtcWaitLbtcBalance", "WithdrawLbtc", "RecvBtcWaitWithdrawId")
    <3>1. LbtcOut(balancing.no) = {} \/ Drained
      BY <2>11 DEF Asks, DrainedInv
    <3> QED BY <2>6, <2>11, <3>1
  <2>12. CASE ConversionDone \/ TransferEnds
    <3>1. UNCHANGED <<requests, ledger>>
      BY <2>12 DEF ConversionDone, TransferEnds
    <3>2. balancing'.state \in {"Complete", "None"}
      <4>1. "Complete" \in TransferState /\ NoTransfer.state = "None"
        BY SMT DEF TransferState, NoTransfer
      <4> QED BY <2>1, <2>12, <4>1, StateWritten DEF ConversionDone, TransferEnds
    <3>3. \A no : LbtcOut(no)' = LbtcOut(no)
      BY <3>1, OutKept
    <3> QED BY <2>4, <3>1, <3>2, <3>3
  <2> QED BY <1>11, <2>7, <2>8, <2>9, <2>10, <2>11, <2>12, ProcessBalancingDoes
<1>12. CASE ProxyExecutes
  <2>1. PICK r \in running, s \in Execution :
            /\ ~r.ran /\ s.type = r.type /\ s.ran
            /\ \A x \in running' : x = s \/ (x \in running /\ x /= r)
            /\ \/ /\ \E mv \in Movement :
                         /\ mv.no = r.no
                         /\ mv.asset = IF r.type = "WithdrawUsdt" THEN "usdt" ELSE "lbtc"
                         /\ ~mv.in /\ ledger' = ledger \cup {mv}
                  /\ \/ r.type = "WithdrawUsdt" /\ lbtc' = lbtc
                     \/ r.type = "WithdrawLbtc" /\ lbtc >= Amount
               \/ r.type = "TransferToBtc" /\ lbtc >= Amount /\ ledger' = ledger
               \/ r.type = "TransferToLbtc" /\ ledger' = ledger
               \/ lbtc' = lbtc /\ ledger' = ledger
    BY <1>3, <1>12, ExecuteDoes
  <2>2. UNCHANGED <<balancing, started, requests>>
    BY <1>12 DEF ProxyExecutes, main, ghosts
  <2>3. /\ NothingUnrun({"WithdrawLbtc"}) => NothingUnrun({"WithdrawLbtc"})'
        /\ NothingUnrun({"TransferToLbtc"}) => NothingUnrun({"TransferToLbtc"})'
    BY <1>1, <1>3, <1>12, NothingUnrunKept
  <2>4. CASE /\ ledger' = ledger \/ \E mv : ledger' = ledger \cup {mv} /\ ~mv.in /\ mv.asset /= "lbtc"
             /\ \/ lbtc' = lbtc
                \/ r.type = "TransferToBtc" /\ lbtc >= Amount
                \/ r.type = "TransferToLbtc"
    <3>1. (\A no : LbtcOut(no)' = LbtcOut(no)) /\ (NoDeposit => NoDeposit')
      BY <2>4, OutKept DEF NoDeposit
    <3>2. NothingUnrun({"TransferToLbtc"}) => r.type /= "TransferToLbtc"
      BY <2>1 DEF NothingUnrun, Unrun
    <3>3. lbtc = 0 => ~(lbtc >= Amount)
      BY SMT DEF Amount
    <3>4. Drained => Drained'
      BY <2>3, <2>4, <3>1, <3>2, <3>3 DEF Drained
    <3> QED BY <1>4, <2>2, <2>3, <3>1, <3>4
  <2>5. ASSUME NEW mv, mv.no = r.no, ledger' = ledger \cup {mv}, r.type = "WithdrawLbtc",
               lbtc >= Amount
        PROVE  DrainedInv'
    <3>1. r.no = balancing.no /\ balancing.state \in Awaiting /\ r.type \in Withdrawal
      BY <1>1, <2>5 DEF WithdrawInv, IsOwn, Awaiting
    <3>2. LbtcOut(r.no) = {}
      <4>1. ~NothingUnrun({"WithdrawLbtc"})
        BY <2>1, <2>5 DEF NothingUnrun, Unrun
      <4>2. lbtc /= 0
        BY <2>5, SMT DEF Amount
      <4> QED BY <3>1, <4>1, <4>2 DEF DrainedInv, Drained
    <3>3. OneLbtcOut'
      <4>1. \A no : \A x \in LbtcOut(no)' : x \in LbtcOut(no) \/ (x = mv /\ no = r.no)
        BY <2>5 DEF LbtcOut
      <4> QED BY <2>2, <3>2, <4>1, SMT DEF DrainedInv, OneLbtcOut
    <3>4. NothingUnrun({"WithdrawLbtc"})'
      <4>1. NoneOf(requests, Withdrawal) /\ \A x \in running : x.type \in Withdrawal => x = r
        BY <3>1 DEF WithdrawInv, OneWithdrawal
      <4>2. \A x \in running' : x.type \in {"WithdrawLbtc"} => x = s
        BY <1>1, <2>1, <4>1
      <4> QED BY <1>1, <2>1, <2>2, <4>1, <4>2 DEF NothingUnrun, Unrun, NoneOf
    <3>5. balancing'.state \notin {"RecvBtcNew", "RecvBtcWaitLbtcBalance"}
      BY <2>2, <3>1 DEF Awaiting
    <3> QED BY <3>3, <3>4, <3>5 DEF DrainedInv
  <2> QED BY <2>1, <2>4, <2>5
<1> QED BY <1>5, <1>6, <1>7, <1>8, <1>9, <1>10, <1>11, <1>12 DEF Next
=============================================================================
