-------------------------- MODULE OrderSignProofs ---------------------------
(* Proofs about OrderSign, for every value of its constants: its types,    *)
(* prompts are not left waiting, an order is signed once, and what has to  *)
(* be left alone to keep the parts of AgreedInv.                           *)
EXTENDS OrderSign, TLAPS

(* Zenon is tried where a leaf cites no prover; SMT is cited where         *)
(* arithmetic, sequences or records are needed.                            *)
USE Zenon

(* The maps keyed by order: what Put, Drop and a changed field do.         *)
LEMMA PutFacts ==
    ASSUME NEW f, NEW k, NEW v
    PROVE  /\ DOMAIN Put(f, k, v) = DOMAIN f \cup {k}
           /\ Put(f, k, v)[k] = v
           /\ \A x \in DOMAIN f : x /= k => Put(f, k, v)[x] = f[x]
BY DEF Put

LEMMA DropFacts ==
    ASSUME NEW f, NEW k
    PROVE  /\ DOMAIN Drop(f, k) = DOMAIN f \ {k}
           /\ \A x \in DOMAIN f : x /= k => Drop(f, k)[x] = f[x]
BY DEF Drop

LEMMA MapTypes ==
    ASSUME NEW S, NEW T, NEW f, IsMap(f, S, T), NEW k \in S, NEW v \in T
    PROVE  IsMap(Put(f, k, v), S, T) /\ IsMap(Drop(f, k), S, T)
BY DEF IsMap, Put, Drop

LEMMA EmptyMap ==
    ASSUME NEW S, NEW T
    PROVE  IsMap(<<>>, S, T)
BY SMT DEF IsMap

(* Changing one field of an entry of submit_data leaves the rest alone.    *)
LEMMA DataFields ==
    ASSUME NEW f, IsMap(f, Order, SubmitData), NEW o \in DOMAIN f
    PROVE  /\ \A p \in Price : IsMap([f EXCEPT ![o].price = p], Order, SubmitData)
           /\ \A b \in BOOLEAN : IsMap([f EXCEPT ![o].auto_sign = b], Order, SubmitData)
           /\ IsMap([f EXCEPT ![o].signed = TRUE], Order, SubmitData)
           /\ IsMap([f EXCEPT ![o].txid = TRUE], Order, SubmitData)
<1>1. f[o] \in SubmitData
  BY DEF IsMap
<1>2. /\ \A p \in Price : [f[o] EXCEPT !.price = p] \in SubmitData
      /\ \A b \in BOOLEAN : [f[o] EXCEPT !.auto_sign = b] \in SubmitData
      /\ [f[o] EXCEPT !.signed = TRUE] \in SubmitData
      /\ [f[o] EXCEPT !.txid = TRUE] \in SubmitData
  BY <1>1 DEF SubmitData
<1> QED BY <1>2 DEF IsMap

(* The types of the operators that compute a new state. *)
LEMMA AddMissingType ==
    ASSUME NEW o \in Order, NEW p \in Price, NEW data, IsMap(data, Order, SubmitData)
    PROVE  IsMap(add_missing_submit_data(o, p, data), Order, SubmitData)
<1> DEFINE d == [side |-> "Maker", price |-> p, auto_sign |-> FALSE,
                 index_price |-> FALSE, signed |-> FALSE, txid |-> FALSE]
<1>1. d \in SubmitData
  BY DEF SubmitData
<1>2. IsMap(Put(data, o, d), Order, SubmitData)
  BY <1>1, MapTypes
<1> QED BY <1>2 DEF add_missing_submit_data

(* process_pending_sign_prompts either leaves the review alone, or drops   *)
(* the prompts, or shows the i-th of them and keeps those after it.        *)
Shows(i, prompts, data) ==
    /\ i \in 1..Len(prompts) /\ prompts[i].order \in DOMAIN data
    /\ visible_submit' = prompts[i].order
    /\ active_sign' = prompts[i]
    /\ review' = [order |-> prompts[i].order, step |-> "Sign",
                  price |-> data[prompts[i].order].price]
    /\ pending_sign_prompts' \in Seq(SignNotification)
    /\ Len(pending_sign_prompts') = Len(prompts) - i
    /\ \A j \in 1..Len(pending_sign_prompts') : pending_sign_prompts'[j] = prompts[j + i]

LEMMA PromptsFacts ==
    ASSUME NEW visible, NEW prompts \in Seq(SignNotification), NEW sign, NEW data,
           NEW shown,
           process_pending_sign_prompts(visible, prompts, sign, data, shown)
    PROVE  \/ /\ visible /= None
              /\ visible_submit' = visible /\ active_sign' = sign /\ review' = shown
              /\ pending_sign_prompts' = prompts
           \/ /\ visible = None
              /\ visible_submit' = None /\ active_sign' = sign /\ review' = shown
              /\ pending_sign_prompts' = <<>>
           \/ visible = None /\ \E i \in 1..Len(prompts) : Shows(i, prompts, data)
<1> DEFINE known == {i \in 1..Len(prompts) : prompts[i].order \in DOMAIN data}
<1>1. ASSUME NEW i \in known,
             visible_submit' = prompts[i].order,
             active_sign' = prompts[i],
             review' = [order |-> prompts[i].order, step |-> "Sign",
                        price |-> data[prompts[i].order].price],
             pending_sign_prompts' = SubSeq(prompts, i + 1, Len(prompts))
      PROVE  Shows(i, prompts, data)
  <2>1. i \in 1..Len(prompts) /\ prompts[i].order \in DOMAIN data
    OBVIOUS
  <2>2. pending_sign_prompts' \in Seq(SignNotification)
    BY <1>1, <2>1, SMT
  <2>3. Len(pending_sign_prompts') = Len(prompts) - i
    BY <1>1, <2>1, SMT
  <2>4. \A j \in 1..Len(pending_sign_prompts') : pending_sign_prompts'[j] = prompts[j + i]
    BY <1>1, <2>1, <2>3, SMT
  <2> QED BY <1>1, <2>1, <2>2, <2>3, <2>4 DEF Shows
<1> QED BY <1>1 DEF process_pending_sign_prompts

LEMMA PromptsType ==
    ASSUME NEW visible \in Order \cup {None}, NEW prompts \in Seq(SignNotification),
           NEW sign \in SignNotification \cup {None}, NEW data,
           IsMap(data, Order, SubmitData), NEW shown \in Review \cup {None},
           process_pending_sign_prompts(visible, prompts, sign, data, shown)
    PROVE  /\ visible_submit' \in Order \cup {None}
           /\ active_sign' \in SignNotification \cup {None}
           /\ review' \in Review \cup {None}
           /\ pending_sign_prompts' \in Seq(SignNotification)
<1>1. ASSUME NEW i \in 1..Len(prompts), Shows(i, prompts, data)
      PROVE  /\ visible_submit' \in Order \cup {None}
             /\ active_sign' \in SignNotification \cup {None}
             /\ review' \in Review \cup {None}
             /\ pending_sign_prompts' \in Seq(SignNotification)
  <2>1. prompts[i] \in SignNotification
    BY SMT
  <2>2. prompts[i].order \in Order /\ data[prompts[i].order].price \in Price
    BY <1>1, <2>1 DEF Shows, SignNotification, IsMap, SubmitData
  <2>3. [order |-> prompts[i].order, step |-> "Sign",
         price |-> data[prompts[i].order].price] \in Review
    BY <2>2 DEF Review
  <2>4. /\ visible_submit' = prompts[i].order /\ active_sign' = prompts[i]
        /\ review' = [order |-> prompts[i].order, step |-> "Sign",
                      price |-> data[prompts[i].order].price]
        /\ pending_sign_prompts' \in Seq(SignNotification)
    BY <1>1 DEF Shows
  <2> QED BY <2>1, <2>2, <2>3, <2>4
<1>2. \/ /\ visible /= None
         /\ visible_submit' = visible /\ active_sign' = sign /\ review' = shown
         /\ pending_sign_prompts' = prompts
      \/ /\ visible = None
         /\ visible_submit' = None /\ active_sign' = sign /\ review' = shown
         /\ pending_sign_prompts' = <<>>
      \/ visible = None /\ \E i \in 1..Len(prompts) : Shows(i, prompts, data)
  BY PromptsFacts
<1>3. CASE \E i \in 1..Len(prompts) : Shows(i, prompts, data)
  BY <1>1, <1>3
<1>4. <<>> \in Seq(SignNotification)
  BY SMT
<1> QED BY <1>2, <1>3, <1>4

LEMMA TrySignType ==
    ASSUME TypeOK, NEW m \in SignNotification, NEW data, IsMap(data, Order, SubmitData),
           NEW ok, try_sign(m, data, ok)
    PROVE  IsMap(submit_data', Order, SubmitData) /\ sent' \in [Order -> Seq(Price)]
<1>0. m.order \in Order /\ m.pset \in Price /\ sent \in [Order -> Seq(Price)]
  BY DEF SignNotification, TypeOK
<1>1. [sent EXCEPT ![m.order] = Append(@, m.pset)] \in [Order -> Seq(Price)]
  BY <1>0, SMT
<1>2. sent' \in [Order -> Seq(Price)]
  BY <1>0, <1>1 DEF try_sign
<1>3. submit_data' = data \/ (m.order \in DOMAIN data /\
                              submit_data' = [data EXCEPT ![m.order].signed = TRUE])
  BY DEF try_sign
<1>4. IsMap(submit_data', Order, SubmitData)
  <2>1. CASE submit_data' = data
    BY <2>1
  <2>2. CASE m.order \in DOMAIN data /\ submit_data' = [data EXCEPT ![m.order].signed = TRUE]
    BY <1>0, <2>2, DataFields DEF SignNotification
  <2> QED BY <1>3, <2>1, <2>2
<1> QED BY <1>2, <1>4

SignTypeOK ==
    /\ IsMap(submit_data, Order, SubmitData)
    /\ sent \in [Order -> Seq(Price)]
    /\ processed_signs \subseteq Order
    /\ active_sign \in SignNotification \cup {None}
    /\ visible_submit \in Order \cup {None}
    /\ waiting_submit \in Order \cup {None}
    /\ pending_sign_prompts \in Seq(SignNotification)
    /\ review \in Review \cup {None}

LEMMA TryProcessSignType ==
    ASSUME TypeOK, NEW m \in SignNotification, NEW data, IsMap(data, Order, SubmitData),
           try_process_sign(m, data)
    PROVE  SignTypeOK'
<1> USE DEF SignTypeOK
<1>0. /\ SignTypeOK /\ m.order \in Order /\ m.price \in Price
      /\ processed_signs \cup {m.order} \subseteq Order
  BY DEF TypeOK, SignNotification
<1>1. CASE Existing(m.order)
  BY <1>0, <1>1 DEF try_process_sign, reviewVars
<1>2. CASE ~Existing(m.order) /\ ~SignMatches(m, data)
  BY <1>0, <1>2 DEF try_process_sign, reviewVars
<1>3. CASE ~Existing(m.order) /\ SignMatches(m, data)
  <2> DEFINE new == [data EXCEPT ![m.order].price = m.price]
  <2>1. m.order \in DOMAIN data
    BY <1>3 DEF SignMatches
  <2>2. IsMap(new, Order, SubmitData)
    BY <1>0, <2>1, DataFields
  <2>3. processed_signs' \subseteq Order
    BY <1>0, <1>3 DEF try_process_sign
  <2>4. CASE auto_sign_allowed(m.price, data[m.order])
    <3>1. /\ \E ok \in BOOLEAN : try_sign(m, new, ok)
          /\ UNCHANGED reviewVars
      BY <1>3, <2>4 DEF try_process_sign
    <3>2. IsMap(submit_data', Order, SubmitData) /\ sent' \in [Order -> Seq(Price)]
      BY <2>2, <3>1, TrySignType
    <3> QED BY <1>0, <2>3, <3>1, <3>2 DEF reviewVars
  <2>5. CASE ~auto_sign_allowed(m.price, data[m.order])
    <3>1. /\ submit_data' = new
          /\ process_pending_sign_prompts(visible_submit, Append(pending_sign_prompts, m),
                                          active_sign, new, review)
          /\ UNCHANGED <<waiting_submit, sent>>
      BY <1>3, <2>5 DEF try_process_sign
    <3>2. Append(pending_sign_prompts, m) \in Seq(SignNotification)
      BY <1>0, SMT
    <3>3. /\ visible_submit' \in Order \cup {None}
          /\ active_sign' \in SignNotification \cup {None}
          /\ review' \in Review \cup {None}
          /\ pending_sign_prompts' \in Seq(SignNotification)
      BY <1>0, <2>2, <3>1, <3>2, PromptsType
    <3> QED BY <1>0, <2>2, <2>3, <3>1, <3>3
  <2> QED BY <2>4, <2>5
<1> QED BY <1>1, <1>2, <1>3

LEMMA PendingType ==
    ASSUME TypeOK, PendingStep
    PROVE  TypeOK'
<1> USE DEF Pending, succeedVars, userVars
<1>0. SignTypeOK
  BY DEF TypeOK, SignTypeOK
<1>1. ASSUME NEW o \in Order, download_sign_request(o) PROVE TypeOK'
  <2>0. taken' = taken \ {o} /\ taken' \subseteq Order
    BY <1>1 DEF download_sign_request, TypeOK
  <2>1. ASSUME UNCHANGED <<submit_data, sent, reviewVars, pending_sign_requests,
                           processed_signs>>, pc' = "signs"
        PROVE  TypeOK'
    BY <1>1, <2>0, <2>1 DEF download_sign_request, TypeOK, linkVars, reviewVars
  <2>2. ASSUME NEW p \in Price, NEW q \in Price,
               try_process_sign([order |-> o, price |-> p, pset |-> q],
                                add_missing_submit_data(o, p, submit_data)),
               pc' = "signs", UNCHANGED pending_sign_requests
        PROVE  TypeOK'
    <3>1. [order |-> o, price |-> p, pset |-> q] \in SignNotification
      BY DEF SignNotification
    <3>2. IsMap(add_missing_submit_data(o, p, submit_data), Order, SubmitData)
      BY AddMissingType DEF TypeOK
    <3>3. SignTypeOK'
      BY <2>2, <3>1, <3>2, TryProcessSignType
    <3> QED BY <1>1, <2>0, <2>2, <3>3 DEF download_sign_request, TypeOK, SignTypeOK, linkVars
  <2>3. ASSUME NEW p \in Price, NEW q \in Price,
               submit_data' = add_missing_submit_data(o, p, submit_data),
               pending_sign_requests' = Append(pending_sign_requests,
                                               [order |-> o, price |-> p, pset |-> q]),
               pc' = "links", UNCHANGED <<sent, reviewVars, processed_signs>>
        PROVE  TypeOK'
    <3>1. [order |-> o, price |-> p, pset |-> q] \in SignNotification
      BY DEF SignNotification
    <3>2. IsMap(submit_data', Order, SubmitData)
      BY <2>3, AddMissingType DEF TypeOK
    <3>3. pending_sign_requests' \in Seq(SignNotification)
      BY <2>3, <3>1, SMT DEF TypeOK
    <3> QED BY <1>1, <2>0, <2>3, <3>2, <3>3
            DEF download_sign_request, TypeOK, linkVars, reviewVars
  <2> QED BY <1>1, <2>1, <2>2, <2>3 DEF download_sign_request
<1>2. CASE SignsDownloaded
  BY <1>2 DEF SignsDownloaded, TypeOK, linkVars, reviewVars
<1>3. ASSUME NEW o \in Order, LinkOrder(o),
             pending_submits' \in Seq(Order), pending_links' \in Seq(Order),
             Pending("links")
      PROVE  TypeOK'
  <2>1. /\ IsMap(active_submits', Order, Price) /\ review' \in Review \cup {None}
        /\ visible_submit' \in Order \cup {None}
        /\ UNCHANGED <<active_sign, waiting_submit, pending_sign_prompts>>
    <3>1. CASE try_process_downloaded_link(o)
      <4>1. PICK p \in Price :
              /\ review' = [order |-> o, price |-> p,
                            step |-> IF o \in Taken THEN "Quote" ELSE "Submit"]
              /\ visible_submit' = o
              /\ active_submits' = Put(active_submits, o, p)
              /\ UNCHANGED <<active_sign, waiting_submit, pending_sign_prompts>>
        BY <3>1 DEF try_process_downloaded_link
      <4>2. [order |-> o, price |-> p,
             step |-> IF o \in Taken THEN "Quote" ELSE "Submit"] \in Review
        BY DEF Review
      <4>3. IsMap(active_submits', Order, Price)
        BY <4>1, MapTypes DEF TypeOK
      <4> QED BY <4>1, <4>2, <4>3
    <3>2. CASE UNCHANGED <<active_submits, reviewVars>>
      BY <3>2 DEF TypeOK, reviewVars
    <3> QED BY <1>3, <3>1, <3>2 DEF LinkOrder
  <2> QED BY <1>3, <2>1 DEF LinkOrder, TypeOK
<1>4. CASE PendingSubmit
  <2>1. Head(pending_submits) \in Order /\ Tail(pending_submits) \in Seq(Order)
    BY <1>4, SMT DEF PendingSubmit, TypeOK
  <2> QED BY <1>3, <1>4, <2>1 DEF PendingSubmit, TypeOK
<1>5. CASE PendingLink
  <2>1. Head(pending_links) \in Order /\ Tail(pending_links) \in Seq(Order)
    BY <1>5, SMT DEF PendingLink, TypeOK
  <2> QED BY <1>3, <1>5, <2>1 DEF PendingLink, TypeOK
<1>6. CASE LinksDone
  <2>1. /\ visible_submit' \in Order \cup {None}
        /\ active_sign' \in SignNotification \cup {None}
        /\ review' \in Review \cup {None}
        /\ pending_sign_prompts' \in Seq(SignNotification)
    BY <1>0, <1>6, PromptsType DEF LinksDone, SignTypeOK
  <2> QED BY <1>6, <2>1 DEF LinksDone, TypeOK, linkVars
<1>7. CASE PendingSignRequest
  <2>1. /\ Head(pending_sign_requests) \in SignNotification
        /\ Tail(pending_sign_requests) \in Seq(SignNotification)
    BY <1>7, SMT DEF PendingSignRequest, TypeOK
  <2>2. SignTypeOK'
    BY <1>0, <1>7, <2>1, TryProcessSignType DEF PendingSignRequest, SignTypeOK
  <2> QED BY <1>7, <2>1, <2>2 DEF PendingSignRequest, TypeOK, SignTypeOK, linkVars
<1>8. CASE RequestsDone
  BY <1>8 DEF RequestsDone, TypeOK, linkVars, reviewVars
<1> QED BY <1>1, <1>2, <1>4, <1>5, <1>6, <1>7, <1>8 DEF PendingStep

LEMMA UiTail ==
    ASSUME TypeOK, fromUi /= <<>>
    PROVE  Head(fromUi) \in UiRequest /\ Tail(fromUi) \in Seq(UiRequest)
BY SMT DEF TypeOK

LEMMA PendingRequestsType ==
    ASSUME NEW signs \in SUBSET Order, process_pending_requests(signs)
    PROVE  /\ pc' \in {"idle", "signs", "links", "requests"}
           /\ taken' \subseteq Order /\ pending_signs' \subseteq Order
BY DEF process_pending_requests

LEMMA DecidedType ==
    ASSUME TypeOK, NEW sign \in SignNotification \cup {None}, Decided(sign),
           IsMap(submit_data', Order, SubmitData)
    PROVE  /\ visible_submit' \in Order \cup {None}
           /\ active_sign' \in SignNotification \cup {None}
           /\ review' \in Review \cup {None}
           /\ pending_sign_prompts' \in Seq(SignNotification)
           /\ pending_succeed' \in Seq(Order)
<1>1. process_pending_sign_prompts(None, pending_sign_prompts, sign, submit_data', review)
  BY DEF Decided
<1>2. /\ pending_sign_prompts \in Seq(SignNotification) /\ review \in Review \cup {None}
      /\ pending_succeed \in Seq(Order)
  BY DEF TypeOK
<1>3. pending_succeed' \in Seq(Order)
  BY <1>2, SMT DEF Decided, process_pending_succeed
<1> QED BY <1>1, <1>2, <1>3, PromptsType

LEMMA UiType ==
    ASSUME TypeOK, process_ui
    PROVE  TypeOK'
<1> USE DEF UiStep
<1>1. CASE process_submit_order
  <2>1. Head(fromUi) \in UiRequest /\ Tail(fromUi) \in Seq(UiRequest)
        /\ Head(fromUi).type = "Submit"
    BY <1>1, UiTail DEF process_submit_order
  <2>2. Head(fromUi).order \in Order
    BY <2>1 DEF UiRequest
  <2>3. pending_submits' \in Seq(Order)
    BY <1>1, <2>2, SMT DEF process_submit_order, TypeOK
  <2>4. /\ pc' \in {"idle", "signs", "links", "requests"}
        /\ taken' \subseteq Order /\ pending_signs' \subseteq Order
    BY <1>1, PendingRequestsType DEF process_submit_order, TypeOK
  <2> QED BY <1>1, <2>1, <2>3, <2>4 DEF process_submit_order, TypeOK, dataVars, reviewVars
<1>2. CASE process_link_order
  <2>1. Head(fromUi) \in UiRequest /\ Tail(fromUi) \in Seq(UiRequest)
        /\ Head(fromUi).type = "Link"
    BY <1>2, UiTail DEF process_link_order
  <2>2. Head(fromUi).order \in Order
    BY <2>1 DEF UiRequest
  <2>3. pending_links' \in Seq(Order)
    BY <1>2, <2>2, SMT DEF process_link_order, TypeOK
  <2>4. /\ pc' \in {"idle", "signs", "links", "requests"}
        /\ taken' \subseteq Order /\ pending_signs' \subseteq Order
    BY <1>2, PendingRequestsType DEF process_link_order, TypeOK
  <2> QED BY <1>2, <2>1, <2>3, <2>4 DEF process_link_order, TypeOK, dataVars, reviewVars
<1>3. ASSUME Decision, IsMap(submit_data', Order, SubmitData),
             IsMap(active_submits', Order, Price), sent' \in [Order -> Seq(Price)],
             psets' \subseteq Order, waiting_submit' \in Order \cup {None},
             NEW sign \in SignNotification \cup {None}, Decided(sign)
      PROVE  TypeOK'
  <2>1. Tail(fromUi) \in Seq(UiRequest)
    BY <1>3, UiTail DEF Decision
  <2>2. /\ visible_submit' \in Order \cup {None}
        /\ active_sign' \in SignNotification \cup {None}
        /\ review' \in Review \cup {None}
        /\ pending_sign_prompts' \in Seq(SignNotification)
        /\ pending_succeed' \in Seq(Order)
    BY <1>3, DecidedType
  <2> QED BY <1>3, <2>1, <2>2 DEF Decision, TypeOK, linkVars, signVars, pendVars
<1>4. CASE SubmitRejected
  <2>1. active_sign \in SignNotification \cup {None}
    BY DEF TypeOK
  <2> QED BY <1>3, <1>4, <2>1 DEF SubmitRejected, TypeOK, dataVars
<1>5. CASE SignAccepted
  <2>1. active_sign \in SignNotification
    BY <1>5 DEF SignAccepted, IsSign, TypeOK
  <2>2. IsMap(submit_data', Order, SubmitData) /\ sent' \in [Order -> Seq(Price)]
    BY <1>5, <2>1, TrySignType DEF SignAccepted, TypeOK
  <2>3. waiting_submit' \in Order \cup {None} /\ psets' \subseteq Order
        /\ IsMap(active_submits', Order, Price)
    BY <1>5 DEF SignAccepted, TypeOK
  <2> QED BY <1>3, <1>5, <2>2, <2>3 DEF SignAccepted
<1>6. ASSUME Decision PROVE Head(fromUi).order \in Order /\ Head(fromUi).auto_sign \in BOOLEAN
  <2>1. Head(fromUi) \in UiRequest /\ Head(fromUi).type = "Decision"
    BY <1>6, UiTail DEF Decision
  <2> QED BY <2>1 DEF UiRequest
<1>7. CASE SubmitUnknown
  <2>1. IsMap(active_submits', Order, Price)
    BY <1>6, <1>7 DEF SubmitUnknown, TypeOK, IsMap, Drop
  <2>2. active_sign \in SignNotification \cup {None}
    BY DEF TypeOK
  <2> QED BY <1>3, <1>7, <2>1, <2>2 DEF SubmitUnknown, TypeOK
<1>8. CASE SubmitAccepted
  <2> DEFINE o == Head(fromUi).order
  <2>0. o \in Order /\ Head(fromUi).auto_sign \in BOOLEAN
    BY <1>6, <1>8 DEF SubmitAccepted
  <2>1. IsMap(active_submits', Order, Price)
    BY <1>6, <1>8 DEF SubmitAccepted, TypeOK, IsMap, Drop
  <2>2. psets' \subseteq Order /\ waiting_submit' \in Order \cup {None}
        /\ sent' \in [Order -> Seq(Price)]
    BY <1>8, <2>0 DEF SubmitAccepted, TypeOK
  <2>3. active_submits[o] \in Price
    BY <1>8 DEF SubmitAccepted, TypeOK, IsMap
  <2>4. NewSubmitData(o, Head(fromUi).auto_sign) \in SubmitData
    BY <2>0, <2>3, SMT DEF NewSubmitData, SubmitData, SideOf
  <2>5. IsMap(submit_data', Order, SubmitData)
    <3>1. IsMap(Put(submit_data, o, NewSubmitData(o, Head(fromUi).auto_sign)), Order, SubmitData)
      BY <2>0, <2>4, MapTypes DEF TypeOK
    <3> QED BY <1>8, <3>1 DEF SubmitAccepted, TypeOK
  <2>6. active_sign \in SignNotification \cup {None}
    BY DEF TypeOK
  <2> QED BY <1>3, <1>8, <2>1, <2>2, <2>5, <2>6 DEF SubmitAccepted
<1>9. ASSUME IsMap(submit_data', Order, SubmitData), fromUi' = Tail(fromUi), fromUi /= <<>>,
             UNCHANGED <<connected, linkVars, signVars, pendVars, reviewVars, sent, psets,
                         pending_succeed, agreed, terms, autoOn, shown_succeed, final,
                         active_submits>>
      PROVE  TypeOK'
  <2>1. Tail(fromUi) \in Seq(UiRequest)
    BY <1>9, UiTail
  <2> QED BY <1>9, <2>1 DEF TypeOK, linkVars, signVars, pendVars, reviewVars
<1>10. CASE try_edit_order_price
  <2>1. Head(fromUi) \in UiRequest /\ Head(fromUi).type = "EditPrice"
    BY <1>10, UiTail DEF try_edit_order_price
  <2>2. Head(fromUi).order \in Order /\ Head(fromUi).price \in Price
    BY <2>1 DEF UiRequest
  <2>3. IsMap(submit_data', Order, SubmitData)
    <3>1. ASSUME Head(fromUi).order \in DOMAIN submit_data
          PROVE  IsMap([submit_data EXCEPT ![Head(fromUi).order].price = Head(fromUi).price],
                       Order, SubmitData)
      BY <2>2, <3>1, DataFields DEF TypeOK
    <3> QED BY <1>10, <3>1 DEF try_edit_order_price, TypeOK
  <2> QED BY <1>9, <1>10, <2>3 DEF try_edit_order_price
<1>11. CASE try_edit_order_auto_sign
  <2>1. Head(fromUi) \in UiRequest /\ Head(fromUi).type = "EditAutoSign"
    BY <1>11, UiTail DEF try_edit_order_auto_sign
  <2>2. Head(fromUi).order \in Order /\ Head(fromUi).auto_sign \in BOOLEAN
    BY <2>1 DEF UiRequest
  <2>3. IsMap(submit_data', Order, SubmitData)
    <3>1. ASSUME Head(fromUi).order \in DOMAIN submit_data
          PROVE  IsMap([submit_data EXCEPT ![Head(fromUi).order].auto_sign =
                                               Head(fromUi).auto_sign], Order, SubmitData)
      <4>1. IsMap(submit_data, Order, SubmitData)
        BY DEF TypeOK
      <4> QED BY <2>2, <3>1, <4>1, DataFields
    <3> QED BY <1>11, <3>1 DEF try_edit_order_auto_sign, TypeOK
  <2> QED BY <1>9, <1>11, <2>3 DEF try_edit_order_auto_sign
<1>12. CASE process_logout_request
  <2>1. Tail(fromUi) \in Seq(UiRequest)
    BY <1>12, UiTail DEF process_logout_request
  <2>2. IsMap(active_submits', Order, Price)
    BY <1>12, EmptyMap DEF process_logout_request
  <2> QED BY <1>12, <2>1, <2>2
          DEF process_logout_request, TypeOK, linkVars, signVars, pendVars
<1> QED BY <1>1, <1>2, <1>4, <1>5, <1>7, <1>8, <1>10, <1>11, <1>12 DEF process_ui

LEMMA SucceedType ==
    ASSUME NEW queue \in Seq(Order), process_pending_succeed(queue)
    PROVE  pending_succeed' \in Seq(Order)
BY SMT DEF process_pending_succeed

LEMMA NotificationType ==
    ASSUME TypeOK, Notification
    PROVE  TypeOK'
<1> USE DEF Notified, userVars
<1>1. ASSUME NEW m \in SignNotification, process_sign(m) PROVE TypeOK'
  <2>1. CASE try_process_sign(m, submit_data) /\
             UNCHANGED <<pendVars, pending_sign_requests, pending_signs>>
    <3>1. SignTypeOK'
      BY <2>1, TryProcessSignType DEF TypeOK
    <3> QED BY <1>1, <2>1, <3>1
            DEF process_sign, TypeOK, SignTypeOK, linkVars, pendVars
  <2>2. CASE /\ pending_sign_requests' = Append(pending_sign_requests, m)
             /\ process_pending_requests(pending_signs)
             /\ UNCHANGED <<submit_data, sent, reviewVars, processed_signs>>
    <3>1. /\ pc' \in {"idle", "signs", "links", "requests"}
          /\ taken' \subseteq Order /\ pending_signs' \subseteq Order
      BY <2>2, PendingRequestsType DEF TypeOK
    <3>2. pending_sign_requests' \in Seq(SignNotification)
      BY <2>2, SMT DEF TypeOK
    <3> QED BY <1>1, <2>2, <3>1, <3>2 DEF process_sign, TypeOK, linkVars, reviewVars
  <2> QED BY <1>1, <2>1, <2>2 DEF process_sign
<1>2. ASSUME IsMap(submit_data', Order, SubmitData), Notified,
             UNCHANGED <<connected, linkVars, signVars, pendVars, reviewVars, sent, psets,
                         pending_succeed, shown_succeed>>
      PROVE  TypeOK'
  BY <1>2 DEF TypeOK, linkVars, signVars, pendVars, reviewVars
<1>3. ASSUME NEW o \in Order, CompleteWithTxid(o) PROVE TypeOK'
  <2>1. IsMap(submit_data', Order, SubmitData)
    <3>1. ASSUME o \in DOMAIN submit_data
          PROVE  IsMap([submit_data EXCEPT ![o].txid = TRUE], Order, SubmitData)
      <4>1. IsMap(submit_data, Order, SubmitData)
        BY DEF TypeOK
      <4> QED BY <3>1, <4>1, DataFields
    <3> QED BY <1>3, <3>1 DEF CompleteWithTxid, TypeOK
  <2> QED BY <1>2, <1>3, <2>1 DEF CompleteWithTxid
<1>4. ASSUME NEW o \in Order, CompleteWithoutTxid(o) PROVE TypeOK'
  <2>1. IsMap(submit_data', Order, SubmitData)
    BY <1>4 DEF CompleteWithoutTxid, TypeOK, IsMap, Drop
  <2>2. /\ visible_submit' \in Order \cup {None}
        /\ active_sign' \in SignNotification \cup {None}
        /\ review' \in Review \cup {None}
        /\ pending_sign_prompts' \in Seq(SignNotification)
        /\ pending_succeed' \in Seq(Order) /\ waiting_submit' \in Order \cup {None}
    <3>1. CASE UNCHANGED <<reviewVars, pending_succeed>>
      BY <3>1 DEF TypeOK, reviewVars
    <3>2. CASE /\ process_pending_sign_prompts(None, pending_sign_prompts, active_sign,
                      submit_data', IF visible_submit = o THEN None ELSE review)
               /\ process_pending_succeed(pending_succeed)
               /\ UNCHANGED waiting_submit
      <4>1. /\ pending_sign_prompts \in Seq(SignNotification)
            /\ active_sign \in SignNotification \cup {None}
            /\ (IF visible_submit = o THEN None ELSE review) \in Review \cup {None}
            /\ pending_succeed \in Seq(Order) /\ waiting_submit \in Order \cup {None}
        BY DEF TypeOK
      <4>2. pending_succeed' \in Seq(Order)
        BY <3>2, <4>1, SucceedType
      <4>3. /\ visible_submit' \in Order \cup {None}
            /\ active_sign' \in SignNotification \cup {None}
            /\ review' \in Review \cup {None}
            /\ pending_sign_prompts' \in Seq(SignNotification)
        BY <2>1, <3>2, <4>1, PromptsType
      <4> QED BY <3>2, <4>1, <4>2, <4>3
    <3> QED BY <1>4, <3>1, <3>2 DEF CompleteWithoutTxid, OrderRemoved
  <2> QED BY <1>4, <2>1, <2>2 DEF CompleteWithoutTxid, TypeOK, linkVars, signVars, pendVars
<1>5. ASSUME NEW o \in Order, process_order_created(o) PROVE TypeOK'
  <2>1. IsMap(submit_data', Order, SubmitData)
    BY <1>5, AddMissingType DEF process_order_created, TypeOK
  <2> QED BY <1>2, <1>5, <2>1 DEF process_order_created
<1>6. ASSUME NEW o \in Order, process_push_message(o) PROVE TypeOK'
  <2>1. /\ pc' \in {"idle", "signs", "links", "requests"}
        /\ taken' \subseteq Order /\ pending_signs' \subseteq Order
    <3>1. pending_signs \cup {o} \in SUBSET Order
      BY DEF TypeOK
    <3> QED BY <1>6, <3>1, PendingRequestsType DEF process_push_message
  <2>2. connected' \in BOOLEAN
    BY <1>6 DEF process_push_message, TypeOK
  <2> QED BY <1>6, <2>1, <2>2 DEF process_push_message, TypeOK, linkVars, reviewVars
<1>7. ASSUME NEW o \in Order, NEW confirmed \in BOOLEAN, send_new_transactions(o, confirmed)
      PROVE  TypeOK'
  <2>1. pending_succeed \in Seq(Order) /\ Append(pending_succeed, o) \in Seq(Order)
    BY SMT DEF TypeOK
  <2>2. pending_succeed' \in Seq(Order)
    BY <1>7, <2>1, SucceedType DEF send_new_transactions
  <2>3. shown_succeed' \subseteq Order /\ final' \subseteq Order
    BY <1>7 DEF send_new_transactions, TypeOK
  <2> QED BY <1>7, <2>2, <2>3
          DEF send_new_transactions, TypeOK, linkVars, signVars, pendVars, reviewVars, dataVars
<1> QED BY <1>1, <1>3, <1>4, <1>5, <1>6, <1>7 DEF Notification

LEMMA ConnectionType ==
    ASSUME TypeOK, process_ws_connected \/ process_ws_disconnected \/ Restart
    PROVE  TypeOK'
<1>1. CASE process_ws_connected
  <2>1. IsMap(submit_data', Order, SubmitData)
    <3>1. PICK p \in [psets \ Taken -> Price] :
            submit_data' = [o \in DOMAIN submit_data \cup
                                   {q \in psets \ Taken : verify_amounts(p[q])} |->
                             IF o \in DOMAIN submit_data THEN submit_data[o]
                             ELSE add_missing_submit_data(o, p[o], submit_data)[o]]
      BY <1>1 DEF process_ws_connected
    <3>2. DOMAIN submit_data' \subseteq Order
      BY <3>1 DEF TypeOK, IsMap
    <3>3. ASSUME NEW o \in DOMAIN submit_data' PROVE submit_data'[o] \in SubmitData
      <4>1. CASE o \in DOMAIN submit_data
        BY <3>1, <4>1 DEF TypeOK, IsMap
      <4>2. CASE o \notin DOMAIN submit_data
        <5>1. o \in Order /\ p[o] \in Price /\ verify_amounts(p[o])
          BY <3>1, <3>2, <3>3, <4>2
        <5>2. IsMap(add_missing_submit_data(o, p[o], submit_data), Order, SubmitData)
          BY <5>1, AddMissingType DEF TypeOK
        <5>3. o \in DOMAIN add_missing_submit_data(o, p[o], submit_data)
          BY <4>2, <5>1 DEF add_missing_submit_data, Put
        <5> QED BY <3>1, <3>3, <4>2, <5>2, <5>3 DEF IsMap
      <4> QED BY <4>1, <4>2
    <3> QED BY <3>2, <3>3 DEF IsMap
  <2>2. /\ pc' \in {"idle", "signs", "links", "requests"}
        /\ taken' \subseteq Order /\ pending_signs' \subseteq Order
    BY <1>1, PendingRequestsType DEF process_ws_connected, TypeOK
  <2> QED BY <1>1, <2>1, <2>2
          DEF process_ws_connected, TypeOK, linkVars, reviewVars, succeedVars, userVars
<1>2. CASE process_ws_disconnected
  BY <1>2 DEF process_ws_disconnected, TypeOK, linkVars, dataVars, reviewVars,
                     signVars, pendVars, succeedVars, userVars
<1>3. CASE Restart
  <2>1. IsMap(submit_data', Order, SubmitData) /\ IsMap(active_submits', Order, Price)
    BY <1>3, EmptyMap DEF Restart
  <2>2. sent' \in [Order -> Seq(Price)]
    BY <1>3, SMT DEF Restart
  <2>3. <<>> \in Seq(SignNotification) /\ <<>> \in Seq(Order) /\ <<>> \in Seq(UiRequest)
    BY SMT
  <2> QED BY <1>3, <2>1, <2>2, <2>3 DEF Restart, TypeOK
<1> QED BY <1>1, <1>2, <1>3

LEMMA AcceptType ==
    ASSUME NEW t \in [Order -> SUBSET Price], NEW o \in Order, NEW p \in Price
    PROVE  [t EXCEPT ![o] = @ \cup {p}] \in [Order -> SUBSET Price]
OBVIOUS

LEMMA UserType ==
    ASSUME TypeOK, User
    PROVE  TypeOK'
<1> USE DEF workerVars, linkVars, dataVars, signVars, pendVars, succeedVars
<1>1. ASSUME NEW r \in UiRequest, Click(r), terms' \in [Order -> SUBSET Price],
             autoOn' \subseteq Order
      PROVE  TypeOK'
  <2>1. fromUi' \in Seq(UiRequest)
    BY <1>1, SMT DEF Click, TypeOK
  <2> QED BY <1>1, <2>1 DEF Click, TypeOK
<1>2. ASSUME NEW o \in Order, UserLinks(o) PROVE TypeOK'
  <2>1. /\ [type |-> "Submit", order |-> o] \in UiRequest
        /\ [type |-> "Link", order |-> o] \in UiRequest
    BY DEF UiRequest
  <2> QED BY <1>1, <1>2, <2>1 DEF UserLinks, TypeOK
<1>3. ASSUME NEW o \in Order, NEW p \in Price, UserEditsPrice(o, p) PROVE TypeOK'
  <2>1. [type |-> "EditPrice", order |-> o, price |-> p] \in UiRequest
    BY DEF UiRequest
  <2>2. terms' \in [Order -> SUBSET Price] /\ autoOn' \subseteq Order
    BY <1>3 DEF UserEditsPrice, TypeOK
  <2> QED BY <1>1, <1>3, <2>1, <2>2 DEF UserEditsPrice
<1>4. ASSUME NEW o \in Order, NEW on \in BOOLEAN, UserEditsAutoSign(o, on) PROVE TypeOK'
  <2>1. [type |-> "EditAutoSign", order |-> o, auto_sign |-> on] \in UiRequest
    BY DEF UiRequest
  <2>2. submit_data[o].price \in Price
    BY <1>4 DEF UserEditsAutoSign, TypeOK, IsMap, SubmitData
  <2>3. terms' \in [Order -> SUBSET Price] /\ autoOn' \subseteq Order
    <3>1. [terms EXCEPT ![o] = @ \cup {submit_data[o].price}] \in [Order -> SUBSET Price]
      BY <2>2, AcceptType DEF TypeOK
    <3> QED BY <1>4, <3>1 DEF UserEditsAutoSign, TypeOK
  <2> QED BY <1>1, <1>4, <2>1, <2>3 DEF UserEditsAutoSign
<1>5. CASE UserLogsOut
  <2>1. [type |-> "Logout", order |-> None] \in UiRequest
    BY DEF UiRequest
  <2>2. fromUi' \in Seq(UiRequest)
    BY <1>5, <2>1, SMT DEF UserLogsOut, TypeOK
  <2> QED BY <1>5, <2>2 DEF UserLogsOut, TypeOK
<1>6. ASSUME NEW accept \in BOOLEAN, NEW auto_sign \in BOOLEAN,
             UserDecides(accept, auto_sign)
      PROVE  TypeOK'
  <2>1. review \in Review /\ review.order \in Order /\ review.price \in Price
    BY <1>6 DEF UserDecides, TypeOK, Review
  <2>2. [type |-> "Decision", order |-> review.order, accept |-> accept,
         auto_sign |-> auto_sign] \in UiRequest
    BY <2>1 DEF UiRequest
  <2>3. fromUi' \in Seq(UiRequest)
    BY <1>6, <2>2, SMT DEF UserDecides, TypeOK
  <2>4. /\ agreed' \in [Order -> SUBSET Price] /\ terms' \in [Order -> SUBSET Price]
        /\ autoOn' \subseteq Order
    <3>1. /\ [agreed EXCEPT ![review.order] = @ \cup {review.price}] \in [Order -> SUBSET Price]
          /\ [terms EXCEPT ![review.order] = @ \cup {review.price}] \in [Order -> SUBSET Price]
      BY <2>1, AcceptType DEF TypeOK
    <3> QED BY <1>6, <2>1, <3>1 DEF UserDecides, TypeOK
  <2> QED BY <1>6, <2>3, <2>4 DEF UserDecides, TypeOK
<1> QED BY <1>2, <1>3, <1>4, <1>5, <1>6 DEF User, UserDecision

(* The state keeps its shape. *)
THEOREM TypeCorrect == Spec => []TypeOK
<1>1. Init => TypeOK
  <2> SUFFICES ASSUME Init PROVE TypeOK
    OBVIOUS
  <2>1. IsMap(submit_data, Order, SubmitData) /\ IsMap(active_submits, Order, Price)
    BY EmptyMap DEF Init, WorkerInit
  <2>2. sent \in [Order -> Seq(Price)] /\ agreed \in [Order -> SUBSET Price]
        /\ terms \in [Order -> SUBSET Price]
    BY SMT DEF Init, WorkerInit
  <2>3. <<>> \in Seq(SignNotification) /\ <<>> \in Seq(Order) /\ <<>> \in Seq(UiRequest)
    BY SMT
  <2> QED BY <2>1, <2>2, <2>3 DEF Init, WorkerInit, TypeOK
<1>2. TypeOK /\ [Next]_vars => TypeOK'
  <2> SUFFICES ASSUME TypeOK, [Next]_vars PROVE TypeOK'
    OBVIOUS
  <2>1. CASE Next
    BY <2>1, PendingType, UiType, NotificationType, ConnectionType, UserType DEF Next
  <2>2. CASE UNCHANGED vars
    BY <2>2 DEF vars, TypeOK, linkVars, dataVars, reviewVars, signVars, pendVars,
                succeedVars, userVars
  <2> QED BY <2>1, <2>2
<1> QED BY <1>1, <1>2, PTL DEF Spec

-----------------------------------------------------------------------------
(* Prompts and results wait only behind a visible review *)

LEMMA PromptsWait ==
    ASSUME NEW visible, NEW prompts \in Seq(SignNotification), NEW sign, NEW data,
           NEW shown,
           process_pending_sign_prompts(visible, prompts, sign, data, shown),
           visible_submit' = None
    PROVE  visible = None /\ pending_sign_prompts' = <<>>
<1>1. ASSUME NEW i \in 1..Len(prompts), Shows(i, prompts, data) PROVE FALSE
  <2>1. prompts[i] \in SignNotification
    BY SMT
  <2> QED BY <1>1, <2>1, SignAssumption DEF Shows, SignNotification
<1> QED BY <1>1, PromptsFacts

LEMMA SignWaits ==
    ASSUME TypeOK, PromptsWaitForReview, NEW m \in SignNotification, NEW data,
           try_process_sign(m, data), UNCHANGED pending_succeed
    PROVE  PromptsWaitForReview'
<1>1. CASE UNCHANGED reviewVars
  BY <1>1 DEF PromptsWaitForReview, reviewVars
<1>2. ASSUME NEW new,
             process_pending_sign_prompts(visible_submit, Append(pending_sign_prompts, m),
                                          active_sign, new, review)
      PROVE  PromptsWaitForReview'
  <2>1. Append(pending_sign_prompts, m) \in Seq(SignNotification)
    BY SMT DEF TypeOK
  <2>2. visible_submit' = None => visible_submit = None /\ pending_sign_prompts' = <<>>
    BY <1>2, <2>1, PromptsWait
  <2> QED BY <2>2 DEF PromptsWaitForReview
<1> QED BY <1>1, <1>2 DEF try_process_sign

LEMMA DecidedWaits ==
    ASSUME TypeOK, NEW sign, NEW data, NEW shown,
           process_pending_sign_prompts(None, pending_sign_prompts, sign, data, shown),
           process_pending_succeed(pending_succeed)
    PROVE  PromptsWaitForReview'
<1>1. visible_submit' = None => pending_sign_prompts' = <<>>
  BY PromptsWait DEF TypeOK
<1> QED BY <1>1 DEF PromptsWaitForReview, process_pending_succeed

LEMMA StepWaits ==
    ASSUME TypeOK, PromptsWaitForReview, Next
    PROVE  PromptsWaitForReview'
<1>0. ASSUME UNCHANGED <<visible_submit, pending_sign_prompts, pending_succeed>>
      PROVE  PromptsWaitForReview'
  BY <1>0 DEF PromptsWaitForReview
<1>1. CASE PendingStep
  <2> USE DEF Pending, succeedVars, reviewVars
  <2>1. ASSUME NEW o \in Order, download_sign_request(o) PROVE PromptsWaitForReview'
    <3>1. ASSUME NEW p \in Price, NEW q \in Price,
                 try_process_sign([order |-> o, price |-> p, pset |-> q],
                                  add_missing_submit_data(o, p, submit_data))
          PROVE  PromptsWaitForReview'
      <4>1. [order |-> o, price |-> p, pset |-> q] \in SignNotification
        BY DEF SignNotification
      <4>2. UNCHANGED pending_succeed
        BY <2>1 DEF download_sign_request
      <4> QED BY <3>1, <4>1, <4>2, SignWaits
    <3> QED BY <1>0, <2>1, <3>1 DEF download_sign_request
  <2>2. ASSUME NEW o, LinkOrder(o), Pending("links"), o \in Order
        PROVE  PromptsWaitForReview'
    BY <1>0, <2>2, SignAssumption
       DEF LinkOrder, try_process_downloaded_link, PromptsWaitForReview
  <2>3. CASE PendingSubmit
    <3>1. Head(pending_submits) \in Order
      BY <2>3, SMT DEF PendingSubmit, TypeOK
    <3> QED BY <2>2, <2>3, <3>1 DEF PendingSubmit
  <2>4. CASE PendingLink
    <3>1. Head(pending_links) \in Order
      BY <2>4, SMT DEF PendingLink, TypeOK
    <3> QED BY <2>2, <2>4, <3>1 DEF PendingLink
  <2>5. CASE LinksDone
    <3>1. visible_submit' = None => visible_submit = None /\ pending_sign_prompts' = <<>>
      BY <2>5, PromptsWait DEF LinksDone, TypeOK
    <3> QED BY <2>5, <3>1 DEF LinksDone, PromptsWaitForReview
  <2>6. CASE PendingSignRequest
    <3>1. Head(pending_sign_requests) \in SignNotification
      BY <2>6, SMT DEF PendingSignRequest, TypeOK
    <3> QED BY <2>6, <3>1, SignWaits DEF PendingSignRequest
  <2>7. CASE SignsDownloaded \/ RequestsDone
    BY <1>0, <2>7 DEF SignsDownloaded, RequestsDone
  <2> QED BY <1>1, <2>1, <2>3, <2>4, <2>5, <2>6, <2>7 DEF PendingStep
<1>2. CASE process_ui
  <2>1. CASE SubmitRejected \/ SignAccepted \/ SubmitUnknown \/ SubmitAccepted
    BY <2>1, DecidedWaits
       DEF SubmitRejected, SignAccepted, SubmitUnknown, SubmitAccepted, Decided
  <2>2. CASE process_submit_order \/ process_link_order \/ try_edit_order_price
             \/ try_edit_order_auto_sign \/ process_logout_request
    BY <1>0, <2>2 DEF process_submit_order, process_link_order, try_edit_order_price,
                      try_edit_order_auto_sign, process_logout_request, reviewVars
  <2> QED BY <1>2, <2>1, <2>2 DEF process_ui
<1>3. CASE Notification
  <2>1. ASSUME NEW m \in SignNotification, process_sign(m) PROVE PromptsWaitForReview'
    BY <1>0, <2>1, SignWaits DEF process_sign, reviewVars
  <2>2. ASSUME NEW o \in Order, CompleteWithoutTxid(o) PROVE PromptsWaitForReview'
    <3>1. OrderRemoved(o)
      BY <2>2 DEF CompleteWithoutTxid
    <3> QED BY <1>0, <3>1, DecidedWaits DEF OrderRemoved, reviewVars
  <2>3. ASSUME NEW o \in Order,
               CompleteWithTxid(o) \/ process_order_created(o) \/ process_push_message(o)
        PROVE  PromptsWaitForReview'
    BY <1>0, <2>3 DEF CompleteWithTxid, process_order_created, process_push_message,
                      reviewVars
  <2>4. ASSUME NEW o \in Order, NEW confirmed \in BOOLEAN,
               send_new_transactions(o, confirmed)
        PROVE  PromptsWaitForReview'
    BY <2>4 DEF send_new_transactions, process_pending_succeed, reviewVars,
                PromptsWaitForReview
  <2> QED BY <1>3, <2>1, <2>2, <2>3, <2>4 DEF Notification
<1>4. CASE process_ws_connected \/ process_ws_disconnected
  BY <1>0, <1>4 DEF process_ws_connected, process_ws_disconnected, reviewVars, succeedVars
<1>5. CASE Restart
  BY <1>5 DEF Restart, PromptsWaitForReview
<1>6. CASE User
  BY <1>0, <1>6 DEF User, UserLinks, UserEditsPrice, UserEditsAutoSign, UserLogsOut,
                    UserDecision, UserDecides, Click, workerVars, succeedVars
<1> QED BY <1>1, <1>2, <1>3, <1>4, <1>5, <1>6 DEF Next

(* A prompt or a result waits only while a review is visible: whatever     *)
(* ends a review (process_submit_decision, OrderRemoved) shows the next    *)
(* prompt or sends the results.                                            *)
THEOREM PromptsNeverStuck == Spec => []PromptsWaitForReview
<1>1. Init => PromptsWaitForReview
  BY DEF Init, WorkerInit, PromptsWaitForReview
<1>2. TypeOK /\ PromptsWaitForReview /\ [Next]_vars => PromptsWaitForReview'
  BY StepWaits DEF PromptsWaitForReview, vars, reviewVars, succeedVars
<1> QED BY <1>1, <1>2, TypeCorrect, PTL DEF Spec
-----------------------------------------------------------------------------
(* An order is signed once *)

(* OnceInv of the prompts, the processed orders, the sign request under    *)
(* review and the signatures given.                                        *)
PromptedIn(prompts, o) == \E i \in 1..Len(prompts) : prompts[i].order = o
OnceOn(prompts, done, sign, signatures) ==
    /\ \A i, j \in 1..Len(prompts) : prompts[i].order = prompts[j].order => i = j
    /\ \A o \in Order :
          /\ PromptedIn(prompts, o) => o \in done
          /\ o \notin done \/ PromptedIn(prompts, o) => ~(sign /= None /\ sign.order = o)
          /\ \/ o \notin done
             \/ PromptedIn(prompts, o)
             \/ sign /= None /\ sign.order = o
             => signatures[o] = <<>>
          /\ Len(signatures[o]) <= 1

LEMMA OnceIsOn ==
    /\ OnceInv <=> OnceOn(pending_sign_prompts, processed_signs, active_sign, sent)
    /\ OnceInv' <=> OnceOn(pending_sign_prompts', processed_signs', active_sign', sent')
BY DEF OnceInv, OnceOn, Prompted, PromptedIn, Fresh, IsSign

LEMMA PromptsOnce ==
    ASSUME NEW visible, NEW prompts \in Seq(SignNotification), NEW done, NEW sign,
           NEW signatures, NEW data, NEW shown,
           OnceOn(prompts, done, sign, signatures),
           process_pending_sign_prompts(visible, prompts, sign, data, shown),
           processed_signs' = done, sent' = signatures
    PROVE  OnceInv'
<1>1. CASE pending_sign_prompts' = prompts /\ active_sign' = sign
  BY <1>1, OnceIsOn
<1>2. CASE pending_sign_prompts' = <<>> /\ active_sign' = sign
  BY <1>2, OnceIsOn, SMT DEF OnceOn, PromptedIn
<1>3. ASSUME NEW i \in 1..Len(prompts), Shows(i, prompts, data)
      PROVE  OnceInv'
  <2>1. /\ Len(pending_sign_prompts') = Len(prompts) - i
        /\ \A j \in 1..Len(pending_sign_prompts') :
              j + i \in 1..Len(prompts) /\ pending_sign_prompts'[j] = prompts[j + i]
        /\ active_sign' = prompts[i]
    BY <1>3, SMT DEF Shows
  <2>2. ASSUME NEW o, PromptedIn(pending_sign_prompts', o)
        PROVE  PromptedIn(prompts, o) /\ o /= prompts[i].order
    <3>1. PICK j \in 1..Len(pending_sign_prompts') : pending_sign_prompts'[j].order = o
      BY <2>2 DEF PromptedIn
    <3>2. j + i \in 1..Len(prompts) /\ prompts[j + i].order = o /\ j + i /= i
      BY <2>1, <3>1, SMT
    <3> QED BY <3>2 DEF PromptedIn, OnceOn
  <2>3. PromptedIn(prompts, prompts[i].order)
    BY DEF PromptedIn
  <2>4. \A j, k \in 1..Len(pending_sign_prompts') :
            pending_sign_prompts'[j].order = pending_sign_prompts'[k].order => j = k
    <3> SUFFICES ASSUME NEW j \in 1..Len(pending_sign_prompts'),
                        NEW k \in 1..Len(pending_sign_prompts'),
                        pending_sign_prompts'[j].order = pending_sign_prompts'[k].order
                 PROVE  j = k
      OBVIOUS
    <3>1. /\ j + i \in 1..Len(prompts) /\ k + i \in 1..Len(prompts)
          /\ prompts[j + i].order = prompts[k + i].order
      BY <2>1
    <3>2. j + i = k + i
      BY <3>1 DEF OnceOn
    <3> QED BY <3>2, SMT
  <2>5. ASSUME NEW o \in Order
        PROVE  /\ PromptedIn(pending_sign_prompts', o) => o \in done
               /\ o \notin done \/ PromptedIn(pending_sign_prompts', o)
                  => active_sign'.order /= o
               /\ o \notin done \/ PromptedIn(pending_sign_prompts', o)
                  \/ active_sign'.order = o
                  => signatures[o] = <<>>
               /\ Len(signatures[o]) <= 1
    BY <2>1, <2>2, <2>3 DEF OnceOn
  <2> QED BY <2>4, <2>5, OnceIsOn DEF OnceOn
<1> QED BY <1>1, <1>2, <1>3, PromptsFacts

(* try_sign signs at most once more.                                       *)
LEMMA TrySignSent ==
    ASSUME NEW m, NEW data, NEW ok, try_sign(m, data, ok)
    PROVE  sent' = sent \/ sent' = [sent EXCEPT ![m.order] = Append(@, m.pset)]
BY DEF try_sign

LEMMA SignedNow ==
    ASSUME TypeOK, NEW m \in SignNotification, NEW data, NEW ok, try_sign(m, data, ok),
           sent[m.order] = <<>>
    PROVE  \A o \in Order : /\ o /= m.order => sent'[o] = sent[o]
                            /\ Len(sent'[m.order]) <= 1
<1>1. m.order \in Order /\ m.pset \in Price /\ DOMAIN sent = Order
  BY DEF SignNotification, TypeOK
<1>2. Len(Append(<<>>, m.pset)) = 1
  BY SMT
<1>3. Len(<<>>) = 0
  OBVIOUS
<1> QED BY <1>1, <1>2, <1>3, TrySignSent, SMT

LEMMA SignOnce ==
    ASSUME TypeOK, OnceInv, NEW m \in SignNotification, NEW data,
           try_process_sign(m, data)
    PROVE  OnceInv'
<1>0. /\ m.order \in Order
      /\ OnceOn(pending_sign_prompts, processed_signs, active_sign, sent)
  BY OnceIsOn DEF SignNotification
<1>1. CASE UNCHANGED <<processed_signs, sent, reviewVars>>
  BY <1>1, <1>0, OnceIsOn DEF reviewVars
<1>2. CASE /\ m.order \notin processed_signs
           /\ processed_signs' = processed_signs \cup {m.order}
           /\ UNCHANGED <<sent, reviewVars>>
  BY <1>2, <1>0, OnceIsOn DEF reviewVars, OnceOn
<1>3. ASSUME m.order \notin processed_signs,
             processed_signs' = processed_signs \cup {m.order},
             UNCHANGED reviewVars,
             NEW new, NEW ok, try_sign(m, new, ok)
      PROVE  OnceInv'
  <2>1. sent[m.order] = <<>>
    BY <1>0, <1>3 DEF OnceOn
  <2>2. \A o \in Order : /\ o /= m.order => sent'[o] = sent[o]
                         /\ Len(sent'[m.order]) <= 1
    BY <1>3, <2>1, SignedNow
  <2> QED BY <1>0, <1>3, <2>2, OnceIsOn DEF reviewVars, OnceOn
<1>4. ASSUME m.order \notin processed_signs,
             processed_signs' = processed_signs \cup {m.order},
             NEW new,
             process_pending_sign_prompts(visible_submit, Append(pending_sign_prompts, m),
                                          active_sign, new, review),
             UNCHANGED sent
      PROVE  OnceInv'
  <2> DEFINE prompts == Append(pending_sign_prompts, m)
  <2>1. prompts \in Seq(SignNotification)
    BY SMT DEF TypeOK
  <2>2. /\ Len(prompts) = Len(pending_sign_prompts) + 1
        /\ Len(pending_sign_prompts) \in Nat
        /\ \A i \in 1..Len(pending_sign_prompts) : prompts[i] = pending_sign_prompts[i]
        /\ prompts[Len(prompts)] = m
    BY SMT DEF TypeOK
  <2> HIDE DEF prompts
  <2>3. \A o : PromptedIn(prompts, o) <=> PromptedIn(pending_sign_prompts, o) \/ o = m.order
    BY <2>2, SMT DEF PromptedIn
  <2>4. ~PromptedIn(pending_sign_prompts, m.order)
    BY <1>0, <1>4 DEF OnceOn
  <2>5. \A i, j \in 1..Len(prompts) : prompts[i].order = prompts[j].order => i = j
    BY <1>0, <2>2, <2>4, SMT DEF OnceOn, PromptedIn
  <2>6. OnceOn(prompts, processed_signs', active_sign, sent')
    BY <1>0, <1>4, <2>3, <2>4, <2>5 DEF OnceOn
  <2> QED BY <1>4, <2>1, <2>6, PromptsOnce DEF prompts
<1> QED BY <1>1, <1>2, <1>3, <1>4 DEF try_process_sign, Existing

LEMMA SignAcceptedOnce ==
    ASSUME TypeOK, OnceInv, SignAccepted
    PROVE  OnceInv'
<1>1. active_sign \in SignNotification /\ active_sign.order \in Order
  BY DEF SignAccepted, IsSign, TypeOK, SignNotification
<1>2. PICK ok \in BOOLEAN : try_sign(active_sign, submit_data, ok)
  BY DEF SignAccepted
<1>3. OnceOn(pending_sign_prompts, processed_signs, active_sign, sent)
  BY OnceIsOn
<1>4. /\ active_sign.order \in processed_signs
      /\ ~PromptedIn(pending_sign_prompts, active_sign.order)
      /\ sent[active_sign.order] = <<>>
  BY <1>1, <1>3 DEF OnceOn, SignAccepted, IsSign
<1>5. \A o \in Order : /\ o /= active_sign.order => sent'[o] = sent[o]
                       /\ Len(sent'[active_sign.order]) <= 1
  BY <1>1, <1>2, <1>4, SignedNow
<1>6. OnceOn(pending_sign_prompts, processed_signs', None, sent')
  BY <1>3, <1>4, <1>5 DEF OnceOn, SignAccepted, Decision, signVars
<1> QED BY <1>6, PromptsOnce DEF SignAccepted, Decided, TypeOK

LEMMA StepOnce ==
    ASSUME TypeOK, OnceInv, Next
    PROVE  OnceInv'
<1>0. ASSUME UNCHANGED <<pending_sign_prompts, processed_signs, sent>>,
             active_sign' \in {active_sign, None}
      PROVE  OnceInv'
  BY <1>0, OnceIsOn DEF OnceOn
<1>a. ASSUME NEW visible, NEW data, NEW shown,
             process_pending_sign_prompts(visible, pending_sign_prompts, active_sign,
                                          data, shown),
             UNCHANGED <<processed_signs, sent>>
      PROVE  OnceInv'
  BY <1>a, OnceIsOn, PromptsOnce DEF TypeOK
<1>1. CASE PendingStep
  <2> USE DEF Pending, reviewVars
  <2>1. ASSUME NEW o \in Order, download_sign_request(o) PROVE OnceInv'
    <3>1. ASSUME NEW p \in Price, NEW q \in Price,
                 try_process_sign([order |-> o, price |-> p, pset |-> q],
                                  add_missing_submit_data(o, p, submit_data))
          PROVE  OnceInv'
      <4>1. [order |-> o, price |-> p, pset |-> q] \in SignNotification
        BY DEF SignNotification
      <4> QED BY <3>1, <4>1, SignOnce
    <3> QED BY <1>0, <2>1, <3>1 DEF download_sign_request
  <2>2. CASE PendingSubmit \/ PendingLink
    BY <1>0, <2>2 DEF PendingSubmit, PendingLink, LinkOrder, try_process_downloaded_link
  <2>3. CASE LinksDone
    BY <1>a, <2>3 DEF LinksDone
  <2>4. CASE PendingSignRequest
    <3>1. Head(pending_sign_requests) \in SignNotification
      BY <2>4, SMT DEF PendingSignRequest, TypeOK
    <3> QED BY <2>4, <3>1, SignOnce DEF PendingSignRequest
  <2>5. CASE SignsDownloaded \/ RequestsDone
    BY <1>0, <2>5 DEF SignsDownloaded, RequestsDone
  <2> QED BY <1>1, <2>1, <2>2, <2>3, <2>4, <2>5 DEF PendingStep
<1>2. CASE process_ui
  <2>1. CASE SubmitRejected \/ SubmitUnknown \/ SubmitAccepted
    BY <1>a, <2>1 DEF SubmitRejected, SubmitUnknown, SubmitAccepted, Decided, Decision,
                      signVars, dataVars
  <2>2. CASE process_submit_order \/ process_link_order \/ try_edit_order_price
             \/ try_edit_order_auto_sign \/ process_logout_request
    BY <1>0, <2>2 DEF process_submit_order, process_link_order, try_edit_order_price,
                      try_edit_order_auto_sign, process_logout_request, reviewVars,
                      signVars, dataVars
  <2> QED BY <1>2, <2>1, <2>2, SignAcceptedOnce DEF process_ui
<1>3. CASE Notification
  <2>1. ASSUME NEW m \in SignNotification, process_sign(m) PROVE OnceInv'
    BY <1>0, <2>1, SignOnce DEF process_sign, reviewVars
  <2>2. ASSUME NEW o \in Order, CompleteWithoutTxid(o) PROVE OnceInv'
    BY <1>0, <1>a, <2>2 DEF CompleteWithoutTxid, OrderRemoved, reviewVars, signVars
  <2>3. ASSUME NEW o \in Order,
               CompleteWithTxid(o) \/ process_order_created(o) \/ process_push_message(o)
        PROVE  OnceInv'
    BY <1>0, <2>3 DEF CompleteWithTxid, process_order_created, process_push_message,
                      reviewVars, signVars
  <2>4. ASSUME NEW o \in Order, NEW confirmed \in BOOLEAN,
               send_new_transactions(o, confirmed)
        PROVE  OnceInv'
    BY <1>0, <2>4 DEF send_new_transactions, reviewVars, signVars, dataVars
  <2> QED BY <1>3, <2>1, <2>2, <2>3, <2>4 DEF Notification
<1>4. CASE process_ws_connected \/ process_ws_disconnected
  BY <1>0, <1>4 DEF process_ws_connected, process_ws_disconnected, reviewVars, signVars,
                    dataVars
<1>5. CASE Restart
  <2>1. Len(<<>>) = 0
    OBVIOUS
  <2> QED BY <1>5, <2>1, OnceIsOn, SMT DEF Restart, OnceOn, PromptedIn
<1>6. CASE User
  BY <1>0, <1>6 DEF User, UserLinks, UserEditsPrice, UserEditsAutoSign, UserLogsOut,
                           UserDecision, UserDecides, Click, workerVars, signVars, dataVars
<1> QED BY <1>1, <1>2, <1>3, <1>4, <1>5, <1>6 DEF Next

LEMMA StartOnce == ASSUME WorkerInit PROVE OnceInv
<1>0. Len(<<>>) = 0
  OBVIOUS
<1>1. /\ pending_sign_prompts = <<>> /\ active_sign = None
      /\ sent = [o \in Order |-> <<>>] /\ processed_signs = {}
  BY DEF WorkerInit
<1>2. Len(pending_sign_prompts) = 0
  BY <1>0, <1>1
<1>3. \A o \in Order : sent[o] = <<>>
  BY <1>1
<1>4. \A o : ~PromptedIn(pending_sign_prompts, o)
  BY <1>2, SMT DEF PromptedIn
<1>5. \A o \in Order : Len(sent[o]) <= 1
  <2>1. 0 <= 1
    BY SMT
  <2> QED BY <1>0, <1>3, <2>1
<1>6. active_sign = None
  BY <1>1
<1> QED BY <1>2, <1>3, <1>4, <1>5, <1>6, OnceIsOn, SMT DEF OnceOn

LEMMA OnceInvariant == Spec => []OnceInv
<1>1. Init => OnceInv
  BY StartOnce DEF Init
<1>2. TypeOK /\ OnceInv /\ [Next]_vars => OnceInv'
  <2>1. TypeOK /\ OnceInv /\ UNCHANGED vars => OnceInv'
    BY OnceIsOn DEF vars, reviewVars, signVars, dataVars
  <2> QED BY <2>1, StepOnce
<1> QED BY <1>1, <1>2, TypeCorrect, PTL DEF Spec

(* However often and on whatever way the server asks for the signature of  *)
(* an order, the worker gives at most one in a run of the program: an      *)
(* order that is not processed, or waits for its review, or is under       *)
(* review has no signature (OnceInv).                                      *)
THEOREM AlwaysSignedOnce == Spec => []SignedOnce
<1>1. TypeOK /\ OnceInv => SignedOnce
  BY DEF TypeOK, OnceInv, SignedOnce
<1> QED BY <1>1, TypeCorrect, OnceInvariant, PTL
-----------------------------------------------------------------------------
(* Nothing is signed that the user did not agree to *)

(* AgreedInv for one order.                                                *)
AgreedOn(o) ==
    /\ Prompted(o) \/ IsSign(o) => o \notin Taken
    /\ Fresh(o) => FlowInv(o)
    /\ o \notin processed_signs => TermsInv(o)
    /\ IsSign(o) => PromptInv(o)

LEMMA AgreedParts ==
    /\ AgreedInv <=> DataInv /\ EditsInv /\ \A o \in Order : AgreedOn(o)
    /\ AgreedInv' <=> DataInv' /\ EditsInv' /\ \A o \in Order : AgreedOn(o)'
BY DEF AgreedInv, AgreedOn

(* The worker reads the first request of the UI, or none.                  *)
UiShift(n) ==
    /\ n \in {0, 1}
    /\ Len(fromUi') = Len(fromUi) - n
    /\ \A i \in 1..Len(fromUi') : i + n \in 1..Len(fromUi) /\ fromUi'[i] = fromUi[i + n]
UserQuiet == UNCHANGED <<agreed, terms, autoOn>>

LEMMA UiNoRead == ASSUME TypeOK, UNCHANGED fromUi PROVE UiShift(0)
<1>1. Len(fromUi) \in Nat
  BY SMT DEF TypeOK
<1> QED BY <1>1, SMT DEF UiShift

LEMMA UiRead ==
    ASSUME TypeOK, NEW type, UiStep(type)
    PROVE  /\ UiShift(1) /\ UserQuiet
           /\ Len(fromUi) \in Nat /\ 1 \in 1..Len(fromUi) /\ Head(fromUi) = fromUi[1]
           /\ fromUi[1] \in UiRequest /\ fromUi[1].type = type
<1>1. fromUi \in Seq(UiRequest) /\ fromUi /= <<>>
  BY DEF TypeOK, UiStep
<1>2. /\ Len(fromUi) \in Nat /\ 1 \in 1..Len(fromUi) /\ Head(fromUi) = fromUi[1]
      /\ fromUi[1] \in UiRequest
  BY <1>1, SMT
<1>3. /\ Len(Tail(fromUi)) = Len(fromUi) - 1
      /\ \A i \in 1..Len(Tail(fromUi)) : Tail(fromUi)[i] = fromUi[i + 1]
  BY <1>1, SMT
<1> QED BY <1>2, <1>3, SMT DEF UiStep, UiShift, UserQuiet

(* The entry of o is kept, with a price the user set or auto-sign the user *)
(* switched on, or it is dropped together with the server's, or one for an *)
(* order of the server is added, without auto-sign.                        *)
DataStep(o) ==
    /\ o \in psets' => o \in psets
    /\ o \in psets' /\ o \in DOMAIN submit_data => o \in DOMAIN submit_data'
    /\ o \in DOMAIN submit_data' =>
          \/ /\ o \in DOMAIN submit_data
             /\ submit_data'[o].side = submit_data[o].side
             /\ \/ submit_data'[o].price = submit_data[o].price
                \/ submit_data'[o].price \in terms[o]
             /\ submit_data'[o].auto_sign =>
                   \/ submit_data[o].auto_sign
                   \/ o \in processed_signs
                   \/ o \in autoOn /\ submit_data'[o].price \in terms[o]
          \/ /\ o \notin DOMAIN submit_data
             /\ submit_data'[o].side = "Maker"
             /\ ~submit_data'[o].auto_sign

(* The links of o that are pending only become fewer.                      *)
Fewer(o, q, new) ==
    (In(o, new) => In(o, q)) /\ (Once(o, q) => Once(o, new))

LEMMA FewerSame == ASSUME NEW o, NEW q PROVE Fewer(o, q, q)
BY DEF Fewer

LEMMA FewerTail ==
    ASSUME NEW q \in Seq(Order), q /= <<>>, NEW o
    PROVE  /\ Fewer(o, q, Tail(q))
           /\ Head(q) = o => In(o, q) /\ (Once(o, q) => ~In(o, Tail(q)))
<1>1. /\ Len(q) \in Nat /\ Len(q) >= 1 /\ Head(q) = q[1]
      /\ Len(Tail(q)) = Len(q) - 1
      /\ \A i \in 1..Len(Tail(q)) : Tail(q)[i] = q[i + 1]
  BY SMT
<1>2. \A i \in 1..Len(Tail(q)) : i + 1 \in 1..Len(q) /\ i + 1 /= 1
  BY <1>1, SMT
<1>3. Once(o, q) => Once(o, Tail(q))
  BY <1>1, <1>2, SMT DEF Once
<1>4. In(o, Tail(q)) => In(o, q)
  BY <1>1, <1>2 DEF In
<1>5. Head(q) = o => In(o, q) /\ (Once(o, q) => ~In(o, Tail(q)))
  BY <1>1, <1>2, SMT DEF In, Once
<1> QED BY <1>3, <1>4, <1>5 DEF Fewer

LEMMA AppendIn ==
    ASSUME NEW q \in Seq(Order), NEW x \in Order, NEW o
    PROVE  /\ In(o, Append(q, x)) <=> In(o, q) \/ o = x
           /\ o /= x /\ Once(o, q) => Once(o, Append(q, x))
           /\ ~In(o, q) => Once(o, Append(q, x))
<1>1. /\ Len(q) \in Nat /\ Len(Append(q, x)) = Len(q) + 1
      /\ \A i \in 1..Len(q) : Append(q, x)[i] = q[i]
      /\ Append(q, x)[Len(q) + 1] = x
  BY SMT
<1> QED BY <1>1, SMT DEF In, Once

(* The steps that leave an order's way through the user interface alone.   *)
LEMMA FlowKept ==
    ASSUME NEW o \in Order, FlowInv(o), NEW n, UiShift(n), UserQuiet, TypeOK,
           Fewer(o, pending_submits, pending_submits'),
           Fewer(o, pending_links, pending_links'),
           Reviewed(o)' => review' = review,
           o \in DOMAIN active_submits' =>
               o \in DOMAIN active_submits /\ active_submits'[o] = active_submits[o],
           o \in psets' => o \in psets
    PROVE  FlowInv(o)'
<1>0. Len(fromUi) \in Nat
  BY SMT DEF TypeOK
<1>1. /\ Once(o, pending_submits') /\ Once(o, pending_links')
      /\ In(o, pending_submits') => ~In(o, pending_links') /\ ~Reviewed(o)'
      /\ In(o, pending_links') => ~Reviewed(o)'
  BY DEF FlowInv, Fewer, Reviewed
<1>2. ASSUME NEW i \in 1..Len(fromUi'), Asks(fromUi'[i], o)
      PROVE  /\ ~In(o, pending_submits') /\ ~In(o, pending_links') /\ ~Reviewed(o)'
             /\ \A j \in 1..Len(fromUi') : Asks(fromUi'[j], o) => i = j
  <2>1. i + n \in 1..Len(fromUi) /\ Asks(fromUi[i + n], o)
    BY <1>2 DEF UiShift
  <2>2. /\ ~In(o, pending_submits) /\ ~In(o, pending_links) /\ ~Reviewed(o)
        /\ \A j \in 1..Len(fromUi) : Asks(fromUi[j], o) => i + n = j
    BY <2>1 DEF FlowInv
  <2>3. \A j \in 1..Len(fromUi') : Asks(fromUi'[j], o) => i + n = j + n
    BY <2>2 DEF UiShift
  <2>4. \A j \in 1..Len(fromUi') : Asks(fromUi'[j], o) => i = j
    BY <1>0, <2>3, SMT DEF UiShift
  <2> QED BY <2>2, <2>4 DEF Fewer, Reviewed
<1>3. Reviewed(o)' =>
          /\ review'.step /= "Sign"
          /\ o \in DOMAIN active_submits' => active_submits'[o] = review'.price
          /\ o \in Taken \/ o \notin psets'
  BY DEF FlowInv, Reviewed
<1>4. ASSUME NEW i \in 1..Len(fromUi'), Decides(fromUi'[i], o)
      PROVE  /\ o \in Taken \/ o \notin psets'
             /\ fromUi'[i].accept =>
                   /\ o \in DOMAIN active_submits' => active_submits'[o] \in terms'[o]
                   /\ fromUi'[i].auto_sign => o \in autoOn'
  BY <1>4 DEF FlowInv, UiShift, UserQuiet
<1> QED BY <1>1, <1>2, <1>3, <1>4 DEF FlowInv

(* The request of the order has been read: nothing of it is on the way.    *)
LEMMA FlowRead ==
    ASSUME NEW o \in Order, FlowInv(o), UiShift(1), TypeOK, Len(fromUi) >= 1,
           Asks(fromUi[1], o), UNCHANGED linkVars, Reviewed(o)' => review' = review
    PROVE  /\ FlowInv(o)'
           /\ \A i \in 1..Len(fromUi') : ~Asks(fromUi'[i], o)
           /\ ~In(o, pending_submits') /\ ~In(o, pending_links') /\ ~Reviewed(o)'
<1>0. Len(fromUi) \in Nat /\ 1 \in 1..Len(fromUi)
  BY SMT DEF TypeOK
<1>1. /\ ~In(o, pending_submits) /\ ~In(o, pending_links) /\ ~Reviewed(o)
      /\ \A j \in 1..Len(fromUi) : Asks(fromUi[j], o) => 1 = j
  BY <1>0 DEF FlowInv
<1>2. \A i \in 1..Len(fromUi') : ~Asks(fromUi'[i], o)
  BY <1>0, <1>1, SMT DEF UiShift
<1>3. ~In(o, pending_submits') /\ ~In(o, pending_links') /\ ~Reviewed(o)'
  BY <1>1 DEF linkVars, Reviewed
<1>4. \A i \in 1..Len(fromUi') : ~Decides(fromUi'[i], o)
  BY <1>2 DEF Asks, Decides
<1>5. Once(o, pending_submits') /\ Once(o, pending_links')
  BY DEF FlowInv, linkVars
<1> QED BY <1>2, <1>3, <1>4, <1>5 DEF FlowInv

LEMMA TermsKept ==
    ASSUME NEW o \in Order, TermsInv(o), NEW n, UiShift(n), UserQuiet, TypeOK,
           DataStep(o), o \notin processed_signs
    PROVE  TermsInv(o)'
<1>0. Len(fromUi) \in Nat
  BY SMT DEF TypeOK
<1>1. o \in DOMAIN submit_data' =>
          /\ submit_data'[o].side = "Taker" => submit_data'[o].price \in terms'[o]
          /\ o \notin Taken /\ submit_data'[o].auto_sign =>
                submit_data'[o].price \in terms'[o] /\ o \in autoOn'
  BY DEF TermsInv, DataStep, UserQuiet
<1>2. ASSUME NEW j \in 1..Len(fromUi'), TurnsOn(fromUi'[j], o)
      PROVE  /\ o \in autoOn'
             /\ \A i \in 1..(j - 1) : ~Decides(fromUi'[i], o)
             /\ o \in psets' => o \in DOMAIN submit_data' /\ submit_data'[o].price \in terms'[o]
  <2>1. PICK k \in 1..Len(fromUi) : k = j + n /\ TurnsOn(fromUi[k], o)
    BY <1>2 DEF UiShift
  <2>2. /\ o \in autoOn
        /\ \A i \in 1..(k - 1) : ~Decides(fromUi[i], o)
        /\ o \in psets => o \in DOMAIN submit_data /\ submit_data[o].price \in terms[o]
    BY <2>1 DEF TermsInv
  <2>3. \A i \in 1..(j - 1) : /\ i \in 1..Len(fromUi')
                              /\ i + n \in 1..(k - 1)
    BY <1>0, <2>1, SMT DEF UiShift
  <2>4. \A i \in 1..(j - 1) : ~Decides(fromUi'[i], o)
    BY <2>2, <2>3 DEF UiShift
  <2> QED BY <2>2, <2>4 DEF DataStep, UserQuiet
<1> QED BY <1>1, <1>2 DEF TermsInv

LEMMA PromptKept ==
    ASSUME NEW o \in Order, PromptInv(o), NEW n, UiShift(n), UserQuiet, TypeOK,
           DataStep(o), Reviewed(o)' => review' = review
    PROVE  PromptInv(o)'
<1>1. o \in psets' => o \in DOMAIN submit_data'
  BY DEF PromptInv, DataStep
<1>2. Reviewed(o)' /\ o \in psets' =>
          /\ review'.step = "Sign"
          /\ submit_data'[o].price \in terms'[o] \cup {review'.price}
  BY DEF PromptInv, DataStep, Reviewed, UserQuiet
<1>3. ASSUME NEW i \in 1..Len(fromUi'), Decides(fromUi'[i], o), fromUi'[i].accept,
             o \in psets'
      PROVE  agreed'[o] /= {} /\ submit_data'[o].price \in agreed'[o] \cup terms'[o]
  <2>1. agreed[o] /= {} /\ submit_data[o].price \in agreed[o] \cup terms[o]
    BY <1>3 DEF PromptInv, UiShift, DataStep
  <2> QED BY <1>3, <2>1 DEF PromptInv, DataStep, UserQuiet
<1> QED BY <1>1, <1>2, <1>3 DEF PromptInv

(* A review before signing that is shown now: no decision about it is on   *)
(* the way.                                                                *)
LEMMA PromptNew ==
    ASSUME NEW o \in Order, NEW n, UiShift(n), TypeOK,
           o \in DOMAIN submit_data',
           review' = [order |-> o, step |-> "Sign", price |-> submit_data'[o].price],
           \A i \in 1..Len(fromUi') : ~Decides(fromUi'[i], o)
    PROVE  PromptInv(o)'
BY DEF PromptInv
=============================================================================
