----------------------- MODULE OrderSignAgreedProofs ------------------------
(* Proofs about OrderSign: AgreedInv is kept by every step of the worker,  *)
(* of the server and of the user, and nothing is signed that the user did  *)
(* not agree to.                                                           *)
EXTENDS OrderSignProofs

(* Zenon is tried where a leaf cites no prover; SMT is cited where         *)
(* arithmetic, sequences or records are needed.                            *)
USE Zenon
-----------------------------------------------------------------------------
(* What a step of the worker does to the review before signing of o: it is *)
(* left alone, or closed, or shown now.                                    *)
ShownNow(o) ==
    /\ Fresh(o) /\ o \notin Taken /\ o \in DOMAIN submit_data'
    /\ review' = [order |-> o, step |-> "Sign", price |-> submit_data'[o].price]
PhaseStep(o) ==
    /\ processed_signs \subseteq processed_signs'
    /\ Prompted(o)' => o \notin Taken
    /\ Fresh(o)' => Fresh(o) /\ (Reviewed(o)' => review' = review)
    /\ IsSign(o)' => ShownNow(o) \/ (IsSign(o) /\ (Reviewed(o)' => review' = review))

LEMMA QuietOrder ==
    ASSUME NEW o \in Order, AgreedOn(o), TypeOK, DataInv', NEW n, UiShift(n), UserQuiet,
           PhaseStep(o),
           Fewer(o, pending_submits, pending_submits'),
           Fewer(o, pending_links, pending_links'),
           o \in DOMAIN active_submits' =>
               o \in DOMAIN active_submits /\ active_submits'[o] = active_submits[o],
           o \in psets' => o \in psets,
           o \notin processed_signs' \/ IsSign(o) => DataStep(o)
    PROVE  AgreedOn(o)'
<1>1. Prompted(o)' \/ IsSign(o)' => o \notin Taken
  BY DEF AgreedOn, PhaseStep, ShownNow
<1>2. Fresh(o)' => FlowInv(o)'
  <2>1. HAVE Fresh(o)'
  <2>2. FlowInv(o) /\ (Reviewed(o)' => review' = review)
    BY <2>1 DEF PhaseStep, AgreedOn
  <2> QED BY <2>2, FlowKept
<1>3. o \notin processed_signs' => TermsInv(o)'
  <2>1. HAVE o \notin processed_signs'
  <2>2. TermsInv(o) /\ DataStep(o) /\ o \notin processed_signs
    BY <2>1 DEF PhaseStep, AgreedOn
  <2> QED BY <2>2, TermsKept
<1>4. IsSign(o)' => PromptInv(o)'
  <2>1. CASE ShownNow(o)
    <3>1. FlowInv(o) /\ o \in psets /\ o \notin Taken
      BY <2>1 DEF ShownNow, AgreedOn, DataInv
    <3>2. \A i \in 1..Len(fromUi) : ~Decides(fromUi[i], o)
      BY <3>1 DEF FlowInv
    <3>3. \A i \in 1..Len(fromUi') : ~Decides(fromUi'[i], o)
      BY <3>2 DEF UiShift
    <3> QED BY <2>1, <3>3, PromptNew DEF ShownNow
  <2>2. CASE IsSign(o) /\ (Reviewed(o)' => review' = review)
    BY <2>2, PromptKept DEF AgreedOn
  <2> QED BY <2>1, <2>2 DEF PhaseStep
<1> QED BY <1>1, <1>2, <1>3, <1>4 DEF AgreedOn

LEMMA EditsKept ==
    ASSUME EditsInv, NEW n, UiShift(n), UserQuiet
    PROVE  EditsInv'
BY DEF EditsInv, UiShift, UserQuiet

(* active_submits only loses entries.                                      *)
SubmitsKept(o) ==
    o \in DOMAIN active_submits' =>
        o \in DOMAIN active_submits /\ active_submits'[o] = active_submits[o]

LEMMA QuietStep ==
    ASSUME TypeOK, AgreedInv, DataInv', NEW n, UiShift(n), UserQuiet,
           UNCHANGED linkVars, psets' \subseteq psets,
           \A o \in Order : /\ PhaseStep(o) /\ SubmitsKept(o)
                            /\ o \notin processed_signs' \/ IsSign(o) => DataStep(o)
    PROVE  AgreedInv'
<1>1. ASSUME NEW o \in Order PROVE AgreedOn(o)'
  <2>1. /\ Fewer(o, pending_submits, pending_submits')
        /\ Fewer(o, pending_links, pending_links')
    BY FewerSame DEF linkVars
  <2>2. AgreedOn(o)
    BY AgreedParts
  <2> QED BY <2>1, <2>2, QuietOrder DEF SubmitsKept
<1> QED BY <1>1, AgreedParts, EditsKept

LEMMA PhaseSame ==
    ASSUME NEW o \in Order, AgreedOn(o), processed_signs \subseteq processed_signs',
           UNCHANGED pending_sign_prompts, active_sign' \in {active_sign, None},
           review' \in {review, None}
    PROVE  PhaseStep(o)
BY DEF AgreedOn, PhaseStep, Prompted, Fresh, Reviewed, IsSign

LEMMA PromptsPhase ==
    ASSUME NEW o \in Order, OnceInv', NEW visible, NEW prompts \in Seq(SignNotification),
           NEW sign, sign \in {active_sign, None}, NEW shown, shown \in {review, None},
           process_pending_sign_prompts(visible, prompts, sign, submit_data', shown),
           processed_signs \subseteq processed_signs',
           PromptedIn(prompts, o) => Fresh(o) /\ o \notin Taken
    PROVE  PhaseStep(o)
<1>1. CASE /\ pending_sign_prompts' = prompts \/ pending_sign_prompts' = <<>>
           /\ active_sign' = sign /\ review' = shown
  <2>1. Prompted(o)' => PromptedIn(prompts, o)
    BY <1>1, SMT DEF Prompted, PromptedIn
  <2> QED BY <1>1, <2>1 DEF PhaseStep, Fresh, Reviewed, IsSign
<1>2. ASSUME NEW i \in 1..Len(prompts), Shows(i, prompts, submit_data')
      PROVE  PhaseStep(o)
  <2>1. /\ active_sign' = prompts[i] /\ prompts[i].order \in DOMAIN submit_data'
        /\ review' = [order |-> prompts[i].order, step |-> "Sign",
                      price |-> submit_data'[prompts[i].order].price]
        /\ Len(pending_sign_prompts') = Len(prompts) - i
        /\ \A j \in 1..Len(pending_sign_prompts') : pending_sign_prompts'[j] = prompts[j + i]
    BY <1>2 DEF Shows
  <2>2. Prompted(o)' => PromptedIn(prompts, o)
    <3>1. \A j \in 1..Len(pending_sign_prompts') : j + i \in 1..Len(prompts)
      BY <2>1, SMT
    <3> QED BY <2>1, <3>1 DEF Prompted, PromptedIn
  <2>3. prompts[i] /= None /\ prompts[i].order \in Order
    <3>1. prompts[i] \in SignNotification
      BY SMT
    <3> QED BY <3>1, SignAssumption DEF SignNotification
  <2>4. Fresh(o)' => prompts[i].order /= o
    BY <2>1, <2>3 DEF OnceInv, IsSign
  <2>5. Fresh(o)' => Fresh(o) /\ ~Reviewed(o)'
    BY <2>1, <2>2, <2>4 DEF Fresh, Reviewed
  <2>6. IsSign(o)' => prompts[i].order = o /\ PromptedIn(prompts, o)
    BY <2>1 DEF IsSign, PromptedIn
  <2>7. IsSign(o)' => ShownNow(o)
    BY <2>1, <2>6 DEF ShownNow
  <2> QED BY <2>2, <2>5, <2>7 DEF PhaseStep
<1> QED BY <1>1, <1>2, PromptsFacts

(* try_process_sign changes no entry but the price and the mark of the one *)
(* it processes now.                                                       *)
SameEntry(d, e) ==
    /\ d.side = e.side /\ d.price = e.price /\ d.auto_sign = e.auto_sign
    /\ d.index_price = e.index_price

LEMMA TrySignData ==
    ASSUME NEW m, NEW data, IsMap(data, Order, SubmitData), NEW ok, try_sign(m, data, ok)
    PROVE  /\ DOMAIN submit_data' = DOMAIN data
           /\ \A x \in DOMAIN data : SameEntry(submit_data'[x], data[x])
<1>1. CASE submit_data' = data
  BY <1>1 DEF SameEntry
<1>2. CASE m.order \in DOMAIN data /\ submit_data' = [data EXCEPT ![m.order].signed = TRUE]
  <2>1. data[m.order] \in SubmitData
    BY <1>2 DEF IsMap
  <2>2. SameEntry([data[m.order] EXCEPT !.signed = TRUE], data[m.order])
    BY <2>1 DEF SubmitData, SameEntry
  <2>3. \A x \in DOMAIN data : SameEntry(data[x], data[x])
    BY DEF SameEntry
  <2> QED BY <1>2, <2>2, <2>3
<1> QED BY <1>1, <1>2 DEF try_sign

LEMMA NewPrice ==
    ASSUME NEW data, IsMap(data, Order, SubmitData), NEW o \in DOMAIN data, NEW p \in Price
    PROVE  LET new == [data EXCEPT ![o].price = p]
           IN  /\ IsMap(new, Order, SubmitData) /\ DOMAIN new = DOMAIN data
               /\ \A x \in DOMAIN data \ {o} : new[x] = data[x]
               /\ new[o].side = data[o].side /\ new[o].price = p
               /\ new[o].auto_sign = data[o].auto_sign
               /\ new[o].index_price = data[o].index_price
<1>1. data[o] \in SubmitData
  BY DEF IsMap
<1>2. LET d == [data[o] EXCEPT !.price = p]
      IN  /\ d.side = data[o].side /\ d.price = p
          /\ d.auto_sign = data[o].auto_sign /\ d.index_price = data[o].index_price
  BY <1>1 DEF SubmitData
<1>3. IsMap([data EXCEPT ![o].price = p], Order, SubmitData)
  BY DataFields
<1> QED BY <1>2, <1>3

LEMMA SignData ==
    ASSUME TypeOK, NEW m \in SignNotification, NEW data, IsMap(data, Order, SubmitData),
           try_process_sign(m, data)
    PROVE  /\ DOMAIN submit_data' = DOMAIN data
           /\ \A x \in DOMAIN data :
                 /\ submit_data'[x].index_price = data[x].index_price
                 /\ x /= m.order \/ x \in processed_signs =>
                       SameEntry(submit_data'[x], data[x])
           /\ m.order \in processed_signs' /\ processed_signs \subseteq processed_signs'
<1> DEFINE new == [data EXCEPT ![m.order].price = m.price]
<1>1. CASE submit_data' = data
  BY <1>1 DEF try_process_sign, Existing, SameEntry
<1>2. ASSUME SignMatches(m, data), ~Existing(m.order),
             processed_signs' = processed_signs \cup {m.order},
             submit_data' = new \/ \E ok \in BOOLEAN : try_sign(m, new, ok)
      PROVE  /\ DOMAIN submit_data' = DOMAIN data
             /\ \A x \in DOMAIN data :
                   /\ submit_data'[x].index_price = data[x].index_price
                   /\ x /= m.order \/ x \in processed_signs =>
                         SameEntry(submit_data'[x], data[x])
  <2>1. m.order \in DOMAIN data /\ m.price \in Price /\ m.order \notin processed_signs
    BY <1>2 DEF SignMatches, SignNotification, Existing
  <2>2. /\ IsMap(new, Order, SubmitData) /\ DOMAIN new = DOMAIN data
        /\ \A x \in DOMAIN data \ {m.order} : new[x] = data[x]
        /\ new[m.order].index_price = data[m.order].index_price
    BY <2>1, NewPrice, SMT
  <2> HIDE DEF new
  <2>3. /\ DOMAIN submit_data' = DOMAIN new
        /\ \A x \in DOMAIN new : SameEntry(submit_data'[x], new[x])
    <3>1. CASE submit_data' = new
      BY <3>1 DEF SameEntry
    <3>2. CASE \E ok \in BOOLEAN : try_sign(m, new, ok)
      BY <2>2, <3>2, TrySignData
    <3> QED BY <1>2, <3>1, <3>2
  <2> QED BY <2>1, <2>2, <2>3 DEF SameEntry
<1>3. \/ submit_data' = data
      \/ /\ SignMatches(m, data) /\ ~Existing(m.order)
         /\ processed_signs' = processed_signs \cup {m.order}
         /\ submit_data' = new \/ \E ok \in BOOLEAN : try_sign(m, new, ok)
  BY DEF try_process_sign
<1>4. m.order \in processed_signs' /\ processed_signs \subseteq processed_signs'
  BY DEF try_process_sign, Existing
<1> QED BY <1>1, <1>2, <1>3, <1>4

LEMMA SignPhase ==
    ASSUME NEW o \in Order, TypeOK, OnceInv', AgreedOn(o),
           NEW m \in SignNotification, NEW data, try_process_sign(m, data)
    PROVE  PhaseStep(o)
<1>1. processed_signs \subseteq processed_signs'
  BY DEF try_process_sign
<1>2. CASE UNCHANGED reviewVars
  BY <1>1, <1>2, PhaseSame DEF reviewVars
<1>3. ASSUME SignMatches(m, data), ~Existing(m.order),
             ~auto_sign_allowed(m.price, data[m.order]),
             process_pending_sign_prompts(visible_submit, Append(pending_sign_prompts, m),
                                          active_sign, submit_data', review)
      PROVE  PhaseStep(o)
  <2> DEFINE prompts == Append(pending_sign_prompts, m)
  <2>1. prompts \in Seq(SignNotification)
    BY SMT DEF TypeOK
  <2>2. /\ Len(prompts) = Len(pending_sign_prompts) + 1
        /\ Len(pending_sign_prompts) \in Nat
        /\ \A i \in 1..Len(pending_sign_prompts) : prompts[i] = pending_sign_prompts[i]
        /\ prompts[Len(prompts)] = m
    BY SMT DEF TypeOK
  <2>3. m.order \notin Taken /\ m.order \notin processed_signs
    BY <1>3 DEF SignMatches, SideOf, auto_sign_allowed, Existing
  <2> HIDE DEF prompts
  <2>4. PromptedIn(prompts, o) => Prompted(o) \/ o = m.order
    BY <2>2, SMT DEF PromptedIn, Prompted
  <2>5. PromptedIn(prompts, o) => Fresh(o) /\ o \notin Taken
    BY <2>3, <2>4 DEF Fresh, AgreedOn
  <2>6. process_pending_sign_prompts(visible_submit, prompts, active_sign, submit_data',
                                     review)
    BY <1>3 DEF prompts
  <2> QED BY <1>1, <2>1, <2>5, <2>6, PromptsPhase
<1> QED BY <1>2, <1>3 DEF try_process_sign

(* Own orders the server reported are added to submit_data.                *)
Grown(data) ==
    /\ DOMAIN submit_data \subseteq DOMAIN data
    /\ \A x \in DOMAIN submit_data : data[x] = submit_data[x]
    /\ \A x \in DOMAIN data \ DOMAIN submit_data :
          /\ x \in psets
          /\ data[x].side = "Maker" /\ ~data[x].auto_sign /\ ~data[x].index_price

LEMMA GrownSame == Grown(submit_data)
BY DEF Grown

LEMMA GrownMissing ==
    ASSUME NEW o \in psets, NEW p
    PROVE  Grown(add_missing_submit_data(o, p, submit_data))
<1> DEFINE data == add_missing_submit_data(o, p, submit_data)
<1>1. /\ DOMAIN submit_data \subseteq DOMAIN data
      /\ DOMAIN data \subseteq DOMAIN submit_data \cup {o}
      /\ \A x \in DOMAIN submit_data : data[x] = submit_data[x]
      /\ o \in DOMAIN data \ DOMAIN submit_data =>
            /\ data[o].side = "Maker" /\ data[o].price = p
            /\ data[o].auto_sign = FALSE /\ data[o].index_price = FALSE
  BY DEF add_missing_submit_data, Put
<1> HIDE DEF data
<1>2. Grown(data)
  BY <1>1 DEF Grown
<1> QED BY <1>2 DEF data

LEMMA GrownData ==
    ASSUME DataInv, NEW data, Grown(data), DOMAIN submit_data' = DOMAIN data,
           UNCHANGED psets
    PROVE  /\ (\A x \in DOMAIN data : submit_data'[x].index_price = data[x].index_price)
              => DataInv'
           /\ \A o : (o \in DOMAIN data => SameEntry(submit_data'[o], data[o]))
                     => DataStep(o)
<1>1. ASSUME \A x \in DOMAIN data : submit_data'[x].index_price = data[x].index_price
      PROVE  DataInv'
  BY <1>1 DEF DataInv, Grown
<1>2. ASSUME NEW o, o \in DOMAIN data => SameEntry(submit_data'[o], data[o])
      PROVE  DataStep(o)
  BY <1>2 DEF DataStep, Grown, SameEntry
<1> QED BY <1>1, <1>2

(* The variables besides the review and submit_data.                       *)
RestKept ==
    UNCHANGED <<fromUi, agreed, terms, autoOn, pending_submits, pending_links,
                active_submits, psets>>

LEMMA RestQuiet ==
    ASSUME TypeOK, RestKept
    PROVE  /\ UiShift(0) /\ UserQuiet /\ UNCHANGED linkVars /\ psets' = psets
           /\ \A o \in Order : SubmitsKept(o)
<1>1. UiShift(0)
  BY UiNoRead DEF RestKept
<1> QED BY <1>1 DEF RestKept, UserQuiet, linkVars, SubmitsKept

LEMMA SignAgreed ==
    ASSUME TypeOK, OnceInv, OnceInv', AgreedInv, RestKept,
           NEW m \in SignNotification, NEW data, IsMap(data, Order, SubmitData),
           Grown(data), try_process_sign(m, data)
    PROVE  AgreedInv'
<1>1. /\ DOMAIN submit_data' = DOMAIN data
      /\ \A x \in DOMAIN data :
            /\ submit_data'[x].index_price = data[x].index_price
            /\ x /= m.order \/ x \in processed_signs => SameEntry(submit_data'[x], data[x])
      /\ m.order \in processed_signs' /\ processed_signs \subseteq processed_signs'
  BY SignData
<1>2. DataInv /\ \A o \in Order : AgreedOn(o)
  BY AgreedParts
<1>3. /\ UiShift(0) /\ UserQuiet /\ UNCHANGED linkVars /\ psets' = psets
      /\ \A o \in Order : SubmitsKept(o)
  BY RestQuiet
<1>4. DataInv'
  BY <1>1, <1>2, <1>3, GrownData
<1>5. ASSUME NEW o \in Order, o \notin processed_signs' \/ IsSign(o)
      PROVE  DataStep(o)
  <2>1. IsSign(o) => o \in processed_signs
    BY DEF OnceInv, Fresh
  <2>2. o \in DOMAIN data => SameEntry(submit_data'[o], data[o])
    BY <1>1, <1>5, <2>1
  <2> QED BY <1>1, <1>2, <1>3, <2>2, GrownData
<1>6. \A o \in Order : PhaseStep(o)
  BY <1>2, SignPhase
<1> QED BY <1>3, <1>4, <1>5, <1>6, QuietStep

(* submit_data grows, and the review is left alone or a prompt is shown.   *)
LEMMA ReviewAgreed ==
    ASSUME TypeOK, OnceInv', AgreedInv, RestKept, Grown(submit_data'),
           UNCHANGED processed_signs,
           \/ UNCHANGED reviewVars
           \/ process_pending_sign_prompts(visible_submit, pending_sign_prompts,
                                           active_sign, submit_data', review)
    PROVE  AgreedInv'
<1>2. DataInv /\ \A o \in Order : AgreedOn(o)
  BY AgreedParts
<1>3. /\ UiShift(0) /\ UserQuiet /\ UNCHANGED linkVars /\ psets' = psets
      /\ \A o \in Order : SubmitsKept(o)
  BY RestQuiet
<1>4. \A o : o \in DOMAIN submit_data' => SameEntry(submit_data'[o], submit_data'[o])
  BY DEF SameEntry
<1>5. DataInv' /\ \A o \in Order : DataStep(o)
  BY <1>2, <1>3, <1>4, GrownData
<1>6. ASSUME NEW o \in Order PROVE PhaseStep(o)
  <2>1. PromptedIn(pending_sign_prompts, o) => Fresh(o) /\ o \notin Taken
    BY <1>2 DEF AgreedOn, PromptedIn, Prompted, Fresh
  <2>2. CASE UNCHANGED reviewVars
    BY <1>2, <2>2, PhaseSame DEF reviewVars
  <2>3. CASE process_pending_sign_prompts(visible_submit, pending_sign_prompts,
                                          active_sign, submit_data', review)
    BY <2>1, <2>3, PromptsPhase DEF TypeOK
  <2> QED BY <2>2, <2>3
<1> QED BY <1>3, <1>5, <1>6, QuietStep

(* process_pending_requests without its links.                             *)
LEMMA PendingAgreed ==
    ASSUME TypeOK, OnceInv, OnceInv', AgreedInv, PendingStep, UNCHANGED linkVars
    PROVE  AgreedInv'
<1> USE DEF Pending, userVars, linkVars, RestKept
<1>1. ASSUME NEW o \in Order, download_sign_request(o) PROVE AgreedInv'
  <2>1. RestKept
    BY <1>1 DEF download_sign_request
  <2>2. CASE UNCHANGED <<submit_data, reviewVars, processed_signs>>
    BY <2>1, <2>2, GrownSame, ReviewAgreed
  <2>3. ASSUME o \in psets, NEW p \in Price, NEW q \in Price, NEW data,
               data = add_missing_submit_data(o, p, submit_data),
               \/ try_process_sign([order |-> o, price |-> p, pset |-> q], data)
               \/ submit_data' = data /\ UNCHANGED <<reviewVars, processed_signs>>
        PROVE  AgreedInv'
    <3>1. [order |-> o, price |-> p, pset |-> q] \in SignNotification
      BY DEF SignNotification
    <3>2. Grown(data)
      BY <2>3, GrownMissing
    <3>3. IsMap(data, Order, SubmitData)
      BY <2>3, AddMissingType DEF TypeOK
    <3>4. CASE try_process_sign([order |-> o, price |-> p, pset |-> q], data)
      BY <2>1, <3>1, <3>2, <3>3, <3>4, SignAgreed
    <3>5. CASE submit_data' = data /\ UNCHANGED <<reviewVars, processed_signs>>
      BY <2>1, <3>2, <3>5, ReviewAgreed
    <3> QED BY <2>3, <3>4, <3>5
  <2> QED BY <1>1, <2>2, <2>3 DEF download_sign_request
<1>2. CASE SignsDownloaded \/ RequestsDone
  BY <1>2, GrownSame, ReviewAgreed DEF SignsDownloaded, RequestsDone
<1>3. CASE PendingSubmit \/ PendingLink
  <2>1. pending_submits \in Seq(Order) /\ pending_links \in Seq(Order)
    BY DEF TypeOK
  <2>2. \A q \in Seq(Order) : q /= <<>> => Tail(q) /= q
    <3>1. ASSUME NEW q \in Seq(Order), q /= <<>> PROVE Len(Tail(q)) /= Len(q)
      BY <3>1, SMT
    <3> QED BY <3>1
  <2> QED BY <1>3, <2>1, <2>2 DEF PendingSubmit, PendingLink
<1>4. CASE LinksDone
  BY <1>4, GrownSame, ReviewAgreed DEF LinksDone
<1>5. CASE PendingSignRequest
  <2>1. Head(pending_sign_requests) \in SignNotification
    BY <1>5, SMT DEF PendingSignRequest, TypeOK
  <2> QED BY <1>5, <2>1, GrownSame, SignAgreed DEF PendingSignRequest, TypeOK
<1> QED BY <1>1, <1>2, <1>3, <1>4, <1>5 DEF PendingStep

(* A link of the order x has been answered: its review is shown, unless    *)
(* the request fails.                                                      *)
LEMMA LinkAgreed ==
    ASSUME TypeOK, AgreedInv, NEW x \in Order, LinkOrder(x),
           UNCHANGED <<psets, userVars>>,
           In(x, pending_submits) \/ In(x, pending_links),
           FlowInv(x) => ~In(x, pending_submits') /\ ~In(x, pending_links'),
           \A o : Fewer(o, pending_submits, pending_submits'),
           \A o : Fewer(o, pending_links, pending_links')
    PROVE  AgreedInv'
<1>1. DataInv /\ EditsInv /\ \A o \in Order : AgreedOn(o)
  BY AgreedParts
<1>2. UiShift(0) /\ UserQuiet
  BY UiNoRead DEF userVars, UserQuiet
<1>3. DataInv' /\ \A o \in Order : DataStep(o)
  BY <1>1 DEF LinkOrder, DataInv, DataStep
<1>4. EditsInv'
  BY <1>1, <1>2, EditsKept
<1>5. /\ UNCHANGED <<pending_sign_prompts, active_sign, processed_signs>>
      /\ \A o \in Order : o /= x => SubmitsKept(o) /\ (Reviewed(o)' => review' = review)
  BY SMT DEF LinkOrder, try_process_downloaded_link, reviewVars, SubmitsKept, Put, Reviewed
<1>6. ASSUME NEW o \in Order, Reviewed(o)' => review' = review, SubmitsKept(o)
      PROVE  AgreedOn(o)'
  <2>1. PhaseStep(o)
    BY <1>1, <1>5, <1>6 DEF PhaseStep, AgreedOn, Prompted, Fresh, IsSign
  <2> QED BY <1>1, <1>2, <1>3, <1>6, <2>1, QuietOrder DEF SubmitsKept
<1>7. CASE UNCHANGED <<active_submits, reviewVars>>
  BY <1>1, <1>3, <1>4, <1>6, <1>7, AgreedParts DEF SubmitsKept, reviewVars
<1>8. CASE (x \in Taken \/ x \notin psets) /\ try_process_downloaded_link(x)
  <2>1. PICK p \in Price :
            /\ review' = [order |-> x, price |-> p,
                          step |-> IF x \in Taken THEN "Quote" ELSE "Submit"]
            /\ active_submits' = Put(active_submits, x, p)
    BY <1>8 DEF try_process_downloaded_link
  <2>2. /\ review'.order = x /\ review'.price = p /\ review'.step /= "Sign"
        /\ active_submits'[x] = p
    BY <2>1 DEF Put
  <2>3. Fresh(x)' => FlowInv(x)'
    <3>1. HAVE Fresh(x)'
    <3>2. FlowInv(x)
      BY <1>1, <1>5, <3>1 DEF AgreedOn, Fresh, Prompted
    <3>3. \A i \in 1..Len(fromUi) : ~Asks(fromUi[i], x)
      BY <3>2 DEF FlowInv
    <3>4. \A i \in 1..Len(fromUi) : ~Decides(fromUi[i], x)
      BY <3>3 DEF Asks, Decides
    <3>5. ~In(x, pending_submits') /\ ~In(x, pending_links') /\ fromUi' = fromUi
      BY <3>2 DEF userVars
    <3>6. Once(x, pending_submits') /\ Once(x, pending_links')
      BY <3>2 DEF FlowInv, Fewer
    <3> QED BY <1>8, <2>2, <3>3, <3>4, <3>5, <3>6 DEF FlowInv
  <2>4. x \notin processed_signs' => TermsInv(x)'
    BY <1>1, <1>2, <1>3, <1>5, TermsKept DEF AgreedOn
  <2>5. IsSign(x)' => PromptInv(x)'
    <3>1. HAVE IsSign(x)'
    <3>2. PromptInv(x) /\ x \notin psets
      BY <1>1, <1>5, <1>8, <3>1 DEF AgreedOn, IsSign
    <3> QED BY <3>2 DEF PromptInv
  <2>6. Prompted(x)' \/ IsSign(x)' => x \notin Taken
    BY <1>1, <1>5 DEF AgreedOn, Prompted, IsSign
  <2>7. AgreedOn(x)'
    BY <2>3, <2>4, <2>5, <2>6 DEF AgreedOn
  <2> QED BY <1>1, <1>3, <1>4, <1>5, <1>6, <2>7, AgreedParts
<1> QED BY <1>7, <1>8 DEF LinkOrder

LEMMA LinksAgreed ==
    ASSUME TypeOK, AgreedInv, PendingSubmit \/ PendingLink
    PROVE  AgreedInv'
<1> USE DEF Pending
<1>0. /\ \A o : Fewer(o, pending_submits, pending_submits)
      /\ \A o : Fewer(o, pending_links, pending_links)
  BY FewerSame
<1>1. CASE PendingSubmit
  <2>1. PICK x \in Order : x = Head(pending_submits)
    BY <1>1, SMT DEF PendingSubmit, TypeOK
  <2>2. /\ \A o : Fewer(o, pending_submits, pending_submits')
        /\ In(x, pending_submits)
        /\ Once(x, pending_submits) => ~In(x, pending_submits')
    BY <1>1, <2>1, FewerTail DEF PendingSubmit, TypeOK
  <2>3. FlowInv(x) => ~In(x, pending_submits') /\ ~In(x, pending_links')
    BY <1>1, <2>2 DEF FlowInv, PendingSubmit
  <2> QED BY <1>0, <1>1, <2>1, <2>2, <2>3, LinkAgreed DEF PendingSubmit
<1>2. CASE PendingLink
  <2>1. PICK x \in Order : x = Head(pending_links)
    BY <1>2, SMT DEF PendingLink, TypeOK
  <2>2. /\ \A o : Fewer(o, pending_links, pending_links')
        /\ In(x, pending_links)
        /\ Once(x, pending_links) => ~In(x, pending_links')
    BY <1>2, <2>1, FewerTail DEF PendingLink, TypeOK
  <2>3. FlowInv(x) => ~In(x, pending_submits') /\ ~In(x, pending_links')
    BY <1>2, <2>2 DEF FlowInv, PendingLink, In
  <2> QED BY <1>0, <1>2, <2>1, <2>2, <2>3, LinkAgreed DEF PendingLink
<1> QED BY <1>1, <1>2

(* A request to open the order x becomes pending.                          *)
LEMMA OpenAgreed ==
    ASSUME TypeOK, AgreedInv, process_submit_order \/ process_link_order
    PROVE  AgreedInv'
<1>1. DataInv /\ EditsInv /\ \A o \in Order : AgreedOn(o)
  BY AgreedParts
<1>2. PICK type \in {"Submit", "Link"} : UiStep(type)
  BY DEF process_submit_order, process_link_order
<1>3. /\ UiShift(1) /\ UserQuiet
      /\ Len(fromUi) \in Nat /\ 1 \in 1..Len(fromUi) /\ Head(fromUi) = fromUi[1]
      /\ fromUi[1] \in UiRequest /\ fromUi[1].type = type
  BY <1>2, UiRead
<1>4. PICK x \in Order : x = fromUi[1].order /\ Asks(fromUi[1], x)
  BY <1>2, <1>3 DEF UiRequest, Asks
<1>5. UNCHANGED <<submit_data, active_submits, psets, processed_signs, reviewVars>>
  BY DEF process_submit_order, process_link_order, dataVars
<1>6. DataInv' /\ \A o \in Order : DataStep(o) /\ SubmitsKept(o)
  BY <1>1, <1>5 DEF DataInv, DataStep, SubmitsKept
<1>7. EditsInv'
  BY <1>1, <1>3, EditsKept
<1>8. \A o \in Order : PhaseStep(o)
  BY <1>1, <1>5, PhaseSame DEF reviewVars
<1>9. pending_submits \in Seq(Order) /\ pending_links \in Seq(Order)
  BY DEF TypeOK
<1>10. \/ /\ pending_submits' = Append(pending_submits, x)
          /\ pending_links' = pending_links
       \/ /\ pending_links' = Append(pending_links, x)
          /\ pending_submits' = pending_submits
  BY <1>3, <1>4 DEF process_submit_order, process_link_order
<1>11. ASSUME NEW o \in Order, o /= x PROVE AgreedOn(o)'
  <2>1. /\ Fewer(o, pending_submits, pending_submits')
        /\ Fewer(o, pending_links, pending_links')
    <3>1. \A q \in Seq(Order) : Fewer(o, q, Append(q, x)) /\ Fewer(o, q, q)
      BY <1>11, AppendIn, FewerSame DEF Fewer
    <3> QED BY <1>9, <1>10, <3>1
  <2> QED BY <1>1, <1>3, <1>5, <1>6, <1>8, <2>1, QuietOrder DEF SubmitsKept
<1>12. AgreedOn(x)'
  <2>1. Fresh(x)' => FlowInv(x)'
    <3>1. HAVE Fresh(x)'
    <3>2. FlowInv(x)
      BY <1>1, <1>8, <3>1 DEF AgreedOn, PhaseStep
    <3>3. /\ ~In(x, pending_submits) /\ ~In(x, pending_links) /\ ~Reviewed(x)
          /\ \A j \in 1..Len(fromUi) : Asks(fromUi[j], x) => 1 = j
      BY <1>3, <1>4, <3>2 DEF FlowInv
    <3>4. \A i \in 1..Len(fromUi') : ~Asks(fromUi'[i], x)
      BY <1>3, <3>3, SMT DEF UiShift
    <3>5. \A i \in 1..Len(fromUi') : ~Decides(fromUi'[i], x)
      BY <3>4 DEF Asks, Decides
    <3>6. ~Reviewed(x)'
      BY <1>5, <3>3 DEF Reviewed, reviewVars
    <3>7. /\ Once(x, pending_submits') /\ Once(x, pending_links')
          /\ In(x, pending_submits') => ~In(x, pending_links')
      <4>1. \A q \in Seq(Order) : ~In(x, q) => Once(x, Append(q, x))
        BY AppendIn
      <4>2. Once(x, pending_submits) /\ Once(x, pending_links)
        BY <3>2 DEF FlowInv
      <4> QED BY <1>9, <1>10, <3>3, <4>1, <4>2
    <3> QED BY <3>4, <3>5, <3>6, <3>7 DEF FlowInv
  <2>2. x \notin processed_signs' => TermsInv(x)'
    BY <1>1, <1>3, <1>5, <1>6, TermsKept DEF AgreedOn
  <2>3. IsSign(x)' => PromptInv(x)'
    BY <1>1, <1>3, <1>5, <1>6, PromptKept DEF AgreedOn, IsSign, reviewVars
  <2> QED BY <1>1, <1>5, <2>1, <2>2, <2>3 DEF AgreedOn, Prompted, IsSign, reviewVars
<1> QED BY <1>6, <1>7, <1>11, <1>12, AgreedParts

(* A decision that submits nothing: the next prompt is shown.              *)
LEMMA DecidedPhase ==
    ASSUME TypeOK, OnceInv', AgreedInv, Decision, NEW sign \in {active_sign, None},
           Decided(sign)
    PROVE  \A o \in Order : PhaseStep(o)
<1>1. ASSUME NEW o \in Order PROVE PhaseStep(o)
  <2>1. AgreedOn(o)
    BY AgreedParts
  <2>2. PromptedIn(pending_sign_prompts, o) => Fresh(o) /\ o \notin Taken
    BY <2>1 DEF AgreedOn, PromptedIn, Prompted, Fresh
  <2>3. processed_signs \subseteq processed_signs'
    BY DEF Decision, signVars
  <2> QED BY <2>2, <2>3, PromptsPhase DEF Decided, TypeOK
<1> QED BY <1>1

LEMMA DecisionAgreed ==
    ASSUME TypeOK, OnceInv, OnceInv', AgreedInv,
           SubmitRejected \/ SignAccepted \/ SubmitUnknown
    PROVE  AgreedInv'
<1>1. DataInv
  BY AgreedParts
<1>2. Decision /\ \E sign \in {active_sign, None} : Decided(sign)
  BY DEF SubmitRejected, SignAccepted, SubmitUnknown
<1>3. UiShift(1) /\ UserQuiet /\ UNCHANGED linkVars
  BY <1>2, UiRead DEF Decision
<1>4. \A o \in Order : PhaseStep(o)
  BY <1>2, DecidedPhase
<1>5. psets' = psets /\ \A o \in Order : SubmitsKept(o)
  BY DEF SubmitRejected, SignAccepted, SubmitUnknown, dataVars, SubmitsKept, Drop
<1>6. /\ DOMAIN submit_data' = DOMAIN submit_data
      /\ \A x \in DOMAIN submit_data : SameEntry(submit_data'[x], submit_data[x])
  <2>1. CASE UNCHANGED submit_data
    BY <2>1 DEF SameEntry
  <2>2. ASSUME NEW ok, try_sign(active_sign, submit_data, ok)
        PROVE  /\ DOMAIN submit_data' = DOMAIN submit_data
               /\ \A x \in DOMAIN submit_data : SameEntry(submit_data'[x], submit_data[x])
    BY <2>2, TrySignData DEF TypeOK
  <2> QED BY <2>1, <2>2 DEF SubmitRejected, SignAccepted, SubmitUnknown, dataVars
<1>7. \A x \in DOMAIN submit_data :
          submit_data'[x].index_price = submit_data[x].index_price
  BY <1>6 DEF SameEntry
<1>8. DataInv' /\ \A o \in Order : DataStep(o)
  BY <1>1, <1>5, <1>6, <1>7, GrownSame, GrownData
<1> QED BY <1>3, <1>4, <1>5, <1>8, QuietStep

(* The accepted order goes to the server: what submit_data holds of it is  *)
(* what the user accepted, and the request is no longer on the way.        *)
LEMMA SubmitAgreed ==
    ASSUME TypeOK, OnceInv, OnceInv', AgreedInv, SubmitAccepted
    PROVE  AgreedInv'
<1>1. DataInv /\ EditsInv /\ \A o \in Order : AgreedOn(o)
  BY AgreedParts
<1>2. Decision /\ Decided(active_sign)
  BY DEF SubmitAccepted
<1>3. /\ UiShift(1) /\ UserQuiet
      /\ Len(fromUi) \in Nat /\ 1 \in 1..Len(fromUi) /\ Head(fromUi) = fromUi[1]
      /\ fromUi[1] \in UiRequest /\ fromUi[1].type = "Decision"
  BY <1>2, UiRead DEF Decision
<1>4. UNCHANGED <<linkVars, processed_signs>>
  BY <1>2 DEF Decision, signVars
<1>5. PICK x \in Order : x = Head(fromUi).order /\ Decides(fromUi[1], x) /\ Asks(fromUi[1], x)
  BY <1>3 DEF UiRequest, Asks, Decides
<1>6. /\ fromUi[1].accept /\ ~IsSign(x)
      /\ x \in DOMAIN active_submits
      /\ active_submits' = Drop(active_submits, x)
      /\ \/ /\ psets' = psets \cup {x}
            /\ submit_data' = Put(submit_data, x, NewSubmitData(x, fromUi[1].auto_sign))
         \/ psets' \in {psets, psets \cup {x}} /\ submit_data' = submit_data
  BY <1>3, <1>5 DEF SubmitAccepted
<1>7. EditsInv'
  BY <1>1, <1>3, EditsKept
<1>8. \A o \in Order : PhaseStep(o)
  BY <1>2, DecidedPhase
<1>9. DataInv'
  <2>1. NewSubmitData(x, fromUi[1].auto_sign).index_price => x \in Index
    BY DEF NewSubmitData
  <2> QED BY <1>1, <1>6, <2>1 DEF DataInv, Put
<1>10. ASSUME NEW o \in Order, o /= x PROVE AgreedOn(o)'
  <2>1. SubmitsKept(o) /\ (o \in psets' => o \in psets)
    BY <1>6, <1>10 DEF SubmitsKept, Drop
  <2>2. DataStep(o)
    BY <1>6, <1>10 DEF DataStep, Put
  <2>3. /\ Fewer(o, pending_submits, pending_submits')
        /\ Fewer(o, pending_links, pending_links')
    BY <1>4, FewerSame DEF linkVars
  <2> QED BY <1>1, <1>3, <1>8, <1>9, <2>1, <2>2, <2>3, QuietOrder DEF SubmitsKept
<1>11. AgreedOn(x)'
  <2>1. Fresh(x)' => FlowInv(x)'
    <3>1. HAVE Fresh(x)'
    <3>2. FlowInv(x) /\ (Reviewed(x)' => review' = review)
      BY <1>1, <1>8, <3>1 DEF AgreedOn, PhaseStep
    <3>3. Len(fromUi) >= 1 /\ UNCHANGED linkVars
      BY <1>3, <1>4, SMT
    <3> QED BY <1>3, <1>5, <3>2, <3>3, FlowRead
  <2>2. x \notin processed_signs' => TermsInv(x)'
    <3>1. HAVE x \notin processed_signs'
    <3>2. TermsInv(x) /\ FlowInv(x)
      BY <1>1, <1>4, <3>1 DEF AgreedOn, Fresh
    <3>3. active_submits[x] \in terms[x] /\ (fromUi[1].auto_sign => x \in autoOn)
      BY <1>3, <1>5, <1>6, <3>2 DEF FlowInv
    <3>4. ASSUME NEW j \in 1..Len(fromUi'), TurnsOn(fromUi'[j], x) PROVE FALSE
      <4>1. PICK k \in 1..Len(fromUi) : k = j + 1 /\ TurnsOn(fromUi[k], x)
        BY <3>4, <1>3 DEF UiShift
      <4>2. 1 \in 1..(k - 1)
        BY <1>3, <4>1, SMT DEF UiShift
      <4>3. \A i \in 1..(k - 1) : ~Decides(fromUi[i], x)
        BY <3>2, <4>1 DEF TermsInv
      <4> QED BY <1>5, <4>2, <4>3
    <3>5. x \in DOMAIN submit_data' =>
              /\ submit_data'[x].side = "Taker" => submit_data'[x].price \in terms'[x]
              /\ x \notin Taken /\ submit_data'[x].auto_sign =>
                    submit_data'[x].price \in terms'[x] /\ x \in autoOn'
      <4>1. CASE submit_data' = submit_data
        BY <1>3, <3>2, <4>1 DEF TermsInv, UserQuiet
      <4>2. CASE submit_data' = Put(submit_data, x, NewSubmitData(x, fromUi[1].auto_sign))
        <5>1. submit_data'[x] = NewSubmitData(x, fromUi[1].auto_sign)
          BY <4>2 DEF Put
        <5>2. /\ submit_data'[x].price = active_submits[x]
              /\ submit_data'[x].auto_sign = (fromUi[1].auto_sign /\ x \notin Taken)
          BY <5>1, SMT DEF NewSubmitData
        <5> QED BY <1>3, <3>3, <5>2 DEF UserQuiet
      <4> QED BY <1>6, <4>1, <4>2
    <3> QED BY <3>4, <3>5 DEF TermsInv
  <2>3. IsSign(x)' => PromptInv(x)'
    <3>1. HAVE IsSign(x)'
    <3>2. ShownNow(x) /\ FlowInv(x)
      BY <1>1, <1>6, <1>8, <3>1 DEF AgreedOn, PhaseStep, ShownNow
    <3>3. 1 \in 1..Len(fromUi) /\ \A j \in 1..Len(fromUi) : Asks(fromUi[j], x) => 1 = j
      BY <1>3, <1>5, <3>2 DEF FlowInv
    <3>4. \A i \in 1..Len(fromUi') : ~Decides(fromUi'[i], x)
      BY <1>3, <3>3, SMT DEF UiShift, Asks, Decides
    <3> QED BY <1>3, <3>2, <3>4, PromptNew DEF ShownNow
  <2>4. Prompted(x)' \/ IsSign(x)' => x \notin Taken
    BY <1>6, <1>8 DEF PhaseStep, ShownNow
  <2> QED BY <2>1, <2>2, <2>3, <2>4 DEF AgreedOn
<1> QED BY <1>7, <1>9, <1>10, <1>11, AgreedParts

LEMMA EditAgreed ==
    ASSUME TypeOK, AgreedInv, try_edit_order_price \/ try_edit_order_auto_sign
    PROVE  AgreedInv'
<1>1. DataInv /\ EditsInv /\ \A o \in Order : AgreedOn(o)
  BY AgreedParts
<1>2. PICK type \in {"EditPrice", "EditAutoSign"} : UiStep(type)
  BY DEF try_edit_order_price, try_edit_order_auto_sign
<1>3. /\ UiShift(1) /\ UserQuiet
      /\ Len(fromUi) \in Nat /\ 1 \in 1..Len(fromUi) /\ Head(fromUi) = fromUi[1]
      /\ fromUi[1] \in UiRequest /\ fromUi[1].type = type
  BY <1>2, UiRead
<1>4. UNCHANGED <<linkVars, processed_signs, reviewVars, active_submits, psets>>
  BY DEF try_edit_order_price, try_edit_order_auto_sign, signVars
<1>5. PICK x : x = fromUi[1].order
  OBVIOUS
<1>6. ASSUME x \in DOMAIN submit_data, NEW p \in Price, p \in terms[x],
             submit_data' = [submit_data EXCEPT ![x].price = p]
      PROVE  DataInv' /\ \A o \in Order : DataStep(o)
  <2>1. /\ DOMAIN submit_data' = DOMAIN submit_data
        /\ \A o \in DOMAIN submit_data \ {x} : submit_data'[o] = submit_data[o]
        /\ submit_data'[x].side = submit_data[x].side /\ submit_data'[x].price = p
        /\ submit_data'[x].auto_sign = submit_data[x].auto_sign
        /\ submit_data'[x].index_price = submit_data[x].index_price
    <3> DEFINE new == [submit_data EXCEPT ![x].price = p]
    <3>1. IsMap(submit_data, Order, SubmitData)
      BY DEF TypeOK
    <3>2. /\ DOMAIN new = DOMAIN submit_data
          /\ \A o \in DOMAIN submit_data \ {x} : new[o] = submit_data[o]
          /\ new[x].side = submit_data[x].side /\ new[x].price = p
          /\ new[x].auto_sign = submit_data[x].auto_sign
          /\ new[x].index_price = submit_data[x].index_price
      BY <1>6, <3>1, NewPrice, SMT
    <3> QED BY <1>6, <3>2
  <2> QED BY <1>1, <1>4, <1>6, <2>1 DEF DataInv, DataStep
<1>7. ASSUME x \in DOMAIN submit_data, NEW on \in BOOLEAN,
             on /\ x \notin processed_signs => x \in autoOn /\ submit_data[x].price \in terms[x],
             submit_data' = [submit_data EXCEPT ![x].auto_sign = on]
      PROVE  DataInv' /\ \A o \in Order : DataStep(o)
  <2>1. submit_data[x] \in SubmitData
    BY <1>7 DEF TypeOK, IsMap
  <2>2. LET d == [submit_data[x] EXCEPT !.auto_sign = on]
        IN  /\ d.side = submit_data[x].side /\ d.price = submit_data[x].price
            /\ d.auto_sign = on /\ d.index_price = submit_data[x].index_price
    BY <2>1 DEF SubmitData
  <2>3. /\ DOMAIN submit_data' = DOMAIN submit_data
        /\ \A o \in DOMAIN submit_data \ {x} : submit_data'[o] = submit_data[o]
        /\ submit_data'[x].side = submit_data[x].side
        /\ submit_data'[x].price = submit_data[x].price
        /\ submit_data'[x].auto_sign = on
        /\ submit_data'[x].index_price = submit_data[x].index_price
    BY <1>7, <2>2
  <2> QED BY <1>1, <1>4, <1>7, <2>3 DEF DataInv, DataStep
<1>8. DataInv' /\ \A o \in Order : DataStep(o)
  <2>1. CASE UNCHANGED submit_data
    BY <1>1, <1>4, <2>1 DEF DataInv, DataStep
  <2>2. CASE try_edit_order_price
    <3>1. fromUi[1].price \in Price /\ fromUi[1].price \in terms[x]
      BY <1>1, <1>3, <1>5, <2>2 DEF try_edit_order_price, UiStep, EditsInv, UiRequest
    <3> QED BY <1>3, <1>5, <1>6, <2>1, <2>2, <3>1 DEF try_edit_order_price
  <2>3. CASE try_edit_order_auto_sign
    <3>1. fromUi[1].type = "EditAutoSign"
      BY <1>3, <2>3 DEF try_edit_order_auto_sign, UiStep
    <3>2. fromUi[1].auto_sign \in BOOLEAN /\ x \in Order
      BY <1>3, <1>5, <3>1 DEF UiRequest
    <3>3. CASE x \in DOMAIN submit_data
      <4>1. ASSUME fromUi[1].auto_sign, x \notin processed_signs
            PROVE  x \in autoOn /\ submit_data[x].price \in terms[x]
        <5>1. TermsInv(x) /\ TurnsOn(fromUi[1], x) /\ x \in psets
          BY <1>1, <1>5, <3>1, <3>2, <3>3, <4>1 DEF AgreedOn, TurnsOn, DataInv
        <5> QED BY <1>3, <5>1 DEF TermsInv
      <4> QED BY <1>3, <1>5, <1>7, <2>1, <2>3, <3>2, <3>3, <4>1
             DEF try_edit_order_auto_sign
    <3> QED BY <1>3, <1>5, <2>1, <2>3, <3>3 DEF try_edit_order_auto_sign
  <2> QED BY <2>2, <2>3
<1>9. \A o \in Order : PhaseStep(o) /\ SubmitsKept(o)
  BY <1>1, <1>4, PhaseSame DEF reviewVars, SubmitsKept
<1> QED BY <1>3, <1>4, <1>8, <1>9, QuietStep

LEMMA LogoutAgreed ==
    ASSUME TypeOK, AgreedInv, process_logout_request
    PROVE  AgreedInv'
<1>1. DataInv /\ \A o \in Order : AgreedOn(o)
  BY AgreedParts
<1>2. UiShift(1) /\ UserQuiet
  BY UiRead DEF process_logout_request
<1>3. /\ UNCHANGED <<linkVars, processed_signs, pending_sign_prompts, submit_data, psets>>
      /\ active_sign' = None /\ review' = None /\ active_submits' = <<>>
  BY DEF process_logout_request, signVars
<1>4. DataInv' /\ \A o \in Order : DataStep(o) /\ SubmitsKept(o)
  BY <1>1, <1>3, EmptyMap, SMT DEF DataInv, DataStep, SubmitsKept
<1>5. \A o \in Order : PhaseStep(o)
  BY <1>1, <1>3, PhaseSame
<1> QED BY <1>2, <1>3, <1>4, <1>5, QuietStep

-----------------------------------------------------------------------------
LEMMA CompleteAgreed ==
    ASSUME TypeOK, OnceInv', AgreedInv, NEW x \in Order,
           CompleteWithTxid(x) \/ CompleteWithoutTxid(x)
    PROVE  AgreedInv'
<1>1. DataInv /\ \A o \in Order : AgreedOn(o)
  BY AgreedParts
<1>2. /\ UNCHANGED <<fromUi, agreed, terms, autoOn, linkVars, active_submits,
                     processed_signs>>
      /\ psets' \subseteq psets
  BY DEF CompleteWithTxid, CompleteWithoutTxid, Notified, userVars, signVars
<1>3. UiShift(0) /\ UserQuiet /\ \A o \in Order : SubmitsKept(o)
  BY <1>2, UiNoRead DEF UserQuiet, SubmitsKept
<1>4. CASE CompleteWithTxid(x)
  <2>1. UNCHANGED <<reviewVars, psets>>
    BY <1>4 DEF CompleteWithTxid
  <2>2. /\ DOMAIN submit_data' = DOMAIN submit_data
        /\ \A o \in DOMAIN submit_data : SameEntry(submit_data'[o], submit_data[o])
    <3>1. CASE submit_data' = submit_data
      BY <3>1 DEF SameEntry
    <3>2. CASE x \in DOMAIN submit_data /\ submit_data' = [submit_data EXCEPT ![x].txid = TRUE]
      <4>1. submit_data[x] \in SubmitData
        BY <3>2 DEF TypeOK, IsMap
      <4>2. SameEntry([submit_data[x] EXCEPT !.txid = TRUE], submit_data[x])
        BY <4>1 DEF SubmitData, SameEntry
      <4>3. \A o \in DOMAIN submit_data : SameEntry(submit_data[o], submit_data[o])
        BY DEF SameEntry
      <4> QED BY <3>2, <4>2, <4>3
    <3> QED BY <1>4, <3>1, <3>2 DEF CompleteWithTxid
  <2>3. \A o \in DOMAIN submit_data :
            submit_data'[o].index_price = submit_data[o].index_price
    BY <2>2 DEF SameEntry
  <2>4. DataInv' /\ \A o \in Order : DataStep(o)
    BY <1>1, <2>1, <2>2, <2>3, GrownSame, GrownData
  <2>5. \A o \in Order : PhaseStep(o)
    BY <1>1, <1>2, <2>1, PhaseSame DEF reviewVars
  <2> QED BY <1>2, <1>3, <2>4, <2>5, QuietStep
<1>5. CASE CompleteWithoutTxid(x)
  <2>1. psets' = psets \ {x} /\ submit_data' = Drop(submit_data, x) /\ OrderRemoved(x)
    BY <1>5 DEF CompleteWithoutTxid
  <2>2. DataInv' /\ \A o \in Order : DataStep(o)
    BY <1>1, <2>1 DEF DataInv, DataStep, Drop
  <2>3. ASSUME NEW o \in Order PROVE PhaseStep(o)
    <3>1. PromptedIn(pending_sign_prompts, o) => Fresh(o) /\ o \notin Taken
      BY <1>1 DEF AgreedOn, PromptedIn, Prompted, Fresh
    <3>2. CASE UNCHANGED reviewVars
      BY <1>1, <1>2, <3>2, PhaseSame DEF reviewVars
    <3>3. ASSUME NEW shown, shown \in {review, None},
                 process_pending_sign_prompts(None, pending_sign_prompts, active_sign,
                                              submit_data', shown)
          PROVE  PhaseStep(o)
      BY <1>2, <3>1, <3>3, PromptsPhase DEF TypeOK
    <3> QED BY <2>1, <3>2, <3>3 DEF OrderRemoved
  <2> QED BY <1>2, <1>3, <2>2, <2>3, QuietStep
<1> QED BY <1>4, <1>5

LEMMA OutsideAgreed ==
    ASSUME TypeOK, OnceInv, OnceInv', AgreedInv,
           Notification \/ process_ws_connected \/ process_ws_disconnected
    PROVE  AgreedInv'
<1> USE DEF userVars, linkVars, dataVars, RestKept
<1>1. ASSUME NEW m \in SignNotification, process_sign(m) PROVE AgreedInv'
  <2>1. RestKept
    BY <1>1 DEF process_sign, Notified
  <2>2. CASE try_process_sign(m, submit_data)
    BY <2>1, <2>2, GrownSame, SignAgreed DEF TypeOK
  <2>3. CASE UNCHANGED <<submit_data, reviewVars, processed_signs>>
    BY <2>1, <2>3, GrownSame, ReviewAgreed
  <2> QED BY <1>1, <2>2, <2>3 DEF process_sign
<1>2. ASSUME NEW o \in Order, process_order_created(o) PROVE AgreedInv'
  <2>1. Grown(submit_data')
    BY <1>2, GrownMissing DEF process_order_created
  <2> QED BY <1>2, <2>1, ReviewAgreed DEF process_order_created, Notified, signVars
<1>3. ASSUME NEW o \in Order, process_push_message(o) PROVE AgreedInv'
  BY <1>3, GrownSame, ReviewAgreed DEF process_push_message, Notified
<1>4. ASSUME NEW o \in Order, NEW confirmed \in BOOLEAN, send_new_transactions(o, confirmed)
      PROVE  AgreedInv'
  BY <1>4, GrownSame, ReviewAgreed DEF send_new_transactions, signVars
<1>5. CASE process_ws_connected
  <2>1. PICK p \in [psets \ Taken -> Price] :
            submit_data' = [o \in DOMAIN submit_data \cup
                                    {q \in psets \ Taken : verify_amounts(p[q])} |->
                              IF o \in DOMAIN submit_data THEN submit_data[o]
                              ELSE add_missing_submit_data(o, p[o], submit_data)[o]]
    BY <1>5 DEF process_ws_connected
  <2>2. \A q \in psets : Grown(add_missing_submit_data(q, p[q], submit_data))
    BY GrownMissing
  <2>3. ASSUME NEW q \in psets \ Taken, verify_amounts(p[q]), q \notin DOMAIN submit_data
        PROVE  q \in DOMAIN add_missing_submit_data(q, p[q], submit_data)
    BY <2>3 DEF add_missing_submit_data, Put
  <2>4. Grown(submit_data')
    BY <2>1, <2>2, <2>3 DEF Grown
  <2> QED BY <1>5, <2>4, ReviewAgreed DEF process_ws_connected
<1>6. CASE process_ws_disconnected
  BY <1>6, GrownSame, ReviewAgreed DEF process_ws_disconnected, signVars
<1> QED BY <1>1, <1>2, <1>3, <1>4, <1>5, <1>6, CompleteAgreed DEF Notification

(* The user sends a request; the worker does nothing yet.                  *)
UiAppend(r) ==
    /\ Len(fromUi) \in Nat /\ Len(fromUi') = Len(fromUi) + 1
    /\ \A i \in 1..Len(fromUi) : fromUi'[i] = fromUi[i]
    /\ fromUi'[Len(fromUi) + 1] = r
UserKept ==
    /\ UNCHANGED <<submit_data, active_submits, psets, linkVars, processed_signs,
                   pending_sign_prompts, active_sign>>
    /\ review' \in {review, None}
    /\ \A o \in Order : agreed[o] \subseteq agreed'[o] /\ terms[o] \subseteq terms'[o]
    /\ autoOn \subseteq autoOn'

LEMMA UiAppended ==
    ASSUME TypeOK, NEW r, fromUi' = Append(fromUi, r)
    PROVE  UiAppend(r)
<1>1. fromUi \in Seq(UiRequest)
  BY DEF TypeOK
<1> QED BY <1>1, SMT DEF UiAppend

LEMMA UserAgreed ==
    ASSUME TypeOK, AgreedInv, NEW r, UiAppend(r), UserKept,
           r.type = "EditPrice" => r.price \in terms'[r.order],
           r.type \in {"EditPrice", "EditAutoSign"} => r.order \notin Taken,
           \A o \in Order :
              /\ TurnsOn(r, o) => /\ o \in autoOn' /\ o \in DOMAIN submit_data \ Taken
                                  /\ submit_data[o].price \in terms'[o]
              /\ Decides(r, o) /\ r.accept /\ IsSign(o) /\ o \in psets =>
                    /\ agreed'[o] /= {}
                    /\ PromptInv(o) => submit_data[o].price \in agreed'[o] \cup terms'[o]
              /\ Asks(r, o) /\ FlowInv(o) => FlowInv(o)'
    PROVE  AgreedInv'
<1>1. DataInv /\ EditsInv /\ \A o \in Order : AgreedOn(o)
  BY AgreedParts
<1>2. DataInv'
  BY <1>1 DEF DataInv, UserKept
<1>3. EditsInv'
  <2>1. ASSUME NEW i \in 1..Len(fromUi')
        PROVE  /\ fromUi'[i].type = "EditPrice" =>
                     fromUi'[i].price \in terms'[fromUi'[i].order]
               /\ fromUi'[i].type \in {"EditPrice", "EditAutoSign"} =>
                     fromUi'[i].order \notin Taken
    <3>1. CASE i \in 1..Len(fromUi)
      <4>1. fromUi[i] \in UiRequest /\ fromUi'[i] = fromUi[i]
        BY <3>1, SMT DEF TypeOK, UiAppend
      <4>2. fromUi[i].type = "EditPrice" => fromUi[i].order \in Order
        BY <4>1 DEF UiRequest
      <4> QED BY <1>1, <3>1, <4>1, <4>2 DEF EditsInv, UserKept
    <3>2. CASE i = Len(fromUi) + 1
      BY <3>2 DEF UiAppend
    <3> QED BY <3>1, <3>2, SMT DEF UiAppend
  <2> QED BY <2>1 DEF EditsInv
<1>4. ASSUME NEW o \in Order PROVE AgreedOn(o)'
  <2>0. AgreedOn(o) /\ (Fresh(o)' <=> Fresh(o)) /\ (IsSign(o)' <=> IsSign(o))
    BY <1>1 DEF UserKept, Fresh, Prompted, IsSign
  <2>1. ASSUME FlowInv(o), ~Asks(r, o) PROVE FlowInv(o)'
    <3>1. \A i \in 1..Len(fromUi') : Asks(fromUi'[i], o) \/ Decides(fromUi'[i], o) =>
              i \in 1..Len(fromUi) /\ fromUi'[i] = fromUi[i]
      BY <2>1, SMT DEF UiAppend, Asks, Decides
    <3>2. Reviewed(o)' => Reviewed(o) /\ review' = review
      BY DEF UserKept, Reviewed
    <3> QED BY <2>1, <3>1, <3>2 DEF FlowInv, UserKept, linkVars
  <2>2. ASSUME o \notin processed_signs PROVE TermsInv(o)'
    <3>1. TermsInv(o) /\ FlowInv(o)
      BY <2>0, <2>2 DEF AgreedOn, Fresh
    <3>2. ASSUME NEW j \in 1..Len(fromUi'), TurnsOn(fromUi'[j], o)
          PROVE  /\ o \in autoOn'
                 /\ \A i \in 1..(j - 1) : ~Decides(fromUi'[i], o)
                 /\ o \in psets' =>
                       o \in DOMAIN submit_data' /\ submit_data'[o].price \in terms'[o]
      <4>1. CASE j \in 1..Len(fromUi)
        <5>1. TurnsOn(fromUi[j], o) /\ \A i \in 1..(j - 1) : fromUi'[i] = fromUi[i]
          BY <3>2, <4>1, SMT DEF UiAppend
        <5> QED BY <3>1, <4>1, <5>1 DEF TermsInv, UserKept
      <4>2. CASE j = Len(fromUi) + 1
        <5>1. o \in DOMAIN submit_data \ Taken /\ o \in psets
          BY <1>1, <3>2, <4>2 DEF UiAppend, DataInv
        <5>2. \A i \in 1..Len(fromUi) : ~Decides(fromUi[i], o)
          BY <3>1, <5>1 DEF FlowInv
        <5>3. \A i \in 1..(j - 1) : ~Decides(fromUi'[i], o)
          BY <4>2, <5>2, SMT DEF UiAppend
        <5> QED BY <3>2, <4>2, <5>3 DEF UiAppend, UserKept
      <4> QED BY <4>1, <4>2, SMT DEF UiAppend
    <3> QED BY <3>1, <3>2 DEF TermsInv, UserKept
  <2>3. ASSUME IsSign(o) PROVE PromptInv(o)'
    <3>1. PromptInv(o)
      BY <2>0, <2>3 DEF AgreedOn
    <3>2. ASSUME NEW i \in 1..Len(fromUi'), Decides(fromUi'[i], o), fromUi'[i].accept,
                 o \in psets'
          PROVE  agreed'[o] /= {} /\ submit_data'[o].price \in agreed'[o] \cup terms'[o]
      <4>1. CASE i \in 1..Len(fromUi)
        BY <3>1, <3>2, <4>1 DEF PromptInv, UserKept, UiAppend
      <4>2. CASE i = Len(fromUi) + 1
        BY <2>3, <3>1, <3>2, <4>2 DEF UserKept, UiAppend
      <4> QED BY <4>1, <4>2, SMT DEF UiAppend
    <3> QED BY <3>1, <3>2 DEF PromptInv, UserKept, Reviewed
  <2>4. Prompted(o)' \/ IsSign(o)' => o \notin Taken
    BY <2>0 DEF AgreedOn, UserKept, Prompted
  <2> QED BY <2>0, <2>1, <2>2, <2>3, <2>4 DEF AgreedOn, UserKept
<1> QED BY <1>2, <1>3, <1>4, AgreedParts

LEMMA UserStepAgreed ==
    ASSUME TypeOK, AgreedInv, User, ~Relinks
    PROVE  AgreedInv'
<1> USE DEF workerVars, dataVars, signVars
<1>0. /\ agreed \in [Order -> SUBSET Price] /\ terms \in [Order -> SUBSET Price]
      /\ fromUi \in Seq(UiRequest)
  BY DEF TypeOK
<1>1. ASSUME NEW x \in Order, UserLinks(x) PROVE AgreedInv'
  <2>1. PICK type \in {"Submit", "Link"} : Click([type |-> type, order |-> x])
    BY <1>1 DEF UserLinks
  <2> DEFINE r == [type |-> type, order |-> x]
  <2>2. UiAppend(r) /\ UserKept
    BY <1>1, <2>1, UiAppended DEF Click, UserLinks, UserKept
  <2>3. r.type = type /\ r.order = x
    OBVIOUS
  <2> HIDE DEF r
  <2>4. ASSUME NEW o \in Order, Asks(r, o) PROVE FlowInv(o)'
    <3>1. o = x /\ ~InHand(x) /\ review' = None /\ ~Decides(r, o)
      BY <1>1, <2>1, <2>3, <2>4 DEF Asks, Decides, UserLinks, Click
    <3>2. ~In(o, pending_submits') /\ ~In(o, pending_links') /\ ~Reviewed(o)'
      BY <2>2, <3>1 DEF InHand, In, UserKept, linkVars, Reviewed
    <3>3. \A i \in 1..Len(fromUi') : Asks(fromUi'[i], o) \/ Decides(fromUi'[i], o) =>
              i = Len(fromUi) + 1 /\ fromUi'[i] = r
      BY <2>2, <3>1, SMT DEF InHand, UiAppend, Asks, Decides
    <3>4. Once(o, pending_submits') /\ Once(o, pending_links')
      BY <3>2 DEF In, Once
    <3> QED BY <3>1, <3>2, <3>3, <3>4 DEF FlowInv
  <2>5. /\ r.type \notin {"EditPrice", "EditAutoSign"}
        /\ \A o : ~TurnsOn(r, o) /\ ~Decides(r, o)
    BY <2>1, <2>3 DEF TurnsOn, Decides
  <2> QED BY <2>2, <2>4, <2>5, UserAgreed
<1>2. ASSUME NEW x \in Order, NEW p \in Price, UserEditsPrice(x, p) PROVE AgreedInv'
  <2> DEFINE r == [type |-> "EditPrice", order |-> x, price |-> p]
  <2>1. /\ UiAppend(r) /\ x \notin Taken
        /\ terms' = [terms EXCEPT ![x] = @ \cup {p}]
        /\ UNCHANGED <<agreed, autoOn>>
    BY <1>2, UiAppended DEF Click, UserEditsPrice
  <2>2. p \in terms'[x] /\ \A o \in Order : terms[o] \subseteq terms'[o]
    BY <1>0, <2>1
  <2>3. UserKept
    BY <1>2, <2>1, <2>2 DEF Click, UserEditsPrice, UserKept
  <2>4. r.type = "EditPrice" /\ r.order = x /\ r.price = p
    OBVIOUS
  <2> HIDE DEF r
  <2>5. \A o : ~TurnsOn(r, o) /\ ~Decides(r, o) /\ ~Asks(r, o)
    BY <2>4 DEF TurnsOn, Decides, Asks
  <2> QED BY <2>1, <2>2, <2>3, <2>4, <2>5, UserAgreed
<1>3. ASSUME NEW x \in Order, NEW on \in BOOLEAN, UserEditsAutoSign(x, on)
      PROVE  AgreedInv'
  <2> DEFINE r == [type |-> "EditAutoSign", order |-> x, auto_sign |-> on]
  <2>1. /\ UiAppend(r) /\ x \in DOMAIN submit_data \ Taken
        /\ UNCHANGED agreed
        /\ \/ /\ on
              /\ terms' = [terms EXCEPT ![x] = @ \cup {submit_data[x].price}]
              /\ autoOn' = autoOn \cup {x}
           \/ ~on /\ UNCHANGED <<terms, autoOn>>
    BY <1>3, UiAppended DEF Click, UserEditsAutoSign
  <2>2. /\ on => submit_data[x].price \in terms'[x] /\ x \in autoOn'
        /\ \A o \in Order : terms[o] \subseteq terms'[o]
        /\ autoOn \subseteq autoOn'
    BY <1>0, <2>1
  <2>3. UserKept
    BY <1>3, <2>1, <2>2 DEF Click, UserEditsAutoSign, UserKept
  <2>4. r.type = "EditAutoSign" /\ r.order = x /\ r.auto_sign = on
    OBVIOUS
  <2> HIDE DEF r
  <2>5. \A o : /\ TurnsOn(r, o) => o = x /\ on
               /\ ~Decides(r, o) /\ ~Asks(r, o)
    BY <2>4 DEF TurnsOn, Decides, Asks
  <2> QED BY <2>1, <2>2, <2>3, <2>4, <2>5, UserAgreed
<1>4. CASE UserLogsOut
  <2> DEFINE r == [type |-> "Logout", order |-> None]
  <2>1. UiAppend(r) /\ UserKept
    BY <1>4, UiAppended DEF UserLogsOut, UserKept
  <2>2. r.type = "Logout"
    OBVIOUS
  <2> HIDE DEF r
  <2>3. \A o : ~TurnsOn(r, o) /\ ~Decides(r, o) /\ ~Asks(r, o)
    BY <2>2 DEF TurnsOn, Decides, Asks
  <2> QED BY <2>1, <2>2, <2>3, UserAgreed
<1>5. ASSUME NEW accept \in BOOLEAN, NEW auto_sign \in BOOLEAN,
             UserDecides(accept, auto_sign)
      PROVE  AgreedInv'
  <2>1. PICK x \in Order : x = review.order /\ Reviewed(x) /\ review.price \in Price
    BY <1>5 DEF UserDecides, TypeOK, Review, Reviewed
  <2> DEFINE r == [type |-> "Decision", order |-> x, accept |-> accept,
                   auto_sign |-> auto_sign]
  <2>2. /\ UiAppend(r) /\ review' = None
        /\ \/ /\ accept /\ review.step = "Sign"
              /\ agreed' = [agreed EXCEPT ![x] = @ \cup {review.price}]
              /\ UNCHANGED <<terms, autoOn>>
           \/ /\ accept /\ review.step /= "Sign"
              /\ terms' = [terms EXCEPT ![x] = @ \cup {review.price}]
              /\ autoOn' = IF auto_sign THEN autoOn \cup {x} ELSE autoOn
              /\ UNCHANGED agreed
           \/ ~accept /\ UNCHANGED <<agreed, terms, autoOn>>
    BY <1>5, <2>1, UiAppended DEF UserDecides
  <2>3. /\ accept /\ review.step = "Sign" => review.price \in agreed'[x]
        /\ accept /\ review.step /= "Sign" =>
              review.price \in terms'[x] /\ (auto_sign => x \in autoOn')
        /\ \A o \in Order : agreed[o] \subseteq agreed'[o] /\ terms[o] \subseteq terms'[o]
        /\ autoOn \subseteq autoOn'
    BY <1>0, <2>2
  <2>4. UserKept
    BY <1>5, <2>2, <2>3 DEF UserDecides, UserKept
  <2>5. r.type = "Decision" /\ r.order = x /\ r.accept = accept /\ r.auto_sign = auto_sign
    OBVIOUS
  <2> HIDE DEF r
  <2>6. \A o : ~TurnsOn(r, o) /\ (Decides(r, o) \/ Asks(r, o) => o = x)
    BY <2>5 DEF TurnsOn, Decides, Asks
  <2>7. ASSUME FlowInv(x) PROVE FlowInv(x)'
    <3>1. /\ ~In(x, pending_submits) /\ ~In(x, pending_links)
          /\ \A i \in 1..Len(fromUi) : ~Asks(fromUi[i], x)
          /\ review.step /= "Sign" /\ (x \in Taken \/ x \notin psets)
          /\ x \in DOMAIN active_submits => active_submits[x] = review.price
      BY <2>1, <2>7 DEF FlowInv
    <3>2. \A i \in 1..Len(fromUi') : Asks(fromUi'[i], x) \/ Decides(fromUi'[i], x) =>
              i = Len(fromUi) + 1 /\ fromUi'[i] = r
      BY <2>2, <3>1, SMT DEF UiAppend, Asks, Decides
    <3>3. /\ ~In(x, pending_submits') /\ ~In(x, pending_links') /\ ~Reviewed(x)'
          /\ Once(x, pending_submits') /\ Once(x, pending_links')
      BY <2>2, <2>4, <2>7, <3>1 DEF UserKept, linkVars, Reviewed, FlowInv
    <3>4. /\ x \in Taken \/ x \notin psets'
          /\ r.accept => /\ x \in DOMAIN active_submits' => active_submits'[x] \in terms'[x]
                         /\ r.auto_sign => x \in autoOn'
      BY <2>3, <2>4, <2>5, <3>1 DEF UserKept
    <3> QED BY <3>2, <3>3, <3>4 DEF FlowInv
  <2>8. ASSUME r.accept, x \in psets, IsSign(x)
        PROVE  /\ agreed'[x] /= {}
               /\ PromptInv(x) => submit_data[x].price \in agreed'[x] \cup terms'[x]
    <3>1. PromptInv(x)
      BY <2>8, AgreedParts DEF AgreedOn
    <3>2. review.step = "Sign" /\ submit_data[x].price \in terms[x] \cup {review.price}
      BY <2>1, <2>8, <3>1 DEF PromptInv
    <3> QED BY <2>3, <2>5, <2>8, <3>2
  <2> QED BY <2>2, <2>4, <2>5, <2>6, <2>7, <2>8, UserAgreed
<1> QED BY <1>1, <1>2, <1>3, <1>4, <1>5 DEF User, UserDecision

(* Nothing is on the way: a fresh start, or one after a crash.             *)
LEMMA StartAgreed == ASSUME TypeOK, WorkerInit PROVE AgreedInv
<1>1. Len(<<>>) = 0
  OBVIOUS
<1>2. DOMAIN submit_data = {} /\ fromUi = <<>>
  BY EmptyMap, SMT DEF WorkerInit
<1>3. ASSUME NEW o \in Order PROVE AgreedOn(o)
  <2>1. ~Prompted(o) /\ ~IsSign(o) /\ ~Reviewed(o)
    BY <1>1, SMT DEF WorkerInit, Prompted, IsSign, Reviewed
  <2>2. FlowInv(o)
    <3>1. pending_submits = <<>> /\ pending_links = <<>>
      BY DEF WorkerInit
    <3>2. Len(fromUi) = 0 /\ Len(pending_submits) = 0 /\ Len(pending_links) = 0
      BY <1>1, <1>2, <3>1
    <3> QED BY <2>1, <3>2, SMT DEF FlowInv, In, Once
  <2>3. TermsInv(o)
    BY <1>1, <1>2, SMT DEF TermsInv
  <2> QED BY <2>1, <2>2, <2>3 DEF AgreedOn
<1> QED BY <1>1, <1>2, <1>3, AgreedParts, SMT DEF DataInv, EditsInv

LEMMA RestartAgreed == TypeOK' /\ WorkerInit' => AgreedInv'
<1>1. TypeOK /\ WorkerInit => AgreedInv
  BY StartAgreed
<1> QED BY <1>1, PTL

LEMMA StepAgreed ==
    ASSUME TypeOK, TypeOK', OnceInv, OnceInv', AgreedInv, Next, ~Relinks
    PROVE  AgreedInv'
<1>1. CASE Restart
  BY <1>1, RestartAgreed DEF Restart, WorkerInit
<1>2. CASE PendingStep
  <2>1. CASE PendingSubmit \/ PendingLink
    BY <2>1, LinksAgreed
  <2>2. CASE UNCHANGED linkVars
    BY <1>2, <2>2, PendingAgreed
  <2> QED BY <1>2, <2>1, <2>2
          DEF PendingStep, download_sign_request, SignsDownloaded, LinksDone,
              PendingSignRequest, RequestsDone
<1>3. CASE process_ui
  BY <1>3, OpenAgreed, DecisionAgreed, SubmitAgreed, EditAgreed, LogoutAgreed
     DEF process_ui
<1>4. CASE Notification \/ process_ws_connected \/ process_ws_disconnected
  BY <1>4, OutsideAgreed
<1>5. CASE User
  BY <1>5, UserStepAgreed
<1> QED BY <1>1, <1>2, <1>3, <1>4, <1>5 DEF Next

(* A signature that SignedAsAgreed allows.                                 *)
Agreeable(o, p) ==
    \/ p \in agreed[o]
    \/ p \in terms[o] /\ (o \in Taken \cup autoOn \/ agreed[o] /= {})
    \/ o \in Index \cap autoOn /\ \E q \in terms[o] : Within10(p, q)

LEMMA SignedParts ==
    ASSUME TypeOK, TypeOK'
    PROVE  /\ SignedAsAgreed <=>
                 \A o \in Order : \A i \in 1..Len(sent[o]) : Agreeable(o, sent[o][i])
           /\ SignedAsAgreed' <=>
                 \A o \in Order : \A i \in 1..Len(sent'[o]) : \A p :
                     p = sent'[o][i] => Agreeable(o, p)'
<1>1. DOMAIN sent = Order /\ DOMAIN sent' = Order
  BY DEF TypeOK
<1>2. SignedAsAgreed <=>
          \A o \in Order : \A i \in 1..Len(sent[o]) : Agreeable(o, sent[o][i])
  BY <1>1 DEF SignedAsAgreed, Agreeable
<1>3. SignedAsAgreed' <=> \A o \in Order : \A i \in 1..Len(sent'[o]) : \A p :
                              p = sent'[o][i] => Agreeable(o, p)'
  BY <1>1 DEF SignedAsAgreed, Agreeable
<1> QED BY <1>2, <1>3

(* The user takes nothing back.                                            *)
UserGrows ==
    /\ \A o \in Order : agreed[o] \subseteq agreed'[o] /\ terms[o] \subseteq terms'[o]
    /\ autoOn \subseteq autoOn'

LEMMA AgreedGrows ==
    ASSUME TypeOK, Next
    PROVE  UserGrows
<1>0. agreed \in [Order -> SUBSET Price] /\ terms \in [Order -> SUBSET Price]
  BY DEF TypeOK
<1>1. CASE UNCHANGED <<agreed, terms, autoOn>>
  BY <1>1 DEF UserGrows
<1>2. CASE User
  <2>1. ASSUME NEW o \in Order, NEW p,
               \/ agreed' = [agreed EXCEPT ![o] = @ \cup {p}] /\ terms' = terms
               \/ terms' = [terms EXCEPT ![o] = @ \cup {p}] /\ agreed' = agreed
        PROVE  \A x \in Order : agreed[x] \subseteq agreed'[x] /\ terms[x] \subseteq terms'[x]
    BY <1>0, <2>1
  <2>2. CASE UserDecision
    <3>1. review \in Review => review.order \in Order
      BY DEF Review
    <3> QED BY <1>1, <2>1, <2>2, <3>1
            DEF UserDecision, UserDecides, UserGrows, TypeOK
  <2> QED BY <1>1, <1>2, <2>1, <2>2
          DEF User, UserLinks, UserEditsPrice, UserEditsAutoSign, UserLogsOut, Click,
              UserGrows
<1>3. CASE PendingStep
  BY <1>1, <1>3 DEF PendingStep, download_sign_request, SignsDownloaded, PendingSubmit,
                    PendingLink, LinksDone, PendingSignRequest, RequestsDone, Pending,
                    userVars
<1>4. CASE process_ui
  BY <1>1, <1>4 DEF process_ui, process_submit_order, process_link_order, SubmitRejected,
                    SignAccepted, SubmitUnknown, SubmitAccepted, try_edit_order_price,
                    try_edit_order_auto_sign, process_logout_request, Decision, UiStep
<1>5. CASE Notification \/ process_ws_connected \/ process_ws_disconnected \/ Restart
  BY <1>1, <1>5
     DEF Notification, process_sign, CompleteWithTxid, CompleteWithoutTxid,
         process_order_created, process_push_message, send_new_transactions, Notified,
         process_ws_connected, process_ws_disconnected, Restart, userVars
<1> QED BY <1>2, <1>3, <1>4, <1>5 DEF Next

LEMMA SignedKept ==
    ASSUME TypeOK, TypeOK', SignedAsAgreed, UserGrows,
           \/ UNCHANGED sent
           \/ sent' = [o \in Order |-> <<>>]
           \/ \E m \in SignNotification :
                 /\ sent' = [sent EXCEPT ![m.order] = Append(@, m.pset)]
                 /\ Agreeable(m.order, m.pset)
    PROVE  SignedAsAgreed'
<1>1. \A o \in Order : \A p : Agreeable(o, p) => Agreeable(o, p)'
  BY DEF Agreeable, UserGrows
<1>2. CASE UNCHANGED sent
  <2>1. \A o \in Order : sent'[o] = sent[o]
    BY <1>2
  <2>2. \A o \in Order : \A i \in 1..Len(sent[o]) : Agreeable(o, sent[o][i])
    BY SignedParts
  <2>3. \A o \in Order : \A i \in 1..Len(sent'[o]) : \A p :
            p = sent'[o][i] => Agreeable(o, p)'
    BY <1>1, <2>1, <2>2
  <2> QED BY <2>3, SignedParts
<1>3. CASE sent' = [o \in Order |-> <<>>]
  <2>1. \A o \in Order : Len(sent'[o]) = 0
    BY <1>3
  <2> QED BY <2>1, SignedParts, SMT
<1>4. ASSUME NEW m \in SignNotification,
             sent' = [sent EXCEPT ![m.order] = Append(@, m.pset)],
             Agreeable(m.order, m.pset)
      PROVE  SignedAsAgreed'
  <2>1. sent \in [Order -> Seq(Price)] /\ m.order \in Order /\ m.pset \in Price
    BY DEF TypeOK, SignNotification
  <2>2. /\ \A o \in Order \ {m.order} : sent'[o] = sent[o]
        /\ sent'[m.order] = Append(sent[m.order], m.pset)
    BY <1>4, <2>1
  <2>3. ASSUME NEW i \in 1..Len(sent'[m.order])
        PROVE  \/ i \in 1..Len(sent[m.order]) /\ sent'[m.order][i] = sent[m.order][i]
               \/ sent'[m.order][i] = m.pset
    <3>1. sent[m.order] \in Seq(Price)
      BY <2>1
    <3> QED BY <2>1, <2>2, <3>1, SMT
  <2>4. \A o \in Order : \A i \in 1..Len(sent[o]) : Agreeable(o, sent[o][i])
    BY SignedParts
  <2>5. \A o \in Order : \A i \in 1..Len(sent'[o]) : \A p :
            p = sent'[o][i] => Agreeable(o, p)'
    BY <1>1, <1>4, <2>1, <2>2, <2>3, <2>4, SMT
  <2> QED BY <2>5, SignedParts
<1> QED BY <1>2, <1>3, <1>4

(* Auto-sign: the price was accepted, or it is an index price near one.    *)
LEMMA AutoAgreed ==
    ASSUME TypeOK, AgreedInv, NEW m \in SignNotification, NEW data, Grown(data),
           IsMap(data, Order, SubmitData), m.order \notin processed_signs,
           SignMatches(m, data), auto_sign_allowed(m.price, data[m.order])
    PROVE  Agreeable(m.order, m.price)
<1>1. m.order \in Order /\ m.order \in DOMAIN data /\ data[m.order].side = SideOf(m.order)
  BY DEF SignMatches, SignNotification
<1>2. data[m.order].side = "Taker" \/ data[m.order].auto_sign
  BY DEF auto_sign_allowed
<1>3. m.order \in DOMAIN submit_data /\ data[m.order] = submit_data[m.order]
  BY <1>1, <1>2 DEF Grown
<1>4. TermsInv(m.order) /\ (submit_data[m.order].index_price => m.order \in Index)
  BY <1>1, <1>3, AgreedParts DEF AgreedOn, DataInv
<1>5. CASE m.order \in Taken
  <2>1. submit_data[m.order].side = "Taker" /\ data[m.order].price = m.price
    BY <1>1, <1>3, <1>5 DEF SideOf, SignMatches
  <2> QED BY <1>3, <1>4, <1>5, <2>1 DEF TermsInv, Agreeable
<1>6. CASE m.order \notin Taken
  <2>1. /\ submit_data[m.order].auto_sign
        /\ \/ m.price = submit_data[m.order].price
           \/ /\ submit_data[m.order].index_price
              /\ Within10(m.price, submit_data[m.order].price)
    BY <1>1, <1>3, <1>6 DEF SideOf, auto_sign_allowed
  <2>2. submit_data[m.order].price \in terms[m.order] /\ m.order \in autoOn
    BY <1>3, <1>4, <1>6, <2>1 DEF TermsInv
  <2> QED BY <1>4, <2>1, <2>2 DEF Agreeable
<1> QED BY <1>5, <1>6

LEMMA SignSigned ==
    ASSUME TypeOK, TypeOK', AgreedInv, SignedAsAgreed, UserGrows,
           NEW m \in SignNotification, NEW data, Grown(data),
           IsMap(data, Order, SubmitData), try_process_sign(m, data)
    PROVE  SignedAsAgreed'
<1>1. CASE UNCHANGED sent
  BY <1>1, SignedKept
<1>2. ASSUME m.order \notin processed_signs, SignMatches(m, data),
             auto_sign_allowed(m.price, data[m.order]),
             NEW ok \in BOOLEAN, try_sign(m, [data EXCEPT ![m.order].price = m.price], ok)
      PROVE  SignedAsAgreed'
  <2>1. Agreeable(m.order, m.price)
    BY <1>2, AutoAgreed
  <2> DEFINE new == [data EXCEPT ![m.order].price = m.price]
  <2>2. m.order \in DOMAIN data /\ m.price \in Price
    BY <1>2 DEF SignMatches, SignNotification
  <2>3. new[m.order].price = m.price
    <3>1. data[m.order] \in SubmitData
      BY <2>2 DEF IsMap
    <3>2. [data[m.order] EXCEPT !.price = m.price].price = m.price
      BY <3>1 DEF SubmitData
    <3> QED BY <2>2, <3>2
  <2>4. try_sign(m, new, ok)
    BY <1>2
  <2> HIDE DEF new
  <2>5. \/ UNCHANGED sent
        \/ /\ sent' = [sent EXCEPT ![m.order] = Append(@, m.pset)]
           /\ m.pset = m.price
    BY <2>3, <2>4 DEF try_sign
  <2> QED BY <1>1, <2>1, <2>5, SignedKept
<1> QED BY <1>1, <1>2 DEF try_process_sign, Existing

(* The review before signing: the price that is signed was accepted in it, *)
(* or set by the user meanwhile.                                           *)
LEMMA ReviewSigned ==
    ASSUME TypeOK, TypeOK', AgreedInv, SignedAsAgreed, UserGrows, SignAccepted
    PROVE  SignedAsAgreed'
<1>1. PICK ok \in BOOLEAN : try_sign(active_sign, submit_data, ok)
  BY DEF SignAccepted
<1>2. CASE UNCHANGED sent
  BY <1>2, SignedKept
<1>3. CASE ~UNCHANGED sent
  <2>1. active_sign \in SignNotification /\ active_sign.order \in Order
    BY DEF SignAccepted, IsSign, TypeOK, SignNotification
  <2>2. PICK o \in Order : o = active_sign.order
    BY <2>1
  <2>3. /\ sent' = [sent EXCEPT ![o] = Append(@, active_sign.pset)]
        /\ o \in DOMAIN submit_data /\ submit_data[o].price = active_sign.pset
    BY <1>1, <1>3, <2>2 DEF try_sign
  <2>4. IsSign(o) /\ o = Head(fromUi).order /\ Head(fromUi).accept
    BY <2>2 DEF SignAccepted, IsSign
  <2>5. PromptInv(o) /\ o \in psets
    BY <2>3, <2>4, AgreedParts DEF AgreedOn, DataInv
  <2>6. /\ 1 \in 1..Len(fromUi) /\ Head(fromUi) = fromUi[1]
        /\ fromUi[1].type = "Decision"
    BY UiRead DEF SignAccepted, Decision
  <2>7. agreed[o] /= {} /\ submit_data[o].price \in agreed[o] \cup terms[o]
    BY <2>4, <2>5, <2>6 DEF PromptInv, Decides
  <2>8. Agreeable(active_sign.order, active_sign.pset)
    BY <2>2, <2>3, <2>7 DEF Agreeable
  <2> QED BY <2>1, <2>2, <2>3, <2>8, SignedKept
<1> QED BY <1>2, <1>3

LEMMA StepSigned ==
    ASSUME TypeOK, TypeOK', AgreedInv, SignedAsAgreed, Next
    PROVE  SignedAsAgreed'
<1>0. UserGrows
  BY AgreedGrows
<1>1. CASE UNCHANGED sent \/ sent' = [o \in Order |-> <<>>]
  BY <1>0, <1>1, SignedKept
<1>2. CASE PendingStep
  <2>1. ASSUME NEW o \in Order, download_sign_request(o) PROVE SignedAsAgreed'
    <3>1. ASSUME o \in psets, NEW p \in Price, NEW q \in Price,
                 try_process_sign([order |-> o, price |-> p, pset |-> q],
                                  add_missing_submit_data(o, p, submit_data))
          PROVE  SignedAsAgreed'
      <4>1. [order |-> o, price |-> p, pset |-> q] \in SignNotification
        BY DEF SignNotification
      <4>2. Grown(add_missing_submit_data(o, p, submit_data))
        BY <3>1, GrownMissing
      <4>3. IsMap(add_missing_submit_data(o, p, submit_data), Order, SubmitData)
        BY AddMissingType DEF TypeOK
      <4> QED BY <1>0, <3>1, <4>1, <4>2, <4>3, SignSigned
    <3> QED BY <1>1, <2>1, <3>1 DEF download_sign_request
  <2>2. CASE PendingSignRequest
    <3>1. Head(pending_sign_requests) \in SignNotification
      BY <2>2, SMT DEF PendingSignRequest, TypeOK
    <3> QED BY <1>0, <2>2, <3>1, GrownSame, SignSigned DEF PendingSignRequest, TypeOK
  <2> QED BY <1>1, <1>2, <2>1, <2>2
          DEF PendingStep, SignsDownloaded, PendingSubmit, PendingLink, LinkOrder,
              LinksDone, RequestsDone
<1>3. CASE process_ui
  BY <1>0, <1>1, <1>3, ReviewSigned
     DEF process_ui, process_submit_order, process_link_order, SubmitRejected,
         SubmitUnknown, SubmitAccepted, try_edit_order_price, try_edit_order_auto_sign,
         process_logout_request, dataVars
<1>4. CASE Notification
  <2>1. ASSUME NEW m \in SignNotification, process_sign(m) PROVE SignedAsAgreed'
    BY <1>0, <1>1, <2>1, GrownSame, SignSigned DEF process_sign, TypeOK
  <2> QED BY <1>1, <1>4, <2>1
          DEF Notification, CompleteWithTxid, CompleteWithoutTxid, process_order_created,
              process_push_message, send_new_transactions, dataVars
<1>5. CASE process_ws_connected \/ process_ws_disconnected \/ Restart
  BY <1>1, <1>5 DEF process_ws_connected, process_ws_disconnected, Restart, dataVars
<1>6. CASE User
  BY <1>1, <1>6 DEF User, UserLinks, UserEditsPrice, UserEditsAutoSign, UserLogsOut,
                    UserDecision, UserDecides, Click, workerVars, dataVars
<1> QED BY <1>2, <1>3, <1>4, <1>5, <1>6 DEF Next

(* As long as the user does not open an order again that is being opened,  *)
(* nothing is signed that the user did not agree to, with any number of    *)
(* orders, prices, notifications, faults, logouts and restarts             *)
(* (try_process_sign, process_submit_decision).  The argument is AgreedInv:*)
(* what submit_data holds was accepted, or is going to be reviewed, and a  *)
(* decision on the way is about the review the worker takes it for.        *)
THEOREM AlwaysAsAgreed ==
    ASSUME ~Relinks PROVE Spec => []SignedAsAgreed
<1>1. Init /\ TypeOK => AgreedInv
  BY StartAgreed DEF Init
<1>2. Init => SignedAsAgreed
  <2>1. ASSUME Init, NEW o \in DOMAIN sent, NEW i \in 1..Len(sent[o]) PROVE FALSE
    BY <2>1, SMT DEF Init, WorkerInit
  <2> QED BY <2>1 DEF SignedAsAgreed
<1>3. /\ TypeOK /\ TypeOK' /\ OnceInv /\ OnceInv' /\ AgreedInv /\ [Next]_vars
      => AgreedInv'
  <2>1. ASSUME TypeOK, OnceInv', AgreedInv, UNCHANGED vars PROVE AgreedInv'
    <3>1. RestKept
      BY <2>1 DEF vars, dataVars, linkVars, userVars, RestKept
    <3>2. UNCHANGED <<submit_data, reviewVars, processed_signs>>
      BY <2>1 DEF vars, dataVars, signVars
    <3> QED BY <2>1, <3>1, <3>2, GrownSame, ReviewAgreed
  <2> QED BY <2>1, StepAgreed
<1>4. TypeOK /\ TypeOK' /\ AgreedInv /\ SignedAsAgreed /\ [Next]_vars => SignedAsAgreed'
  <2>1. SignedAsAgreed /\ UNCHANGED vars => SignedAsAgreed'
    BY DEF vars, dataVars, userVars, SignedAsAgreed
  <2> QED BY <2>1, StepSigned
<1> QED BY <1>1, <1>2, <1>3, <1>4, TypeCorrect, OnceInvariant, PTL DEF Spec
=============================================================================
