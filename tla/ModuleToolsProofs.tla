------------------------- MODULE ModuleToolsProofs --------------------------
(***************************************************************************)
(* Theorems about the tools of remote modules: they hold for any services, *)
(* offers, policies and number of requests, however services go and come.  *)
(***************************************************************************)
EXTENDS ModuleTools, TLAPS

Tools == UNION {Offers[url] : url \in Urls}
NoCall == [tool |-> "", group |-> ""]
Results == {"", "ok", "unknown tool", "group_policy_denied",
            "bad_module_response", "module_unavailable"}

Request == [stage : {"idle", "asking", "done"}, call : Calls \cup {NoCall},
            next : Nat \ {0}, owners : SUBSET [tool : Tools, service : DOMAIN Services],
            result : Results, steady : SUBSET Urls]

TypeOK ==
    /\ up \subseteq Urls
    /\ work \in [Callers -> Request]
    /\ executed \in [Callers -> Seq(Urls)]

\* A request has collected tools of the services it has asked, every tool of
\* those that were up all along among them, and it knows what it says.
RequestIsSound(r) ==
    /\ \A o \in r.owners :
            /\ o.tool \in Offers[Services[o.service].url]
            /\ \A k \in DOMAIN Services : k < o.service /\ Services[k].url \in r.steady =>
                    o.tool \notin Offers[Services[k].url]
    /\ \A k \in DOMAIN Services : k < r.next /\ Services[k].url \in r.steady =>
            Offers[Services[k].url] \subseteq {o.tool : o \in r.owners}
    /\ r.stage = "done" /\ (r.result = "unknown tool" \/ r.call.tool = "tools") =>
            r.next > Len(Services)
    /\ r.stage = "done" /\ r.result = "unknown tool" => r.call.tool \notin {o.tool : o \in r.owners}

\* At most one call, at a service that offers the tool and may serve the group.
CallIsSound(call, run) ==
    /\ Len(run) <= 1
    /\ \A k \in DOMAIN run : \E j \in Offering(call.tool) :
            Services[j].url = run[k] /\ <<Services[j].name, call.group>> \notin Blocked

\* What has been executed for a request: nothing before it is done.
RunIsSound(r, run) ==
    /\ r.stage # "done" => run = <<>>
    /\ r.stage = "done" /\ r.result = "ok" /\ r.call.tool \notin {"echo", "tools"} => run # <<>>
    /\ CallIsSound(r.call, run)

\* Whoever ran or refused the call stands before the owners that were up all along.
Denied(call, j) == <<Services[j].name, call.group>> \in Blocked
FirstsIn(call, k) == {j \in Offering(call.tool) : j <= k}
InTurn(r, run) ==
    \A k \in Offering(r.call.tool) : Services[k].url \in r.steady =>
        /\ run # <<>> =>
                \E j \in FirstsIn(r.call, k) : Services[j].url = run[1] /\ ~Denied(r.call, j)
        /\ r.result = "group_policy_denied" => \E j \in FirstsIn(r.call, k) : Denied(r.call, j)

Inv ==
    /\ TypeOK
    /\ \A c \in Callers : /\ work[c].steady \subseteq up
                          /\ RequestIsSound(work[c])
                          /\ RunIsSound(work[c], executed[c])
                          /\ InTurn(work[c], executed[c])

-----------------------------------------------------------------------------
LEMMA ServiceColumns ==
    ASSUME NEW k \in DOMAIN Services
    PROVE  /\ k \in Nat \ {0} /\ k <= Len(Services)
           /\ Services[k].url \in Urls
           /\ Offers[Services[k].url] \subseteq Tools
  BY ToolsAssumption DEF Urls, Tools

\* The requests the actions write, field by field.
LEMMA RestingIsRequest == Resting \in Request
  BY DEF Resting, Request, NoCall, Results

LEMMA CutIsRequest ==
    ASSUME NEW w \in Request, NEW urls
    PROVE  LET r == [w EXCEPT !.steady = @ \cap urls]
           IN  /\ r \in Request
               /\ r.stage = w.stage /\ r.call = w.call /\ r.next = w.next
               /\ r.owners = w.owners /\ r.result = w.result /\ r.steady = w.steady \cap urls
  BY DEF Request

Ended(w, result) == [w EXCEPT !.stage = "done", !.result = result]

LEMMA EndedIsRequest ==
    ASSUME NEW w \in Request, NEW result \in Results
    PROVE  /\ Ended(w, result) \in Request
           /\ Ended(w, result).stage = "done" /\ Ended(w, result).call = w.call
           /\ Ended(w, result).next = w.next /\ Ended(w, result).owners = w.owners
           /\ Ended(w, result).result = result /\ Ended(w, result).steady = w.steady
  BY DEF Request, Ended

LEMMA InitialInv == Init => Inv
  <1> SUFFICES ASSUME Init PROVE Inv
    OBVIOUS
  <1>1. TypeOK
    BY RestingIsRequest DEF Init, TypeOK
  <1>2. ASSUME NEW c \in Callers
        PROVE  /\ work[c].steady \subseteq up /\ RequestIsSound(work[c])
               /\ RunIsSound(work[c], executed[c]) /\ InTurn(work[c], executed[c])
    <2>1. work[c] = Resting /\ executed[c] = <<>>
      BY DEF Init
    <2>2. RequestIsSound(Resting)
      BY ServiceColumns DEF RequestIsSound, Resting
    <2>3. RunIsSound(Resting, <<>>)
      BY DEF RunIsSound, CallIsSound, Resting
    <2>4. Resting.steady = {}
      BY DEF Resting
    <2>5. work[c].steady \subseteq up
      BY <2>1, <2>4
    <2>6. InTurn(Resting, <<>>)
      BY <2>4 DEF InTurn
    <2>. QED
      BY <2>1, <2>2, <2>3, <2>5, <2>6
  <1>. QED
    BY <1>1, <1>2 DEF Inv

\* A step of one request leaves the others alone.
LEMMA OneRequest ==
    ASSUME Inv, NEW c \in Callers, NEW r \in Request, NEW run \in Seq(Urls),
           work' = [work EXCEPT ![c] = r], executed' = [executed EXCEPT ![c] = run], UNCHANGED up,
           r.steady \subseteq up, RequestIsSound(r), RunIsSound(r, run), InTurn(r, run)
    PROVE  Inv'
  <1>1. TypeOK'
    BY DEF Inv, TypeOK
  <1>2. ASSUME NEW d \in Callers
        PROVE  /\ (work[d].steady \subseteq up)' /\ RequestIsSound(work'[d])
               /\ RunIsSound(work'[d], executed'[d]) /\ InTurn(work'[d], executed'[d])
    BY DEF Inv, TypeOK
  <1>3. ASSUME NEW d \in Callers
        PROVE  RequestIsSound(work[d])' /\ RunIsSound(work[d], executed[d])' /\ InTurn(work[d], executed[d])'
    <2>1. RequestIsSound(work[d])' /\ RunIsSound(work[d], executed[d])'
      BY <1>2 DEF RequestIsSound, RunIsSound, CallIsSound, Offering
    <2>2. InTurn(work[d], executed[d])'
      BY <1>2 DEF InTurn, FirstsIn, Denied, Offering
    <2>. QED
      BY <2>1, <2>2
  <1>. QED
    BY <1>1, <1>2, <1>3 DEF Inv

LEMMA ReachKeepsInv ==
    ASSUME Inv, NEW urls, Reach(urls)
    PROVE  Inv'
  <1> DEFINE Cut(w) == [w EXCEPT !.steady = @ \cap urls]
  <1>1. /\ up' = urls /\ urls \subseteq Urls
        /\ work' = [c \in Callers |-> Cut(work[c])] /\ executed' = executed
    BY DEF Reach
  <1>2. ASSUME NEW c \in Callers
        PROVE  /\ Cut(work[c]) \in Request
               /\ work'[c].stage = work[c].stage /\ work'[c].call = work[c].call
               /\ work'[c].next = work[c].next /\ work'[c].owners = work[c].owners
               /\ work'[c].result = work[c].result /\ work'[c].steady = work[c].steady \cap urls
    <2>1. work[c] \in Request /\ work'[c] = Cut(work[c])
      BY <1>1 DEF Inv, TypeOK
    <2>. HIDE DEF Cut
    <2>2. /\ Cut(work[c]) \in Request
          /\ Cut(work[c]).stage = work[c].stage /\ Cut(work[c]).call = work[c].call
          /\ Cut(work[c]).next = work[c].next /\ Cut(work[c]).owners = work[c].owners
          /\ Cut(work[c]).result = work[c].result /\ Cut(work[c]).steady = work[c].steady \cap urls
      BY <2>1, CutIsRequest DEF Cut
    <2>. QED
      BY <2>1, <2>2
  <1>. HIDE DEF Cut
  <1>3. TypeOK'
    BY <1>1, <1>2 DEF Inv, TypeOK
  <1>4. ASSUME NEW c \in Callers
        PROVE  /\ (work[c].steady \subseteq up)' /\ RequestIsSound(work[c])'
               /\ RunIsSound(work[c], executed[c])' /\ InTurn(work[c], executed[c])'
    <2>1. /\ RequestIsSound(work[c]) /\ RunIsSound(work[c], executed[c]) /\ executed'[c] = executed[c]
          /\ InTurn(work[c], executed[c])
      BY <1>1 DEF Inv
    <2>2. RequestIsSound(work[c])'
      BY <1>2, <2>1 DEF RequestIsSound
    <2>3. RunIsSound(work'[c], executed[c])
      BY <1>2, <2>1 DEF RunIsSound
    <2>4. RunIsSound(work[c], executed[c])'
      BY <2>1, <2>3 DEF RunIsSound, CallIsSound, Offering
    <2>5. InTurn(work'[c], executed[c])
      BY <1>2, <2>1 DEF InTurn
    <2>6. InTurn(work[c], executed[c])'
      BY <2>1, <2>5 DEF InTurn, FirstsIn, Denied, Offering
    <2>. QED
      BY <1>1, <1>2, <2>2, <2>4, <2>6
  <1>. QED
    BY <1>3, <1>4 DEF Inv

LEMMA BeginKeepsInv ==
    ASSUME Inv, NEW c \in Callers, NEW call \in Calls, Begin(c, call)
    PROVE  Inv'
  <1> DEFINE stage == IF call.tool = "echo" THEN "done" ELSE "asking"
             result == IF call.tool = "echo" THEN "ok" ELSE ""
             r == [Resting EXCEPT !.call = call, !.steady = up, !.stage = stage, !.result = result]
  <1>1. work' = [work EXCEPT ![c] = r] /\ executed' = [executed EXCEPT ![c] = executed[c]] /\ UNCHANGED up
    BY DEF Begin, Go, Inv, TypeOK
  <1>2. executed[c] = <<>> /\ executed[c] \in Seq(Urls)
    BY DEF Inv, TypeOK, RunIsSound, Begin
  <1>3. stage \in {"asking", "done"} /\ result \in {"", "ok"} /\ up \in SUBSET Urls
    BY DEF Inv, TypeOK
  <1>4. /\ stage = "done" => call.tool = "echo"
        /\ result # "unknown tool" /\ result # "group_policy_denied"
    OBVIOUS
  <1>. HIDE DEF stage, result
  <1>5. /\ r \in Request
        /\ r.stage = stage /\ r.call = call /\ r.next = 1
        /\ r.owners = {} /\ r.result = result /\ r.steady = up
    BY <1>3, RestingIsRequest DEF Request, Resting, Results
  <1>. HIDE DEF r
  <1>6. RequestIsSound(r)
    <2>1. \A k \in DOMAIN Services : ~(k < r.next)
      BY <1>5, ServiceColumns
    <2>2. r.stage = "done" => r.call.tool # "tools" /\ r.result # "unknown tool"
      BY <1>4, <1>5
    <2>3. \A o \in r.owners : FALSE
      BY <1>5
    <2>. QED
      BY <1>4, <1>5, <2>1, <2>2, <2>3 DEF RequestIsSound
  <1>7. RunIsSound(r, executed[c])
    <2>1. r.stage = "done" => r.call.tool \in {"echo", "tools"}
      BY <1>4, <1>5
    <2>2. RunIsSound(r, <<>>)
      BY <2>1 DEF RunIsSound, CallIsSound
    <2>. QED
      BY <1>2, <2>2
  <1>8. InTurn(r, executed[c])
    BY <1>2, <1>4, <1>5 DEF InTurn
  <1>. QED
    BY <1>1, <1>2, <1>5, <1>6, <1>7, <1>8, OneRequest

LEMMA AskKeepsInv ==
    ASSUME Inv, NEW c \in Callers, Ask(c)
    PROVE  Inv'
  <1> DEFINE k == work[c].next
             new == IF Services[k].url \in up THEN Offers[Services[k].url] \ Known(c) ELSE {}
             fresh == {[tool |-> t, service |-> k] : t \in new}
             r == [work[c] EXCEPT !.next = k + 1, !.owners = @ \cup fresh]
  <1>1. work' = [work EXCEPT ![c] = r] /\ executed' = [executed EXCEPT ![c] = executed[c]] /\ UNCHANGED up
    BY DEF Ask, Go, Inv, TypeOK
  <1>2. /\ work[c] \in Request /\ work[c].steady \subseteq up /\ RequestIsSound(work[c])
        /\ RunIsSound(work[c], executed[c]) /\ executed[c] \in Seq(Urls)
        /\ InTurn(work[c], executed[c])
    BY DEF Inv, TypeOK
  <1>3. k \in Nat \ {0} /\ k <= Len(Services) /\ work[c].stage = "asking"
    BY <1>2 DEF Ask, Request
  <1>4. k \in DOMAIN Services /\ k + 1 \in Nat \ {0}
    BY <1>3, ToolsAssumption
  <1>5. new \subseteq Offers[Services[k].url] /\ new \subseteq Tools
    BY <1>4, ServiceColumns
  <1>6. /\ Services[k].url \in up => Offers[Services[k].url] \subseteq new \cup Known(c)
        /\ new \cap Known(c) = {}
    OBVIOUS
  <1>. HIDE DEF new
  <1>7. /\ fresh \in SUBSET [tool : Tools, service : DOMAIN Services]
        /\ \A o \in fresh : o.tool \in new /\ o.service = k
        /\ \A t \in new : \E o \in fresh : o.tool = t
    <2>1. ASSUME NEW t \in new
          PROVE  \E o \in fresh : o.tool = t
      <3>1. [tool |-> t, service |-> k] \in fresh /\ [tool |-> t, service |-> k].tool = t
        OBVIOUS
      <3>. QED
        BY <3>1
    <2>2. ASSUME NEW o \in fresh
          PROVE  o \in [tool : Tools, service : DOMAIN Services] /\ o.tool \in new /\ o.service = k
      <3>1. PICK t \in new : o = [tool |-> t, service |-> k]
        OBVIOUS
      <3>. QED
        BY <3>1, <1>4, <1>5
    <2>. QED
      BY <2>1, <2>2
  <1>. HIDE DEF fresh
  <1>8. /\ r \in Request
        /\ r.stage = work[c].stage /\ r.call = work[c].call /\ r.next = k + 1
        /\ r.owners = work[c].owners \cup fresh /\ r.result = work[c].result /\ r.steady = work[c].steady
    BY <1>2, <1>4, <1>7 DEF Request
  <1>. HIDE DEF r
  <1>9. RequestIsSound(r)
    <2>1. ASSUME NEW o \in r.owners
          PROVE  /\ o.tool \in Offers[Services[o.service].url]
                 /\ \A j \in DOMAIN Services : j < o.service /\ Services[j].url \in r.steady =>
                        o.tool \notin Offers[Services[j].url]
      <3>1. CASE o \in work[c].owners
        BY <3>1, <1>2, <1>8 DEF RequestIsSound
      <3>2. CASE o \in fresh
        <4>1. o.tool \in new /\ o.service = k /\ o.tool \in Offers[Services[k].url]
          BY <3>2, <1>5, <1>7
        <4>2. ASSUME NEW j \in DOMAIN Services, j < k, Services[j].url \in work[c].steady
              PROVE  Offers[Services[j].url] \subseteq Known(c)
          BY <4>2, <1>2 DEF RequestIsSound, Known
        <4>. QED
          BY <4>1, <4>2, <1>6, <1>8
      <3>. QED
        BY <3>1, <3>2, <1>8
    <2>2. ASSUME NEW j \in DOMAIN Services, j < r.next, Services[j].url \in r.steady,
                 NEW t \in Offers[Services[j].url]
          PROVE  \E o \in r.owners : o.tool = t
      <3>1. CASE j < k
        <4>1. t \in {o.tool : o \in work[c].owners}
          BY <3>1, <2>2, <1>2, <1>8 DEF RequestIsSound
        <4>. QED
          BY <4>1, <1>8
      <3>2. CASE j = k
        <4>1. t \in new \/ t \in Known(c)
          BY <3>2, <2>2, <1>2, <1>6, <1>8
        <4>. QED
          BY <4>1, <1>7, <1>8 DEF Known
      <3>3. j \in Nat /\ (j < k \/ j = k)
        BY <2>2, <1>3, <1>8, ServiceColumns
      <3>. QED
        BY <3>1, <3>2, <3>3
    <2>3. \A j \in DOMAIN Services : j < r.next /\ Services[j].url \in r.steady =>
                Offers[Services[j].url] \subseteq {o.tool : o \in r.owners}
      BY <2>2
    <2>4. r.stage # "done"
      BY <1>3, <1>8
    <2>. QED
      BY <2>1, <2>3, <2>4 DEF RequestIsSound
  <1>10. RunIsSound(r, executed[c])
    BY <1>2, <1>3, <1>8 DEF RunIsSound
  <1>11. InTurn(r, executed[c])
    BY <1>2, <1>8 DEF InTurn
  <1>. QED
    BY <1>1, <1>2, <1>8, <1>9, <1>10, <1>11, OneRequest

\* The end of a request, for the result it gets and what has been executed.
LEMMA EndKeepsInv ==
    ASSUME Inv, NEW c \in Callers, Asked(c), NEW result \in Results, NEW run \in Seq(Urls),
           work' = [work EXCEPT ![c] = Ended(work[c], result)],
           executed' = [executed EXCEPT ![c] = run], UNCHANGED up,
           result = "unknown tool" => work[c].call.tool \notin Known(c),
           result = "ok" /\ work[c].call.tool # "tools" => run # <<>>,
           CallIsSound(work[c].call, run), InTurn(Ended(work[c], result), run)
    PROVE  Inv'
  <1> DEFINE r == Ended(work[c], result)
  <1>1. work[c] \in Request /\ work[c].steady \subseteq up /\ RequestIsSound(work[c])
    BY DEF Inv, TypeOK
  <1>2. work' = [work EXCEPT ![c] = r] /\ InTurn(r, run)
    OBVIOUS
  <1>3. /\ r \in Request
        /\ r.stage = "done" /\ r.call = work[c].call /\ r.next = work[c].next
        /\ r.owners = work[c].owners /\ r.result = result /\ r.steady = work[c].steady
    BY <1>1, EndedIsRequest
  <1>. HIDE DEF r
  <1>4. RequestIsSound(r)
    BY <1>1, <1>3 DEF RequestIsSound, Asked, Known
  <1>5. RunIsSound(r, run)
    BY <1>3 DEF RunIsSound
  <1>. QED
    BY <1>1, <1>2, <1>3, <1>4, <1>5, OneRequest

LEMMA OwnerOffers ==
    ASSUME Inv, NEW c \in Callers, Owner(c) # NoOwner
    PROVE  /\ Owner(c) \in DOMAIN Services
           /\ Owner(c) \in Offering(work[c].call.tool)
  <1> DEFINE o == CHOOSE x \in work[c].owners : x.tool = work[c].call.tool
  <1>1. work[c].call.tool \in Known(c) /\ Owner(c) = o.service
    BY DEF Owner
  <1>2. o \in work[c].owners /\ o.tool = work[c].call.tool
    BY <1>1 DEF Known
  <1>3. work[c] \in Request /\ RequestIsSound(work[c])
    BY DEF Inv, TypeOK
  <1>. QED
    BY <1>1, <1>2, <1>3 DEF Request, RequestIsSound, Offering

LEMMA OwnerIsFirst ==
    ASSUME Inv, NEW c \in Callers, Owner(c) # NoOwner,
           NEW k \in Offering(work[c].call.tool), Services[k].url \in work[c].steady
    PROVE  Owner(c) \in FirstsIn(work[c].call, k)
  <1> DEFINE o == CHOOSE x \in work[c].owners : x.tool = work[c].call.tool
  <1>1. work[c].call.tool \in Known(c) /\ Owner(c) = o.service
    BY DEF Owner
  <1>2. o \in work[c].owners /\ o.tool = work[c].call.tool
    BY <1>1 DEF Known
  <1>3. work[c] \in Request /\ RequestIsSound(work[c])
    BY DEF Inv, TypeOK
  <1>4. ~(k < o.service) /\ k \in DOMAIN Services
    BY <1>2, <1>3 DEF RequestIsSound, Offering
  <1>5. Owner(c) \in Nat /\ k \in Nat /\ Owner(c) \in Offering(work[c].call.tool)
    BY <1>4, OwnerOffers, ServiceColumns
  <1>. QED
    BY <1>1, <1>4, <1>5 DEF FirstsIn

\* A request that ends without a run and without a refusal passes nobody over.
LEMMA NothingIsInTurn ==
    ASSUME NEW w \in Request, NEW result \in Results, result # "group_policy_denied"
    PROVE  InTurn(Ended(w, result), <<>>)
  BY EndedIsRequest DEF InTurn

LEMMA ServeKeepsInv ==
    ASSUME Inv, NEW c \in Callers, Serve(c)
    PROVE  Inv'
  <1>1. work[c] \in Request /\ executed[c] \in Seq(Urls) /\ RunIsSound(work[c], executed[c])
    BY DEF Inv, TypeOK
  <1>2. CASE Ask(c)
    BY <1>2, AskKeepsInv
  <1>3. ASSUME Asked(c)
        PROVE  executed[c] = <<>> /\ executed = [executed EXCEPT ![c] = <<>>]
    BY <1>1, <1>3 DEF RunIsSound, Asked, Inv, TypeOK
  <1>4. <<>> \in Seq(Urls) /\ CallIsSound(work[c].call, <<>>)
    BY DEF CallIsSound
  <1>5. CASE Show(c)
    <2>1. /\ Asked(c) /\ work[c].call.tool = "tools" /\ executed' = [executed EXCEPT ![c] = <<>>]
          /\ work' = [work EXCEPT ![c] = Ended(work[c], "ok")] /\ UNCHANGED up
      BY <1>3, <1>5 DEF Show, Go, Ended
    <2>2. "ok" \in Results /\ "ok" # "unknown tool"
      BY DEF Results
    <2>3. InTurn(Ended(work[c], "ok"), <<>>)
      BY <1>1, <2>2, NothingIsInTurn
    <2>. QED
      BY <2>1, <2>2, <2>3, <1>4, EndKeepsInv
  <1>6. CASE Refuse(c)
    <2> DEFINE result == IF Owner(c) = NoOwner THEN "unknown tool" ELSE "group_policy_denied"
    <2>1. /\ Asked(c) /\ executed' = [executed EXCEPT ![c] = <<>>]
          /\ work' = [work EXCEPT ![c] = Ended(work[c], result)] /\ UNCHANGED up
      BY <1>3, <1>6 DEF Refuse, Go, Ended
    <2>2. result = "unknown tool" => work[c].call.tool \notin Known(c)
      <3>1. SUFFICES ASSUME Owner(c) = NoOwner, work[c].call.tool \in Known(c) PROVE FALSE
        OBVIOUS
      <3>2. PICK o \in work[c].owners : o.tool = work[c].call.tool /\ Owner(c) = o.service
        BY <3>1 DEF Owner, Known
      <3>. QED
        BY <3>1, <3>2, <1>1, ServiceColumns DEF Request, NoOwner
    <2>3. result \in Results /\ result # "ok"
      BY DEF Results
    <2>4. result = "group_policy_denied" => Owner(c) # NoOwner /\ Denied(work[c].call, Owner(c))
      BY <1>6 DEF Refuse, MayServe, Denied
    <2>. HIDE DEF result
    <2>5. InTurn(Ended(work[c], result), <<>>)
      <3>1. /\ Ended(work[c], result).call = work[c].call /\ Ended(work[c], result).result = result
            /\ Ended(work[c], result).steady = work[c].steady
        BY <1>1, <2>3, EndedIsRequest
      <3>2. ASSUME result = "group_policy_denied", NEW k \in Offering(work[c].call.tool),
                   Services[k].url \in work[c].steady
            PROVE  \E j \in FirstsIn(work[c].call, k) : Denied(work[c].call, j)
        BY <2>4, <3>2, OwnerIsFirst
      <3>. QED
        BY <3>1, <3>2 DEF InTurn
    <2>. QED
      BY <2>1, <2>2, <2>3, <2>5, <1>4, EndKeepsInv
  <1>7. CASE CallTool(c)
    <2> DEFINE url == Services[Owner(c)].url
    <2>1. Asked(c) /\ MayServe(c) /\ UNCHANGED up
      BY <1>7 DEF CallTool
    <2>2. Owner(c) \in DOMAIN Services /\ Owner(c) \in Offering(work[c].call.tool) /\ url \in Urls
      BY <2>1, OwnerOffers, ServiceColumns DEF MayServe
    <2>3. CASE url \in up
      <3>1. PICK result \in {"ok", "bad_module_response", "module_unavailable"} :
                work' = [work EXCEPT ![c] = Ended(work[c], result)]
        BY <1>7, <2>3 DEF CallTool, Go, Ended
      <3>2. executed' = [executed EXCEPT ![c] = <<url>>]
        <4>1. executed' = [executed EXCEPT ![c] = Append(executed[c], url)]
          BY <1>7, <2>3 DEF CallTool
        <4>2. executed[c] = <<>>
          BY <2>1, <1>3
        <4>3. Append(<<>>, url) = <<url>>
          OBVIOUS
        <4>. QED
          BY <4>1, <4>2, <4>3
      <3>3. <<url>> \in Seq(Urls) /\ Len(<<url>>) = 1 /\ <<url>> # <<>>
        BY <2>2
      <3>4. CallIsSound(work[c].call, <<url>>)
        <4>1. \A k \in DOMAIN <<url>> : \E j \in Offering(work[c].call.tool) :
                Services[j].url = <<url>>[k] /\ <<Services[j].name, work[c].call.group>> \notin Blocked
          BY <2>1, <2>2 DEF MayServe
        <4>. QED
          BY <4>1 DEF CallIsSound
      <3>5. result \in Results /\ result # "unknown tool" /\ result # "group_policy_denied"
        BY DEF Results
      <3>6. InTurn(Ended(work[c], result), <<url>>)
        <4>1. /\ Ended(work[c], result).call = work[c].call /\ Ended(work[c], result).result = result
              /\ Ended(work[c], result).steady = work[c].steady
          BY <1>1, <3>5, EndedIsRequest
        <4>2. Owner(c) # NoOwner /\ ~Denied(work[c].call, Owner(c)) /\ <<url>>[1] = url
          BY <2>1 DEF MayServe, Denied
        <4>3. ASSUME NEW k \in Offering(work[c].call.tool), Services[k].url \in work[c].steady
              PROVE  \E j \in FirstsIn(work[c].call, k) :
                        Services[j].url = <<url>>[1] /\ ~Denied(work[c].call, j)
          BY <4>2, <4>3, OwnerIsFirst
        <4>. QED
          BY <3>5, <4>1, <4>3 DEF InTurn
      <3>. HIDE DEF url
      <3>. QED
        BY <2>1, <3>1, <3>2, <3>3, <3>4, <3>5, <3>6, EndKeepsInv
    <2>4. CASE url \notin up
      <3>1. /\ work' = [work EXCEPT ![c] = Ended(work[c], "module_unavailable")]
            /\ executed' = [executed EXCEPT ![c] = <<>>]
        BY <1>7, <2>4, <2>1, <1>3 DEF CallTool, Go, Ended
      <3>2. /\ "module_unavailable" \in Results
            /\ "module_unavailable" \notin {"ok", "unknown tool", "group_policy_denied"}
        BY DEF Results
      <3>3. InTurn(Ended(work[c], "module_unavailable"), <<>>)
        BY <1>1, <3>2, NothingIsInTurn
      <3>. QED
        BY <2>1, <3>1, <3>2, <3>3, <1>4, EndKeepsInv
    <2>. QED
      BY <2>3, <2>4
  <1>. QED
    BY <1>2, <1>5, <1>6, <1>7 DEF Serve

\* The inductive invariant: what a request has collected, and what was executed
\* for it, is sound at every moment, however services go and come.
THEOREM Invariance == Spec => []Inv
  <1>1. Inv /\ [Next]_vars => Inv'
    <2> SUFFICES ASSUME Inv, [Next]_vars PROVE Inv'
      OBVIOUS
    <2>1. ASSUME NEW urls, Reach(urls) PROVE Inv'
      BY <2>1, ReachKeepsInv
    <2>2. ASSUME NEW c \in Callers, Serve(c) PROVE Inv'
      BY <2>2, ServeKeepsInv
    <2>3. ASSUME NEW c \in Callers, NEW call \in Calls, Begin(c, call) PROVE Inv'
      BY <2>3, BeginKeepsInv
    <2>4. CASE UNCHANGED vars
      <3>1. /\ TypeOK
            /\ \A c \in Callers : /\ work[c].steady \subseteq up
                                  /\ RequestIsSound(work[c])
                                  /\ RunIsSound(work[c], executed[c])
                                  /\ InTurn(work[c], executed[c])
        BY DEF Inv
      <3>2. up' = up /\ work' = work /\ executed' = executed
        BY <2>4 DEF vars
      <3>3. TypeOK'
        BY <3>1, <3>2 DEF TypeOK
      <3>4. ASSUME NEW c \in Callers
            PROVE  /\ (work[c].steady \subseteq up)'
                   /\ RequestIsSound(work[c])' /\ RunIsSound(work[c], executed[c])'
                   /\ InTurn(work[c], executed[c])'
        <4>1. RequestIsSound(work'[c]) /\ RunIsSound(work'[c], executed'[c]) /\ InTurn(work'[c], executed'[c])
          BY <3>1, <3>2
        <4>2. InTurn(work[c], executed[c])'
          BY <4>1 DEF InTurn, FirstsIn, Denied, Offering
        <4>. QED
          BY <3>1, <3>2, <4>1, <4>2 DEF RequestIsSound, RunIsSound, CallIsSound, Offering
      <3>. QED
        BY <3>3, <3>4 DEF Inv
    <2>. QED
      BY <2>1, <2>2, <2>3, <2>4 DEF Next
  <1>. QED
    BY <1>1, InitialInv, PTL DEF Spec

\* ToolRunsOnce: for one call no tool runs twice (remote.py calls once and takes
\* any missing answer for an error), nor at a service that does not offer it or
\* may not serve the group.
THEOREM ToolsRunOnce == Spec => []ToolRunsOnce
  <1>1. Inv => ToolRunsOnce
    BY DEF Inv, RunIsSound, CallIsSound, ToolRunsOnce
  <1>. QED
    BY <1>1, Invariance, PTL

\* WorkingToolsAreKnown: _remote_tool_owner and list_remote_tools ask every
\* service, so none that fails can hide one that works.
THEOREM WorkingToolsFound == Spec => []WorkingToolsAreKnown
  <1>1. Inv => WorkingToolsAreKnown
    <2> SUFFICES ASSUME Inv, NEW c \in Callers, NEW k \in DOMAIN Services,
                        work[c].stage = "done", Services[k].url \in work[c].steady
                 PROVE  /\ k \in Offering(work[c].call.tool) => work[c].result # "unknown tool"
                        /\ work[c].call.tool = "tools" => Offers[Services[k].url] \subseteq Known(c)
      BY DEF WorkingToolsAreKnown
    <2>1. work[c] \in Request /\ RequestIsSound(work[c])
      BY DEF Inv, TypeOK
    <2>2. work[c].next > Len(Services) => Offers[Services[k].url] \subseteq Known(c)
      <3>1. ASSUME work[c].next > Len(Services) PROVE k < work[c].next
        BY <3>1, <2>1, ServiceColumns, ToolsAssumption DEF Request
      <3>. QED
        BY <3>1, <2>1 DEF RequestIsSound, Known
    <2>. QED
      BY <2>1, <2>2 DEF RequestIsSound, Offering, Known
  <1>. QED
    BY <1>1, Invariance, PTL

\* FirstOwnerServes: _remote_tool_owner keeps the first owner it hears of, and asks
\* in the configured order, so a call or a refusal never passes over an earlier
\* owner that answered throughout.
THEOREM FirstOwnersServe == Spec => []FirstOwnerServes
  <1>1. Inv => FirstOwnerServes
    BY DEF Inv, InTurn, FirstsIn, Denied, FirstOwnerServes
  <1>. QED
    BY <1>1, Invariance, PTL

=============================================================================
