---------------------------- MODULE ChatExchange ----------------------------
(***************************************************************************)
(* An event of NapCat on its way through both programs: a worker of the    *)
(* Gateway (gateway-go/handler/router.go) posts it to Brain, where it is a *)
(* turn of ChatTurn among others, and makes actions of the response. The   *)
(* Gateway waits for a bounded time; the turn goes on without it. What     *)
(* happens to the actions on the way to NapCat is Gateway.                 *)
(***************************************************************************)
EXTENDS ChatTurn, EventEnvelope, ActionConversion

CONSTANTS
    Events,         \* what NapCat may send
    Replies,        \* what a remote service may answer: [messages, reply]
    OwnReply        \* an answer of Brain's own

VARIABLES
    exchanges,      \* thread -> the event it works for and what became of it
    gateway         \* "up", or "down" after a panic

exchangeVars == <<exchanges, gateway>>
allVars == <<vars, exchangeVars>>

NoEvent == [post |-> "", kind |-> "", self |-> "", user |-> "", group |-> "", topics |-> {}, segments |-> <<>>]
NoReplyYet == [messages |-> <<>>, reply |-> ""]
Exchange(stage, event) == [stage |-> stage, event |-> event, reply |-> NoReplyYet, actions |-> <<>>]

ASSUME ExchangeAssumption ==
    /\ \A event \in Events : Ignored(event) \/ Envelope(event) \in Requests
    /\ \A reply \in Replies \cup {OwnReply} : reply.messages \in Seq(Items)

ExchangeInit ==
    /\ Init
    /\ exchanges = [t \in Turns |-> Exchange("none", NoEvent)]
    /\ gateway = "up"

Is(t, stage) == exchanges[t].stage = stage
Becomes(t, stage) == exchanges' = [exchanges EXCEPT ![t].stage = stage]

\* Another client of POST /chat.
Direct(t, request) ==
    /\ Is(t, "none") /\ Receive(t, request)
    /\ exchanges' = [exchanges EXCEPT ![t] = Exchange("direct", NoEvent)]
    /\ UNCHANGED gateway

\* Dispatch: the filter, then the request; it may not reach Brain.
Dispatch(t, event) ==
    /\ gateway = "up" /\ Is(t, "none")
    /\ \/ /\ Ignored(event)
          /\ exchanges' = [exchanges EXCEPT ![t] = Exchange("ignored", event)]
          /\ UNCHANGED vars
       \/ /\ ~Ignored(event) /\ Receive(t, Envelope(event))
          /\ exchanges' = [exchanges EXCEPT ![t] = Exchange("waiting", event)]
       \/ /\ ~Ignored(event)
          /\ exchanges' = [exchanges EXCEPT ![t] = Exchange("failed", event)]
          /\ UNCHANGED vars
    /\ UNCHANGED gateway

\* The request times out, is cut off by a restart of Brain, or ends with a
\* status that is no success: nothing is sent and nothing is tried again.
RequestFails(t) ==
    /\ gateway = "up" /\ Is(t, "waiting")
    /\ Becomes(t, "failed")
    /\ UNCHANGED <<vars, gateway>>

\* handled and should_reply decide before the messages are looked at.
NoReplyWanted(t) ==
    /\ gateway = "up" /\ Is(t, "waiting") /\ At(t, "done")
    /\ ~(turns[t].response.handled /\ turns[t].response.replied)
    /\ Becomes(t, "silent")
    /\ UNCHANGED <<vars, gateway>>

\* Everything of Brain's own is one text; a service sends what it likes.
RepliesTo(t) == IF turns[t].response.route = "remote" THEN Replies ELSE {OwnReply}

\* The response becomes actions, or none when one of its messages does not
\* convert. A panic in a worker ends the process and every exchange in it.
Sends(t, reply, actions) ==
    LET converted == [exchanges EXCEPT ![t].reply = reply]
    IN  IF actions = Panics
        THEN /\ exchanges' = [u \in Turns |->
                    IF u = t THEN [converted[t] EXCEPT !.stage = "crashed"]
                    ELSE IF Is(u, "waiting") THEN [exchanges[u] EXCEPT !.stage = "failed"]
                    ELSE exchanges[u]]
             /\ gateway' = "down"
        ELSE /\ exchanges' = [converted EXCEPT ![t].actions = actions,
                                 ![t].stage = IF actions = <<>> THEN "unsent" ELSE "answered"]
             /\ UNCHANGED gateway

\* Mutant of Convert: whatever was handled is sent.
ConvertHandled(t, reply) ==
    /\ gateway = "up" /\ Is(t, "waiting") /\ At(t, "done")
    /\ turns[t].response.handled
    /\ Sends(t, reply, BrainResponseActions(Target(exchanges[t].event), reply))
    /\ UNCHANGED vars

Convert(t, reply) ==
    /\ gateway = "up" /\ Is(t, "waiting") /\ At(t, "done")
    /\ turns[t].response.handled /\ turns[t].response.replied
    /\ Sends(t, reply, BrainResponseActions(Target(exchanges[t].event), reply))
    /\ UNCHANGED vars

\* Somebody starts the Gateway again.
GatewayStarts == gateway = "down" /\ gateway' = "up" /\ UNCHANGED <<vars, exchanges>>

BrainStep ==
    /\ \/ Tick
       \/ Restart
       \/ \E t \in Turns : Turn(t) \/ DatabaseFails(t)
    /\ UNCHANGED exchangeVars

ExchangeNext ==
    \/ BrainStep \/ GatewayStarts
    \/ \E t \in Turns :
        \/ \E request \in Requests : Direct(t, request)
        \/ \E event \in Events : Dispatch(t, event)
        \/ RequestFails(t) \/ NoReplyWanted(t)
        \/ \E reply \in RepliesTo(t) : Convert(t, reply)

ExchangeSpec == ExchangeInit /\ [][ExchangeNext]_allVars

\* Brain's threads are scheduled and every request of theirs has a timeout.
FairExchangeSpec == ExchangeSpec /\ \A t \in Turns : WF_vars(Turn(t))

-----------------------------------------------------------------------------
\* docs/api/gateway-api.md, "Brain /chat Response". Whatever fails or is started
\* again in between, an event is answered only with a response that the texts of
\* that very event route to (as documented, or by one of the two departures) and
\* that wants a reply, and is left in silence only with one that wants none.
RepliesAreWanted ==
    \A t \in Turns :
        LET x == exchanges[t]
            request == Envelope(x.event)
            given == turns[t].response
            wanted == given.handled /\ given.replied
        IN  /\ x.stage \in {"answered", "unsent", "crashed", "silent"} =>
                    given \in {Documented(request, said, turns[t].got)}
                             \cup Departures(request, said, turns[t].got)
            /\ x.stage \in {"answered", "unsent", "crashed"} => wanted
            /\ x.stage = "silent" => ~wanted

=============================================================================
