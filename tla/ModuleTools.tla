---------------------------- MODULE ModuleTools -----------------------------
(***************************************************************************)
(* The tools of Brain's remote modules (brain-python/services/tools.py and *)
(* modules/remote.py). GET /tools and POST /tools/call both ask every      *)
(* service for its tools, one after the other and each time anew; nothing  *)
(* is kept between requests. Services come and go meanwhile.               *)
(***************************************************************************)
EXTENDS Integers, SequencesExt

CONSTANTS
    Defaults,       \* the entries of BRAIN_MODULE_SERVICE_DEFAULTS: [name, url]
    Overrides,      \* the entries of BRAIN_MODULE_SERVICES
    Offers,         \* url -> the names of the tools it lists
    Blocked,        \* {<<service, group>>}: what _module_group_allowed refuses
    Callers,        \* the threads of the requests
    Calls           \* [tool, group] of the calls

VARIABLES
    up,             \* the urls that answer now
    work,           \* per caller: the request under way
    executed        \* per caller: the urls that have executed its call

vars == <<up, work, executed>>

\* _service_map: incomplete entries are ignored, a later entry of a name takes
\* the place of the earlier one.
AddService(services, entry) ==
    IF entry.name = "" \/ entry.url = "" THEN services
    ELSE IF \E k \in DOMAIN services : services[k].name = entry.name
         THEN [k \in DOMAIN services |-> IF services[k].name = entry.name THEN entry ELSE services[k]]
         ELSE Append(services, entry)

\* module_services_from_env.
Services == FoldLeft(AddService, <<>>, Defaults \o Overrides)
Urls == {Services[k].url : k \in DOMAIN Services}

ASSUME ToolsAssumption ==
    /\ Services \in Seq([name : STRING, url : STRING])
    /\ Urls \subseteq DOMAIN Offers

NoOwner == 0
Resting == [stage |-> "idle", call |-> [tool |-> "", group |-> ""], next |-> 1, owners |-> {},
            result |-> "", steady |-> {}]

Init ==
    /\ up \in SUBSET Urls
    /\ work = [c \in Callers |-> Resting]
    /\ executed = [c \in Callers |-> <<>>]

Go(c, fields) == work' = [work EXCEPT ![c] = fields]

\* The history of a request: the services that have been up all along.
Reach(urls) ==
    /\ urls \in SUBSET Urls /\ urls # up /\ up' = urls
    /\ work' = [c \in Callers |-> [work[c] EXCEPT !.steady = @ \cap urls]]
    /\ UNCHANGED executed

\* A request comes in. The echo tool is Brain's own.
Begin(c, call) ==
    /\ work[c].stage = "idle"
    /\ Go(c, [Resting EXCEPT !.call = call, !.steady = up,
              !.stage = IF call.tool = "echo" THEN "done" ELSE "asking",
              !.result = IF call.tool = "echo" THEN "ok" ELSE ""])
    /\ UNCHANGED <<up, executed>>

Known(c) == {o.tool : o \in work[c].owners}

\* Mutant of Ask: the search ends at the first service that does not answer.
AskUntilFailure(c) ==
    LET k == work[c].next
        new == IF Services[k].url \in up THEN Offers[Services[k].url] \ Known(c) ELSE {}
    IN  /\ work[c].stage = "asking" /\ k <= Len(Services)
        /\ Go(c, [work[c] EXCEPT !.next = IF Services[k].url \in up THEN k + 1 ELSE Len(Services) + 1,
                                 !.owners = @ \cup {[tool |-> t, service |-> k] : t \in new}])
        /\ UNCHANGED <<up, executed>>

\* Mutant of Ask: the last service that lists a tool owns it.
AskLastOwner(c) ==
    LET k == work[c].next
        new == IF Services[k].url \in up THEN Offers[Services[k].url] ELSE {}
    IN  /\ work[c].stage = "asking" /\ k <= Len(Services)
        /\ Go(c, [work[c] EXCEPT !.next = k + 1,
                                 !.owners = {o \in @ : o.tool \notin new}
                                                \cup {[tool |-> t, service |-> k] : t \in new}])
        /\ UNCHANGED <<up, executed>>

\* RemoteModuleService.list_tools of the next service: no answer in time, an
\* error or a malformed answer is no tools. A tool that is known already is
\* ignored.
Ask(c) ==
    LET k == work[c].next
        new == IF Services[k].url \in up THEN Offers[Services[k].url] \ Known(c) ELSE {}
    IN  /\ work[c].stage = "asking" /\ k <= Len(Services)
        /\ Go(c, [work[c] EXCEPT !.next = k + 1,
                                 !.owners = @ \cup {[tool |-> t, service |-> k] : t \in new}])
        /\ UNCHANGED <<up, executed>>

Asked(c) == work[c].stage = "asking" /\ work[c].next > Len(Services)
Owner(c) ==
    IF work[c].call.tool \notin Known(c) THEN NoOwner
    ELSE (CHOOSE o \in work[c].owners : o.tool = work[c].call.tool).service

MayServe(c) == Owner(c) # NoOwner /\ <<Services[Owner(c)].name, work[c].call.group>> \notin Blocked

\* GET /tools answers with what was found.
Show(c) ==
    /\ Asked(c) /\ work[c].call.tool = "tools"
    /\ Go(c, [work[c] EXCEPT !.stage = "done", !.result = "ok"])
    /\ UNCHANGED <<up, executed>>

\* Mutant of Refuse: a tool nobody offers is left unanswered.
RefusePolicy(c) ==
    /\ Asked(c) /\ work[c].call.tool # "tools" /\ Owner(c) # NoOwner /\ ~MayServe(c)
    /\ Go(c, [work[c] EXCEPT !.stage = "done", !.result = "group_policy_denied"])
    /\ UNCHANGED <<up, executed>>

\* POST /tools/call finds no owner, or one that may not serve the group.
Refuse(c) ==
    /\ Asked(c) /\ work[c].call.tool # "tools" /\ ~MayServe(c)
    /\ Go(c, [work[c] EXCEPT !.stage = "done",
              !.result = IF Owner(c) = NoOwner THEN "unknown tool" ELSE "group_policy_denied"])
    /\ UNCHANGED <<up, executed>>

\* Mutant of CallTool: a call without an answer is made again.
CallToolAgain(c) ==
    /\ Asked(c) /\ work[c].call.tool # "tools" /\ MayServe(c)
    /\ LET url == Services[Owner(c)].url
       IN  executed' = [executed EXCEPT ![c] = IF url \in up THEN Append(@, url) ELSE @]
    /\ \E answered \in BOOLEAN : IF answered
            THEN Go(c, [work[c] EXCEPT !.stage = "done", !.result = "ok"]) ELSE UNCHANGED work
    /\ UNCHANGED up

\* The owner is called, once. Its answer may be late, lost or malformed although
\* the tool has run.
CallTool(c) ==
    LET url == Services[Owner(c)].url
    IN  /\ Asked(c) /\ work[c].call.tool # "tools" /\ MayServe(c)
        /\ IF url \in up
           THEN /\ executed' = [executed EXCEPT ![c] = Append(@, url)]
                /\ \E result \in {"ok", "bad_module_response", "module_unavailable"} :
                        Go(c, [work[c] EXCEPT !.stage = "done", !.result = result])
           ELSE /\ Go(c, [work[c] EXCEPT !.stage = "done", !.result = "module_unavailable"])
                /\ UNCHANGED executed
        /\ UNCHANGED up

Serve(c) == Ask(c) \/ Show(c) \/ Refuse(c) \/ CallTool(c)

Next ==
    \/ \E urls \in SUBSET Urls : Reach(urls)
    \/ \E c \in Callers : Serve(c) \/ \E call \in Calls : Begin(c, call)

Spec == Init /\ [][Next]_vars
FairSpec == Spec /\ \A c \in Callers : WF_vars(Serve(c))

-----------------------------------------------------------------------------
Offering(tool) == {k \in DOMAIN Services : tool \in Offers[Services[k].url]}

\* A tool runs at most once for a call, at one service, which offers it and may
\* serve the group; a call that succeeds has run.
ToolRunsOnce ==
    \A c \in Callers :
        /\ Len(executed[c]) <= 1
        /\ work[c].stage = "done" /\ work[c].result = "ok" /\ work[c].call.tool \notin {"echo", "tools"}
                => executed[c] # <<>>
        /\ \A k \in DOMAIN executed[c] :
                \E j \in Offering(work[c].call.tool) :
                    /\ Services[j].url = executed[c][k]
                    /\ <<Services[j].name, work[c].call.group>> \notin Blocked

\* Services that fail do not hide those that work: a tool of a service that was
\* up all along is never unknown and always listed.
WorkingToolsAreKnown ==
    \A c \in Callers, k \in DOMAIN Services :
        work[c].stage = "done" /\ Services[k].url \in work[c].steady =>
            /\ k \in Offering(work[c].call.tool) => work[c].result # "unknown tool"
            /\ work[c].call.tool = "tools" => Offers[Services[k].url] \subseteq Known(c)

\* docs/api/brain-api.md: "Duplicate remote tool names are ignored after the first
\* owner." Ownership is found anew for every call, so it moves on when the first
\* owner fails for a moment; but whoever runs a call, and whoever's group policy
\* refuses it, stands before every owner that was up all along.
FirstOwnerServes ==
    \A c \in Callers : \A k \in Offering(work[c].call.tool) :
        Services[k].url \in work[c].steady =>
            LET firsts == {j \in Offering(work[c].call.tool) : j <= k}
                Denied(j) == <<Services[j].name, work[c].call.group>> \in Blocked
            IN  /\ executed[c] # <<>> =>
                        \E j \in firsts : Services[j].url = executed[c][1] /\ ~Denied(j)
                /\ work[c].result = "group_policy_denied" => \E j \in firsts : Denied(j)

\* Every request ends, however often services go and come.
RequestsEnd == \A c \in Callers : work[c].stage = "asking" ~> work[c].stage = "done"

=============================================================================
