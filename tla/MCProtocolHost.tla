--------------------------- MODULE MCProtocolHost ---------------------------
(***************************************************************************)
(* The three registries of a protocol host under concurrent requests: its  *)
(* request cache, its interaction broker, and its runtimes with their      *)
(* lifecycle gates.  They share no state, so a behaviour is about one of   *)
(* them and the variables of the others keep their initial values.         *)
(***************************************************************************)
EXTENDS RequestCache, InteractionBroker, HostLifecycle

VARIABLE part

\* Lists of five requests, each with its operation, its runtime id and its way.
OnHost(operation, i) == <<operation, i, "host">>
OnClient(operation, i) == <<operation, i, "client">>

\* Two generations of one id with a turn each; with a request that only looks;
\* with a client that attaches.
Generations(second) ==
    << OnHost("Acquire", "i1"), second, OnHost("Dispose", "i1"), OnHost("Acquire", "i1"),
       OnHost("StartTurn", "i1") >>

\* A turn, its disposal by two requests, and two ids that compete for the place.
Rivals ==
    << OnHost("Acquire", "i1"), OnHost("StartTurn", "i1"), OnHost("Dispose", "i1"),
       OnHost("Dispose", "i1"), OnHost("Acquire", "i2") >>

\* Acquisitions and disposals of one id on the client itself.
InProcess ==
    << OnClient("Acquire", "i1"), OnClient("Dispose", "i1"), OnClient("Dispose", "i1"),
       OnClient("Acquire", "i1"), OnClient("Acquire", "i1") >>

MCWorkload ==
    {Rivals, InProcess} \cup {Generations(OnHost(o, "i1")) : o \in {"StartTurn", "Health", "Attach"}}

\* Request ids and fingerprints are interchangeable, so one dispatch's are fixed.
Some == CHOOSE f \in Frame : TRUE

RegistriesInit ==
    /\ part \in {"cache", "broker", "host"}
    /\ part # "cache" => frame = [d \in Dispatch |-> Some]
    /\ Init
    /\ frame["d1"] = Some
    /\ part # "broker" => waits_on = [w \in Waiter |-> "a"] /\ about = [r \in Resolver |-> "a"]
    /\ BrokerInit
    /\ part # "host" => op = [r \in Request |-> InProcess[r][1]]
    /\ HostInit

RegistriesNext ==
    /\ UNCHANGED part
    /\ \/ part = "cache" /\ Next /\ UNCHANGED <<brokerVars, hostVars>>
       \/ part = "broker" /\ BrokerNext /\ UNCHANGED <<vars, hostVars>>
       \/ part = "host" /\ HostNext /\ UNCHANGED <<vars, brokerVars>>

\* Every dispatch, request and pump is a task the executor keeps polling.
RegistriesSpec ==
    /\ RegistriesInit /\ [][RegistriesNext]_<<part, vars, brokerVars, hostVars>>
    /\ \A d \in Dispatch : WF_vars(part = "cache" /\ DispatchStep(d))
    /\ \A r \in Request : WF_hostState(part = "host" /\ RequestStep(r))

-----------------------------------------------------------------------------
\* Of the request cache: no dispatch waits for ever on a claim that has ended.
DispatchesEnd == part = "cache" => EveryDispatchEnds

\* Of the runtimes: no two requests wait for each other's gate.
RequestsEnd == part = "host" => EveryRequestEnds

=============================================================================
