----------------------------- MODULE Bootstrap -----------------------------
(***************************************************************************)
(* internal/engine/bootstrap.go: the addresses the DHT starts from.  Every *)
(* DHT server asks bootstrapNodes for them, from a goroutine of its own;   *)
(* the first to come resolves the hosts over DoH, one query at a time and  *)
(* all under one deadline, while the others wait for it in sync.Once.      *)
(***************************************************************************)
EXTENDS Integers, FiniteSets

CONSTANTS
    Callers,   \* goroutines that call bootstrapNodes
    Hosts,     \* the number of bootstrap hosts
    Endpoints, \* the number of DoH endpoints
    Records,   \* what an answer may carry
    Addresses, \* the records that are A records with a valid address
    Fallback,  \* the hardcoded addresses
    Nil        \* no value

(* Assumed of the constants, by P2pget and by every instance.              *)
BootstrapAssumption ==
    /\ Hosts \in Nat /\ Endpoints \in Nat \ {0}
    /\ Addresses \subseteq Records
    /\ Fallback # {}
    /\ \A S \in SUBSET ((1 .. Hosts) \X Addresses) : S # Nil
    /\ Fallback # Nil

VARIABLES
    once,      \* bootstrapOnce: "new", "running" or "done"
    runner,    \* the caller inside Do
    host,      \* the host being resolved
    endpoint,  \* the endpoint being asked
    expired,   \* the deadline has passed
    found,     \* the addresses resolved so far
    asked,     \* the <<host, endpoint>> pairs whose query failed by itself
    addrs,     \* bootstrapAddrs
    nodes      \* what each caller was given

loopVars == <<host, endpoint, expired, found, asked>>
vars == <<once, runner, loopVars, addrs, nodes>>

Init ==
    /\ once = "new" /\ runner = Nil
    /\ host = 1 /\ endpoint = 1 /\ expired = FALSE /\ found = {} /\ asked = {}
    /\ addrs = {}
    /\ nodes = [c \in Callers |-> Nil]

(* Do: the first caller runs the function.                                 *)
Enter(c) ==
    /\ once = "new" /\ nodes[c] = Nil
    /\ once' = "running" /\ runner' = c
    /\ UNCHANGED <<loopVars, addrs, nodes>>

Resolving == once = "running" /\ host <= Hosts

NextHost == host' = host + 1 /\ endpoint' = 1

(* Sanity variant: only the first endpoint is asked.                       *)
LastEndpoint_First == endpoint = 1

LastEndpoint == endpoint = Endpoints

AfterFailure ==
    IF LastEndpoint THEN NextHost ELSE endpoint' = endpoint + 1 /\ UNCHANGED host

(* dohLookup: an answer without a usable record counts as none, and the    *)
(* next endpoint is asked.                                                 *)
Answered(records) ==
    IF records \cap Addresses # {}
    THEN /\ found' = found \cup ({host} \X (records \cap Addresses))
         /\ UNCHANGED asked
         /\ NextHost
    ELSE /\ UNCHANGED found
         /\ asked' = asked \cup {<<host, endpoint>>}
         /\ AfterFailure

(* The query ends before the deadline; an error or a status other than OK  *)
(* is an answer without records.                                           *)
QueryEnds(records) ==
    /\ Resolving /\ ~expired
    /\ Answered(records)
    /\ UNCHANGED <<once, runner, expired, addrs, nodes>>

(* Sanity variant: the queries have no deadline.                           *)
HasDeadline_Not == FALSE

HasDeadline == TRUE

(* The eight seconds are over, for this query and for all later ones.      *)
Expire ==
    /\ Resolving /\ ~expired /\ HasDeadline
    /\ expired' = TRUE
    /\ UNCHANGED <<once, runner, host, endpoint, found, asked, addrs, nodes>>

(* From then on every query fails at once.                                 *)
QueryCancelled ==
    /\ Resolving /\ expired
    /\ AfterFailure
    /\ UNCHANGED <<once, runner, expired, found, asked, addrs, nodes>>

(* Sanity variant: there is no fallback.                                   *)
Resolved_NoFallback == found

(* resolveBootstrapNodes' result.                                          *)
Resolved == IF found # {} THEN found ELSE Fallback

(* The function returns, and with it the runner's Do.                      *)
Finish ==
    /\ once = "running" /\ host > Hosts
    /\ addrs' = Resolved
    /\ once' = "done"
    /\ UNCHANGED <<runner, loopVars, nodes>>

(* Sanity variant: Do returns while another caller runs the function.      *)
DoReturns_Early(c) == once # "new" /\ c # runner

DoReturns(c) == once = "done"

Return(c) ==
    /\ nodes[c] = Nil /\ DoReturns(c)
    /\ nodes' = [nodes EXCEPT ![c] = addrs]
    /\ UNCHANGED <<once, runner, loopVars, addrs>>

Next ==
    \/ \E c \in Callers : Enter(c) \/ Return(c)
    \/ \E records \in SUBSET Records : QueryEnds(records)
    \/ Expire
    \/ QueryCancelled
    \/ Finish

Spec == Init /\ [][Next]_vars

Runs ==
    \/ Expire \/ QueryCancelled \/ Finish
    \/ \E c \in Callers : Enter(c) \/ Return(c)

(* Goroutines run and the timer fires.  No answer need ever come.          *)
FairSpec == Spec /\ WF_vars(Runs)

-----------------------------------------------------------------------------

(* Every variable has its type.                                            *)
TypeOK ==
    /\ once \in {"new", "running", "done"}
    /\ runner \in Callers \cup {Nil}
    /\ host \in 1 .. Hosts + 1 /\ endpoint \in Nat
    /\ expired \in BOOLEAN
    /\ found \subseteq (1 .. Hosts) \X Addresses
    /\ asked \subseteq (1 .. Hosts) \X Nat
    /\ addrs \subseteq ((1 .. Hosts) \X Addresses) \cup Fallback
    /\ nodes \in [Callers -> {Nil} \cup SUBSET (((1 .. Hosts) \X Addresses) \cup Fallback)]

(* Every DHT server starts from the same addresses, and from at least one, *)
(* whichever caller computes them and whatever the network does            *)
(* (bootstrap.go 52-66).                                                   *)
NodesComplete ==
    \A c \in Callers : nodes[c] # Nil => nodes[c] # {} /\ nodes[c] = addrs

(* The hardcoded addresses are the last resort: they are used only when    *)
(* the deadline has passed or every endpoint was asked for every host in   *)
(* vain (bootstrap.go 63-86, 117-126).                                     *)
FallbackIsLast ==
    once = "done" /\ found = {} =>
        expired \/ asked = (1 .. Hosts) \X (1 .. Endpoints)

(* Every caller gets its addresses though no endpoint ever answers.        *)
BootstrapEnds == []<>(\A c \in Callers : nodes[c] # Nil)
=============================================================================
