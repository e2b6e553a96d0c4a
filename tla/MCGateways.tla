------------------------------ MODULE MCGateways ------------------------------
(* Two gateways, each on an instance of its own: the calls that may need an  *)
(* approval, and the queries over documents.  A behaviour is one of a single *)
(* gateway; the variables of the other rest at an initial value.             *)
EXTENDS Approvals, Retrieval, TLC

VARIABLE gateway

MCInit ==
    /\ gateway \in {"calls", "queries"}
    /\ Init /\ RetrievalInit
    /\ gateway = "queries" => /\ kind = [c \in Calls |-> "tool"] /\ schedule = "turns"
                              /\ admitted = "no" /\ verdict = "denied" /\ backend = "missing"

\* Bound: documents have this many versions together.
MaxStored == 3
StoredVersions == Cardinality({c \in Chunks : c[2] \in Numbers(c[1])})

MCNext ==
    /\ UNCHANGED gateway
    /\ \/ gateway = "calls" /\ Next /\ UNCHANGED retrievalVars
       \/ gateway = "queries" /\ RetrievalNext /\ UNCHANGED vars /\ StoredVersions' <= MaxStored

\* Documents and handlers are model values, and any may be exchanged.
GatewaySymmetry == Permutations(Documents) \cup Permutations(Handlers)
=============================================================================
