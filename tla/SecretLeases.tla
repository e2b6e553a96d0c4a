----------------------------- MODULE SecretLeases -----------------------------
(* The credentials of MCP servers and the leases of them                     *)
(* (tool_registry/sqlalchemy_store.py, tool_gateway/service.py).  A server   *)
(* names a credential; the gateway reads the server, takes a lease of its    *)
(* credential and calls the server with the lease.  Credentials are archived *)
(* and leases revoked while requests are on their way.  Nothing reads when a *)
(* lease expires, and archiving a credential leaves its leases as they are.  *)
EXTENDS Naturals, Sequences

CONSTANTS LeaseRequests,  \* the requests that may be in progress
          Credentials,    \* references, unique in the project
          CredentialUsers,\* the servers that may be registered
          MaxLeases       \* bound: leases ever taken

VARIABLES credential,  \* reference -> the status of its row
          names,       \* server -> the credential its row names
          secretLeases,\* the lease rows, in order
          leasing,     \* what each request does and has read
          leasedCalls  \* the calls the gateway has made

leaseVars == <<credential, names, secretLeases, leasing, leasedCalls>>

NoCredential == "none"

\* Words that stand for no server and no credential.
ASSUME NamesAreNames == /\ "none" \notin CredentialUsers
                        /\ Credentials \cap {NoCredential, "unregistered"} = {}

\* A request: the server it is for, the credential it read, the lease it
\* holds and the credentials that were archived when it began.
NotLeasing == [at |-> "idle", server |-> "none", credential |-> NoCredential, lease |-> 0, gone |-> {}]

NewLease(c) == [credential |-> c, status |-> "active"]

LeaseInit ==
    /\ credential = [c \in Credentials |-> "unused"]
    /\ names = [m \in CredentialUsers |-> "unregistered"]
    /\ secretLeases = <<>>
    /\ leasing = [r \in LeaseRequests |-> NotLeasing]
    /\ leasedCalls = {}

StartsLeasing(r, at, m, c) ==
    /\ leasing[r] = NotLeasing
    /\ leasing' = [leasing EXCEPT ![r] = [at |-> at, server |-> m, credential |-> c, lease |-> 0,
                                          gone |-> {x \in Credentials : credential[x] = "archived"}]]
Continues(r, at) == leasing' = [leasing EXCEPT ![r].at = at]
EndsLeasing(r) == leasing' = [leasing EXCEPT ![r] = NotLeasing]

\* A reference is used once: an archived one is refused again.
CreateCredential(c) ==
    /\ credential[c] = "unused"
    /\ credential' = [credential EXCEPT ![c] = "active"]
    /\ UNCHANGED <<names, secretLeases, leasing, leasedCalls>>

ArchiveCredential(c) ==
    /\ credential[c] = "active"
    /\ credential' = [credential EXCEPT ![c] = "archived"]
    /\ UNCHANGED <<names, secretLeases, leasing, leasedCalls>>

\* A server may name no credential, and otherwise an active one ...
EnsureCredential(r, m, c) ==
    /\ c # NoCredential => credential[c] = "active"
    /\ StartsLeasing(r, "insert", m, c)
    /\ UNCHANGED <<credential, names, secretLeases, leasedCalls>>

\* ... which may be archived before its row is inserted.
InsertServer(r) ==
    /\ leasing[r].at = "insert"
    /\ names' = [names EXCEPT ![leasing[r].server] = IF @ = "unregistered" THEN leasing[r].credential ELSE @]
    /\ EndsLeasing(r)
    /\ UNCHANGED <<credential, secretLeases, leasedCalls>>

\* A person takes a lease, of no server.
RequestLease(r, c) ==
    /\ StartsLeasing(r, "read", "none", c)
    /\ UNCHANGED <<credential, names, secretLeases, leasedCalls>>

\* Mutant: a server whose credential is not active is taken for one that needs none.
LeaseNeeded_Active(m) == names[m] # NoCredential /\ credential[names[m]] = "active"

\* if server.credential_ref:
LeaseNeeded(m) == names[m] # NoCredential

\* The server and whether its credential is active are read in one statement;
\* a credential that is not ends the request.
ReadServer(r, m) ==
    /\ names[m] # "unregistered"
    /\ LeaseNeeded(m) => credential[names[m]] = "active"
    /\ StartsLeasing(r, IF LeaseNeeded(m) THEN "read" ELSE "call", m, names[m])
    /\ UNCHANGED <<credential, names, secretLeases, leasedCalls>>

\* The credential is read once more ...
ReadCredential(r) ==
    /\ leasing[r].at = "read"
    /\ IF credential[leasing[r].credential] = "active" THEN Continues(r, "commit") ELSE EndsLeasing(r)
    /\ UNCHANGED <<credential, names, secretLeases, leasedCalls>>

\* ... and the lease committed, with the intent that records who asked for it.
CommitLease(r) ==
    /\ leasing[r].at = "commit"
    /\ Len(secretLeases) < MaxLeases
    /\ secretLeases' = Append(secretLeases, NewLease(leasing[r].credential))
    /\ IF leasing[r].server = "none" THEN EndsLeasing(r)
       ELSE leasing' = [leasing EXCEPT ![r] = [at |-> "call", server |-> @.server, credential |-> @.credential,
                                               lease |-> Len(secretLeases'), gone |-> @.gone]]
    /\ UNCHANGED <<credential, names, leasedCalls>>

\* The call carries the lease in a header; it fails or succeeds.
CallWithLease(r) ==
    /\ leasing[r].at = "call"
    /\ leasedCalls' = leasedCalls \cup
         {[by |-> r, server |-> leasing[r].server, lease |-> leasing[r].lease, gone |-> leasing[r].gone]}
    /\ EndsLeasing(r)
    /\ UNCHANGED <<credential, names, secretLeases>>

RevokeLease(l) ==
    /\ secretLeases' = [secretLeases EXCEPT ![l].status = "revoked"]
    /\ UNCHANGED <<credential, names, leasing, leasedCalls>>

LeaseNext ==
    \/ \E c \in Credentials : CreateCredential(c) \/ ArchiveCredential(c)
    \/ \E r \in LeaseRequests :
           \/ \E m \in CredentialUsers : \/ \E c \in Credentials \cup {NoCredential} : EnsureCredential(r, m, c)
                                         \/ ReadServer(r, m)
           \/ \E c \in Credentials : RequestLease(r, c)
           \/ InsertServer(r) \/ ReadCredential(r) \/ CommitLease(r) \/ CallWithLease(r)
    \/ \E l \in DOMAIN secretLeases : RevokeLease(l)

LeaseSpec == LeaseInit /\ [][LeaseNext]_leaseVars

\* A server registered with a credential is never called without a lease of
\* it, one no other call carries, and never with a credential archived before
\* the request began; archiving it in between does not turn the server into
\* one that needs none.
CallsAreLeased ==
    \A x \in leasedCalls : names[x.server] # NoCredential =>
        /\ x.lease \in DOMAIN secretLeases
        /\ secretLeases[x.lease].credential = names[x.server]
        /\ names[x.server] \notin x.gone
        /\ \A y \in leasedCalls : y.lease = x.lease => y = x
=============================================================================
