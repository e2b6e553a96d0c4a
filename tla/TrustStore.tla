------------------------------- MODULE TrustStore -------------------------------
(* The certificates the Notation verifier trusts: uploads put the bundle in  *)
(* the object store under a version of its reference and then insert its row *)
(* (tool_registry/sqlalchemy_store.py), a verification reads the policy, then*)
(* the rows, fetches the bundles of the trust stores the policy names and    *)
(* runs `notation verify` with the files (image_evidence.py).  Uploads run   *)
(* at the same time and can be lost at any point.                            *)
EXTENDS Naturals, FiniteSetsExt

CONSTANTS Uploads,         \* requests that upload a bundle
          TrustStores,     \* <<store_type, store_name>>
          Bundles,         \* contents: PEM bundles, by the key that signs under them
          Malformed,       \* those that hold a private key or do not parse
          MaxVerifications \* bound: verifications after one another

\* One reference of a name in each store: versions count by store and reference.
VARIABLES trustedStores, \* the stores the project's trust policy names
          certificates,  \* the rows
          bundleObjects, \* the object store
          upload,        \* each upload: where it is, its store, bundle and version
          verification   \* the verification under way

trustVars == <<trustedStores, certificates, bundleObjects, upload, verification>>

NoVerification == [at |-> "none", stores |-> {}, listed |-> {}, files |-> {}, signer |-> "none",
                   outcome |-> "none", count |-> 0]

TrustInit ==
    /\ trustedStores \in SUBSET TrustStores
    /\ certificates = {} /\ bundleObjects = {}
    /\ upload = [u \in Uploads |-> [at |-> "idle"]]
    /\ verification = NoVerification

SetTrustPolicy(stores) == /\ trustedStores' = stores
                          /\ UNCHANGED <<certificates, bundleObjects, upload, verification>>

----------------------------------------------------------------------------
\* Mutant: the version of the reference alone names the object.
ObjectKey_ByVersion(store, version, bundle) == [store |-> store, version |-> version]

\* The object's name carries the digest of its content.
ObjectKey(store, version, bundle) == [store |-> store, version |-> version, digest |-> bundle]

NextVersion(store) == 1 + Max({0} \cup {c.version : c \in {x \in certificates : x.store = store}})

WellFormed(bundle) == bundle \notin Malformed

\* A bundle is checked first; the highest version is read and one added.
ReadVersion(u, store, bundle) ==
    /\ upload[u].at = "idle" /\ WellFormed(bundle)
    /\ upload' = [upload EXCEPT ![u] = [at |-> "put", store |-> store, bundle |-> bundle,
                                        version |-> NextVersion(store)]]
    /\ UNCHANGED <<trustedStores, certificates, bundleObjects, verification>>

PutObject(u) ==
    /\ upload[u].at = "put"
    /\ LET key == ObjectKey(upload[u].store, upload[u].version, upload[u].bundle)
       IN  /\ bundleObjects' = {o \in bundleObjects : o.key # key} \cup {[key |-> key, body |-> upload[u].bundle]}
           /\ upload' = [upload EXCEPT ![u] = [at |-> "insert", key |-> key, store |-> @.store,
                                               bundle |-> @.bundle, version |-> @.version]]
    /\ UNCHANGED <<trustedStores, certificates, verification>>

CertificateRow(u) == [store |-> upload[u].store, version |-> upload[u].version, key |-> upload[u].key,
                      sha256 |-> upload[u].bundle]
SameVersion(c, d) == c.store = d.store /\ c.version = d.version

\* The same version inserted by another upload is a conflict (422), and the
\* object stays; so it does if the process dies before the row is committed.
InsertCertificate(u) ==
    /\ upload[u].at = "insert"
    /\ certificates' = certificates \cup
         IF \E c \in certificates : SameVersion(c, CertificateRow(u)) THEN {} ELSE {CertificateRow(u)}
    /\ upload' = [upload EXCEPT ![u] = [at |-> "done"]]
    /\ UNCHANGED <<trustedStores, bundleObjects, verification>>

LoseUpload(u) ==
    /\ upload[u].at \in {"put", "insert"}
    /\ upload' = [upload EXCEPT ![u] = [at |-> "done"]]
    /\ UNCHANGED <<trustedStores, certificates, bundleObjects, verification>>

----------------------------------------------------------------------------
\* The policy of an admission's request is read, and then the certificates.
ReadTrustPolicy(signer) ==
    /\ verification.at \in {"none", "done"} /\ verification.count < MaxVerifications
    /\ verification' = [NoVerification EXCEPT !.at = "list", !.stores = trustedStores, !.signer = signer,
                                              !.count = verification.count + 1]
    /\ UNCHANGED <<trustedStores, certificates, bundleObjects, upload>>

\* Without a trust policy nothing is verified: failed at once.
ListCertificates ==
    /\ verification.at = "list"
    /\ verification' =
         IF verification.stores = {} THEN [verification EXCEPT !.at = "done", !.outcome = "unconfigured"]
         ELSE [verification EXCEPT !.at = "materialize",
                                   !.listed = {c \in certificates : c.store \in verification.stores}]
    /\ UNCHANGED <<trustedStores, certificates, bundleObjects, upload>>

\* One certificate after the other: its object is fetched, its digest compared
\* with the row's and the file written into its store's directory.
Materialize(c) ==
    /\ verification.at = "materialize"
    /\ c \in verification.listed /\ ~\E f \in verification.files : f.store = c.store /\ f.version = c.version
    /\ verification' =
         IF \E o \in bundleObjects : o.key = c.key /\ o.body = c.sha256
         THEN [verification EXCEPT !.files = @ \cup {[store |-> c.store, version |-> c.version,
                                                      body |-> c.sha256]}]
         ELSE [verification EXCEPT !.at = "done", !.outcome = "mismatch"]
    /\ UNCHANGED <<trustedStores, certificates, bundleObjects, upload>>

\* The object store does not answer, or notation fails or times out.
FailVerification ==
    /\ verification.at = "materialize"
    /\ verification' = [verification EXCEPT !.at = "done", !.outcome = "failed"]
    /\ UNCHANGED <<trustedStores, certificates, bundleObjects, upload>>

\* notation passes an image signed under one of the files.
Verify ==
    /\ verification.at = "materialize"
    /\ Cardinality(verification.files) = Cardinality(verification.listed)
    /\ verification' = [verification EXCEPT !.at = "done", !.outcome =
                           IF \E f \in verification.files : f.body = verification.signer
                           THEN "passed" ELSE "rejected"]
    /\ UNCHANGED <<trustedStores, certificates, bundleObjects, upload>>

TrustNext ==
    \/ \E stores \in SUBSET TrustStores : SetTrustPolicy(stores)
    \/ \E u \in Uploads : \/ \E s \in TrustStores, b \in Bundles : ReadVersion(u, s, b)
                          \/ PutObject(u) \/ InsertCertificate(u) \/ LoseUpload(u)
    \/ \E b \in Bundles : ReadTrustPolicy(b)
    \/ ListCertificates \/ FailVerification \/ Verify
    \/ \E c \in verification.listed : Materialize(c)

TrustSpec == TrustInit /\ [][TrustNext]_trustVars

----------------------------------------------------------------------------
\* Uploads at the same time, one lost or refused after its object was put,
\* never spoil a certificate that was accepted: a verification finds every
\* listed certificate as it was uploaded, and passes exactly the images signed
\* under a certificate of a store its policy names.
TrustIsExact ==
    /\ verification.outcome # "mismatch"
    /\ verification.outcome \in {"passed", "rejected"} =>
          /\ (verification.outcome = "passed") <=> \E c \in verification.listed : c.sha256 = verification.signer
          /\ \A c \in verification.listed : c \in certificates /\ c.store \in verification.stores
=============================================================================
