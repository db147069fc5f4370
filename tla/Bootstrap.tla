------------------------------ MODULE Bootstrap ------------------------------
(***************************************************************************)
(* scripts/bootstrap_pod.sh: a pod is made launch-ready in an order that   *)
(* stops at the first thing that is wrong, and leaves seven receipts on    *)
(* the persistent volume.  A pod can stop at any step, which destroys the  *)
(* checkout on its container disk and keeps the receipts; the script is    *)
(* run again, on this pod or the next, perhaps for another commit.         *)
(***************************************************************************)
EXTENDS Naturals, FiniteSets

CONSTANTS Commits,     \* full SHAs a pod can be asked for
          Bundles,     \* [bundle -> SUBSET Commits], the commits each holds
          MaxAttempts  \* bound on runs of the script over one volume

BootstrapAssumption ==
    /\ MaxAttempts \in Nat
    /\ \A b \in DOMAIN Bundles : Bundles[b] \subseteq Commits

VARIABLES attempts,
          order,     \* what this attempt was asked for, and by what files
          booting,   \* the step it has reached
          tree,      \* ./llama-tools: absent, or what HEAD is and whether clean
          venv,      \* the attempt that installed the environment, or 0
          receipts,  \* for each receipt the attempt that wrote it, and about what
          outcome

BootVars == <<attempts, order, booting, tree, venv, receipts, outcome>>
pod == <<tree, venv, receipts>>

ReceiptNames == {"bundle_sha256", "env_fingerprint", "pip_freeze", "gpu", "image_tag",
                 "auto_terminate_attestation", "reviewed_commit"}
NoTree == [head |-> "none", clean |-> TRUE]
NoReceipt == [by |-> 0, about |-> "nothing"]

BootInit ==
    /\ attempts = 0 /\ booting = "off" /\ outcome = "none"
    /\ order = [commit |-> "none", bundle |-> "none", sidecar |-> "none",
                capped |-> FALSE, image |-> FALSE, dry |-> TRUE]
    /\ tree = NoTree /\ venv = 0
    /\ receipts = [r \in ReceiptNames |-> NoReceipt]

\* The arguments are well formed; capped and image say whether the operator
\* gave an attestation and the pod names its image.  A sidecar is the digest of
\* one bundle, or malformed.
Begin ==
    /\ booting = "off" /\ attempts < MaxAttempts
    /\ attempts' = attempts + 1
    /\ order' \in [commit : Commits, bundle : DOMAIN Bundles \cup {"absent"},
                   sidecar : DOMAIN Bundles \cup {"malformed"},
                   capped : BOOLEAN, image : BOOLEAN, dry : BOOLEAN]
    /\ booting' = "cap" /\ outcome' = "none"
    /\ UNCHANGED pod

Die(class) == booting' = "off" /\ outcome' = class
GoOn(next) == booting' = next /\ UNCHANGED outcome
Real == ~ order.dry
Write(r, about) == receipts' = [receipts EXCEPT ![r] = [by |-> attempts, about |-> about]]

\* STEP 0.
ProviderCap ==
    /\ booting = "cap"
    /\ IF order.capped THEN GoOn("image") ELSE Die("provider_cap")
    /\ UNCHANGED <<attempts, order, pod>>

\* STEP 1.
ImageIdentity ==
    /\ booting = "image"
    /\ IF order.image \/ order.dry THEN GoOn("root") ELSE Die("env")
    /\ UNCHANGED <<attempts, order, pod>>

\* STEP 2: the volume is there and can be written, or not.
EvidenceRoot ==
    /\ booting = "root"
    /\ GoOn("receipt") \/ (Real /\ Die("env"))
    /\ UNCHANGED <<attempts, order, pod>>

\* Mutant: the bundle is taken as it came.
TrustBundle ==
    /\ booting = "receipt"
    /\ IF order.dry THEN GoOn("clone") /\ UNCHANGED receipts
       ELSE IF order.bundle = "absent" THEN Die("bundle") /\ UNCHANGED receipts
       ELSE GoOn("clone") /\ Write("bundle_sha256", order.bundle)
    /\ UNCHANGED <<attempts, order, tree, venv>>

\* STEP 3: exactly one digest in the sidecar, and it is the bundle's.  A receipt
\* that cannot be written ends the script without a class.
BundleReceipt ==
    /\ booting = "receipt"
    /\ \/ order.dry /\ GoOn("clone") /\ UNCHANGED receipts
       \/ Real /\ order.sidecar # order.bundle /\ Die("bundle") /\ UNCHANGED receipts
       \/ /\ Real /\ order.sidecar = order.bundle
          /\ \/ GoOn("clone") /\ Write("bundle_sha256", order.bundle)
             \/ Die("unclassified") /\ UNCHANGED receipts
    /\ UNCHANGED <<attempts, order, tree, venv>>

\* STEP 4.  git clone refuses a directory that is there; it leaves HEAD at the
\* bundle's branch.
Clone ==
    /\ booting = "clone"
    /\ \/ order.dry /\ GoOn("checkout") /\ UNCHANGED tree
       \/ /\ Real /\ tree = NoTree
          /\ \E c \in Bundles[order.bundle], clean \in BOOLEAN :
                 tree' = [head |-> c, clean |-> clean]
          /\ GoOn("checkout")
       \/ Real /\ Die("git") /\ UNCHANGED tree
    /\ UNCHANGED <<attempts, order, venv, receipts>>

\* The bundle must hold the commit before it is checked out.
Checkout ==
    /\ booting = "checkout"
    /\ \/ order.dry /\ GoOn("head") /\ UNCHANGED tree
       \/ /\ Real /\ order.commit \in Bundles[order.bundle]
          /\ tree' \in {tree, [tree EXCEPT !.head = order.commit]}
          /\ GoOn("head")
       \/ Real /\ Die("git") /\ UNCHANGED tree
    /\ UNCHANGED <<attempts, order, venv, receipts>>

\* Mutant: a checkout that said it worked did.
TrustCheckout ==
    /\ booting = "head"
    /\ GoOn("venv")
    /\ UNCHANGED <<attempts, order, pod>>

\* HEAD and the cleanliness of the tree are read back.
AssertHead ==
    /\ booting = "head"
    /\ IF order.dry \/ tree = [head |-> order.commit, clean |-> TRUE]
       THEN GoOn("venv") ELSE Die("git")
    /\ UNCHANGED <<attempts, order, pod>>

\* STEP 5: the venv is created, checked and filled; its sources are in the tree.
Environment ==
    /\ booting = "venv"
    /\ \/ GoOn("preflight") /\ venv' = IF order.dry THEN venv ELSE attempts
       \/ Real /\ Die("git") /\ UNCHANGED venv
       \/ Real /\ Die("env") /\ UNCHANGED venv
    /\ UNCHANGED <<attempts, order, tree, receipts>>

\* STEP 6: timeout, the version tuple, CUDA, and access to the models.
EnvPreflight ==
    /\ booting = "preflight"
    /\ \/ /\ GoOn("access")
          /\ IF order.dry THEN UNCHANGED receipts ELSE Write("env_fingerprint", "pod")
       \/ Real /\ Die("env") /\ UNCHANGED receipts
    /\ UNCHANGED <<attempts, order, tree, venv>>

HfAccess ==
    /\ booting = "access"
    /\ GoOn("freeze") \/ (Real /\ Die("env"))
    /\ UNCHANGED <<attempts, order, pod>>

\* STEP 7.  A dry run announces it and is over.
Freeze ==
    /\ booting = "freeze"
    /\ \/ order.dry /\ Die("ok") /\ UNCHANGED receipts
       \/ Real /\ GoOn("gpu") /\ Write("pip_freeze", "pod")
       \/ Real /\ Die("env") /\ UNCHANGED receipts
    /\ UNCHANGED <<attempts, order, tree, venv>>

\* Mutant: what nvidia-smi could not say is passed over.
GpuOptional ==
    /\ booting = "gpu"
    /\ GoOn("image_tag") /\ (Write("gpu", "pod") \/ UNCHANGED receipts)
    /\ UNCHANGED <<attempts, order, tree, venv>>

Gpu ==
    /\ booting = "gpu"
    /\ \/ GoOn("image_tag") /\ Write("gpu", "pod")
       \/ Die("env") /\ UNCHANGED receipts
    /\ UNCHANGED <<attempts, order, tree, venv>>

\* The last three are written one by one.
RecordPod ==
    /\ \/ booting = "image_tag" /\ Write("image_tag", "pod") /\ GoOn("attest")
       \/ booting = "attest" /\ Write("auto_terminate_attestation", "pod") /\ GoOn("reviewed")
       \/ booting = "reviewed" /\ Write("reviewed_commit", order.commit) /\ GoOn("inventory")
       \/ /\ booting \in {"image_tag", "attest", "reviewed"} /\ Die("unclassified")
          /\ UNCHANGED receipts
    /\ UNCHANGED <<attempts, order, tree, venv>>

\* All seven are there, and the fingerprint's locale is readable.
Inventory ==
    /\ booting = "inventory"
    /\ \/ (\A r \in ReceiptNames : receipts[r] # NoReceipt) /\ Die("ok")
       \/ Die("env")
    /\ UNCHANGED <<attempts, order, pod>>

\* The pod stops: its container disk is gone.  The script dies with it.
Stop ==
    /\ tree' = NoTree /\ venv' = 0
    /\ IF booting = "off" THEN tree # NoTree /\ UNCHANGED <<booting, outcome>> ELSE Die("killed")
    /\ outcome = "ok" => outcome' = "ok"
    /\ UNCHANGED <<attempts, order, receipts>>

BootNext ==
    \/ Begin \/ ProviderCap \/ ImageIdentity \/ EvidenceRoot \/ BundleReceipt \/ Clone
    \/ Checkout \/ AssertHead \/ Environment \/ EnvPreflight \/ HfAccess \/ Freeze
    \/ Gpu \/ RecordPod \/ Inventory \/ Stop

BootSpec == BootInit /\ [][BootNext]_BootVars

-----------------------------------------------------------------------------
(* Properties. *)

\* "Pod is launch-ready at <commit>" is true: the tree is exactly the reviewed
\* commit, out of a bundle whose digest travelled separately, and every receipt
\* on the volume is this attempt's, whatever earlier ones left there.
LaunchReadyIsReviewed ==
    outcome = "ok" /\ Real =>
        /\ order.capped /\ order.image
        /\ tree # NoTree => tree = [head |-> order.commit, clean |-> TRUE] /\ venv = attempts
        /\ order.bundle = order.sidecar /\ order.commit \in Bundles[order.bundle]
        /\ \A r \in ReceiptNames : receipts[r].by = attempts
        /\ receipts["reviewed_commit"].about = order.commit
        /\ receipts["bundle_sha256"].about = order.bundle

\* Nothing on the pod or the volume changes for a dry run, nor before the spend
\* cap is acknowledged; no object of an unverified bundle is ever unpacked.
ClosedUntilVerified ==
    \/ UNCHANGED pod \/ Stop
    \/ /\ Real /\ order.capped
       /\ tree' # tree => receipts["bundle_sha256"] = [by |-> attempts, about |-> order.sidecar]
FailsClosed == [][ClosedUntilVerified]_BootVars
=============================================================================
