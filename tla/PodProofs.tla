------------------------------- MODULE PodProofs -------------------------------
(***************************************************************************)
(* What the programs of a paid probe have established when they end well,  *)
(* and what they leave when they do not: the bootstrap, for any commits,   *)
(* any bundles and any number of attempts over one volume, the acquisition *)
(* of fixtures, for any contents, any manifests and any number of fetches, *)
(* killed or not, the isolation ladder and the generation run.             *)
(***************************************************************************)
EXTENDS Bootstrap, Fixtures, Ladder, BfclRun, FiniteSetTheorems, TLAPS

-----------------------------------------------------------------------------
(* Part 1: a pod that is said to be launch-ready is.                       *)
(*                                                                         *)
(* The receipts of earlier attempts are still there, and nothing the       *)
(* script reads tells them from its own.  So the invariant goes step by    *)
(* step: what each one that was passed has established, for this attempt.  *)

\* The steps after each step that establishes something.
AfterReviewed == {"inventory"}
AfterAttest == AfterReviewed \cup {"reviewed"}
AfterImageTag == AfterAttest \cup {"attest"}
AfterGpu == AfterImageTag \cup {"image_tag"}
AfterFreeze == AfterGpu \cup {"gpu"}
AfterPreflight == AfterFreeze \cup {"access", "freeze"}
AfterVenv == AfterPreflight \cup {"preflight"}
AfterHead == AfterVenv \cup {"venv"}
AfterCheckout == AfterHead \cup {"head"}
AfterReceipt == AfterCheckout \cup {"clone", "checkout"}
AfterImage == AfterReceipt \cup {"root", "receipt"}
AfterCap == AfterImage \cup {"image"}

Abouts == Commits \cup DOMAIN Bundles \cup {"nothing", "pod"}
Orders == [commit : Commits, bundle : DOMAIN Bundles \cup {"absent"},
           sidecar : DOMAIN Bundles \cup {"malformed"},
           capped : BOOLEAN, image : BOOLEAN, dry : BOOLEAN]

BootTypeInv ==
    /\ attempts \in Nat
    /\ booting \in AfterCap \cup {"off", "cap"}
    /\ booting # "off" => order \in Orders /\ outcome # "ok"
    /\ receipts \in [ReceiptNames -> [by : Nat, about : Abouts]]

Mine(r) == receipts[r].by = attempts

\* The spend cap first, and the bundle before anything comes out of it; a dry run is
\* over before the last receipts.
GateInv ==
    /\ booting \in AfterFreeze => Real
    /\ booting \in AfterCap => order.capped
    /\ Real /\ booting \in AfterImage => order.image
    /\ Real /\ booting \in AfterReceipt =>
           /\ order.bundle = order.sidecar
           /\ receipts["bundle_sha256"] = [by |-> attempts, about |-> order.bundle]

\* The tree and the environment.
TreeInv ==
    Real =>
        /\ booting \in AfterCheckout => order.commit \in Bundles[order.bundle]
        /\ booting \in AfterHead => tree = [head |-> order.commit, clean |-> TRUE]
        /\ booting \in AfterVenv => venv = attempts

\* The receipts, in the order in which they are written.
ReceiptInv ==
    Real =>
        /\ booting \in AfterPreflight => Mine("env_fingerprint")
        /\ booting \in AfterGpu \cup {"gpu"} => Mine("pip_freeze")
        /\ booting \in AfterGpu => Mine("gpu")
        /\ booting \in AfterImageTag => Mine("image_tag")
        /\ booting \in AfterAttest => Mine("auto_terminate_attestation")
        /\ booting \in AfterReviewed =>
               receipts["reviewed_commit"] = [by |-> attempts, about |-> order.commit]

BootInv == BootTypeInv /\ GateInv /\ TreeInv /\ ReceiptInv /\ LaunchReadyIsReviewed

-----------------------------------------------------------------------------
LEMMA BootInitInv == BootstrapAssumption /\ BootInit => BootInv
BY DEF BootInit, BootInv, BootTypeInv, GateInv, TreeInv, ReceiptInv, LaunchReadyIsReviewed,
       Abouts, NoReceipt, AfterCap, AfterImage, AfterReceipt, AfterCheckout, AfterHead, AfterVenv,
       AfterPreflight, AfterFreeze, AfterGpu, AfterImageTag, AfterAttest, AfterReviewed,
       Real, BootstrapAssumption

\* One step per action; what an action leaves alone, it leaves established.
LEMMA BootNextInv == BootstrapAssumption /\ BootInv /\ [BootNext]_BootVars => BootInv'
<1> SUFFICES ASSUME BootstrapAssumption, BootInv, [BootNext]_BootVars PROVE BootInv'
  OBVIOUS
<1> USE DEF BootInv, BootTypeInv, GateInv, TreeInv, ReceiptInv, LaunchReadyIsReviewed, Mine, Real,
            AfterCap, AfterImage, AfterReceipt, AfterCheckout, AfterHead, AfterVenv,
            AfterPreflight, AfterFreeze, AfterGpu, AfterImageTag, AfterAttest,
            AfterReviewed, GoOn, Die, pod
<1>1. CASE Begin
  BY <1>1 DEF Begin, Orders
<1>2. CASE ProviderCap
  BY <1>2 DEF ProviderCap
<1>3. CASE ImageIdentity
  BY <1>3 DEF ImageIdentity
<1>4. CASE EvidenceRoot
  BY <1>4 DEF EvidenceRoot
<1>5. CASE BundleReceipt
  BY <1>5 DEF BundleReceipt, Orders, Abouts, Write, ReceiptNames
<1>6. CASE Clone
  BY <1>6 DEF Clone, NoTree
<1>7. CASE Checkout
  BY <1>7 DEF Checkout
<1>8. CASE AssertHead
  BY <1>8 DEF AssertHead
<1>9. CASE Environment
  BY <1>9 DEF Environment
<1>10. CASE EnvPreflight
  BY <1>10 DEF EnvPreflight, Abouts, Write, ReceiptNames
<1>11. CASE HfAccess
  BY <1>11 DEF HfAccess
<1>12. CASE Freeze
  BY <1>12 DEF Freeze, Abouts, Write, ReceiptNames
<1>13. CASE Gpu
  BY <1>13 DEF Gpu, Abouts, Write, ReceiptNames
<1>14. CASE RecordPod
  BY <1>14 DEF RecordPod, Orders, Abouts, Write, ReceiptNames
<1>15. CASE Inventory
  BY <1>15 DEF Inventory, Orders, ReceiptNames
<1>16. CASE Stop
  BY <1>16 DEF Stop
<1>17. CASE UNCHANGED BootVars
  BY <1>17 DEF BootVars
<1> QED
  BY <1>1, <1>2, <1>3, <1>4, <1>5, <1>6, <1>7, <1>8, <1>9, <1>10, <1>11, <1>12, <1>13,
     <1>14, <1>15, <1>16, <1>17 DEF BootNext

\* A tree changes when a bundle is unpacked or a commit checked out of it, both
\* behind GateInv, or when the pod stops; every other change is a real one.
LEMMA NextFailsClosed ==
    ASSUME BootInv, BootNext PROVE ClosedUntilVerified
<1> USE DEF BootInv, GateInv, ClosedUntilVerified, pod, Real, AfterCap, AfterImage,
   AfterReceipt,
            AfterCheckout, AfterHead, AfterVenv, AfterPreflight, AfterFreeze, AfterGpu,
            AfterImageTag, AfterAttest, AfterReviewed, GoOn, Die
<1>1. CASE Begin \/ ProviderCap \/ ImageIdentity \/ EvidenceRoot \/ AssertHead \/ HfAccess
           \/ Inventory
  BY <1>1 DEF Begin, ProviderCap, ImageIdentity, EvidenceRoot, AssertHead, HfAccess,
     Inventory
<1>2. CASE BundleReceipt \/ EnvPreflight \/ Freeze \/ Gpu \/ RecordPod
  BY <1>2 DEF BundleReceipt, EnvPreflight, Freeze, Gpu, RecordPod, BootTypeInv
<1>3. CASE Clone \/ Checkout \/ Environment
  BY <1>3 DEF Clone, Checkout, Environment
<1>4. CASE Stop
  BY <1>4
<1> QED BY <1>1, <1>2, <1>3, <1>4 DEF BootNext

\* "Pod is launch-ready at <commit>" is true of the tree, the environment and every
\* receipt on the volume, whatever earlier attempts left there.
THEOREM ReadyMeansReviewed ==
    ASSUME BootstrapAssumption
    PROVE  BootSpec => []LaunchReadyIsReviewed
<1>1. BootInv => LaunchReadyIsReviewed
  BY DEF BootInv
<1> QED BY BootInitInv, BootNextInv, <1>1, PTL DEF BootSpec

\* A dry run, and a run without a spend cap, change nothing; nothing is unpacked
\* that was not verified.
THEOREM NothingBeforeItsGate ==
    ASSUME BootstrapAssumption
    PROVE  BootSpec => FailsClosed
<1>1. BootInv /\ [BootNext]_BootVars => [ClosedUntilVerified]_BootVars
  BY NextFailsClosed
<1> QED BY BootInitInv, BootNextInv, <1>1, PTL DEF BootSpec, FailsClosed

-----------------------------------------------------------------------------
(* Part 2: a fetch that ends well vouches for the fixtures.                *)
(*                                                                         *)
(* Files and copies that earlier fetches left may be parts of anything.    *)
(* The invariant says what this fetch knows of the files it has been       *)
(* through, in each phase; the preflight then makes of it what the fetch   *)
(* vouches for, because no role occurs twice in a category.                *)

Files == plan.manifest.files

\* File i is verified, and has its copy if copies are made.
Verified(i) == payloads[i] = Files[i].pin
Copy(i) == plan.backup => backups[Files[i].pin] = Files[i].pin

FetchTypeInv ==
    /\ phase \in {"done", "file", "verify", "replace", "backup", "copied", "next"}
    /\ at \in Nat \ {0}
    /\ payloads \in Seq(Contents)
    /\ fixtures \in [Paths -> Contents \cup {Missing}]
    /\ backups \in [Contents -> Contents \cup {Missing, Partial}]
    /\ phase \in {"verify", "replace"} => payload \in Contents

\* Where a fetch is in its manifest, and what it has verified so far.
ProgressInv ==
    phase # "done" =>
        /\ plan.manifest \in FixtureManifests /\ Unambiguous(plan.manifest)
        /\ verdict = "none"
        /\ at <= Len(Files) + (IF phase = "file" THEN 1 ELSE 0)
        /\ Len(payloads) = IF phase \in {"file", "verify", "replace"} THEN at - 1 ELSE at
        /\ \A i \in 1 .. Len(payloads) : Verified(i)
        /\ \A i \in 1 .. (at - 1) : Copy(i)
        /\ phase = "replace" => payload = Files[at].pin
        /\ phase = "next" => Copy(at)

FetchInv == FetchTypeInv /\ ProgressInv /\ FetchVouches

-----------------------------------------------------------------------------
LEMMA FetchInitInv == FixturesInit => FetchInv
BY DEF FixturesInit, FetchInv, FetchTypeInv, ProgressInv, FetchVouches

\* The file of a role is the only one, so its bytes are the ones that count.
LEMMA PayloadOfTheRole ==
    ASSUME NEW m, Unambiguous(m), NEW bytes, NEW i \in DOMAIN bytes,
           DOMAIN bytes \subseteq DOMAIN m.files, DOMAIN bytes \subseteq Nat
    PROVE  PayloadOf(m, bytes, m.files[i].cat, m.files[i].role) = bytes[i]
<1> DEFINE mine == {j \in DOMAIN bytes : /\ m.files[j].cat = m.files[i].cat
                                         /\ m.files[j].role = m.files[i].role}
<1>1. mine = {i}
  BY DEF Unambiguous
<1>2. (CHOOSE k \in mine : \A j \in mine : j <= k) = i
  BY <1>1
<1> QED BY <1>1, <1>2 DEF PayloadOf

\* Bytes of a role there are come from a file of it.
LEMMA PayloadHasAFile ==
    ASSUME NEW m, NEW bytes, NEW cat, NEW role, Unambiguous(m),
           DOMAIN bytes \subseteq DOMAIN m.files, DOMAIN bytes \subseteq Nat,
           PayloadOf(m, bytes, cat, role) # Missing
    PROVE  \E i \in DOMAIN bytes : /\ m.files[i].cat = cat /\ m.files[i].role = role
                                   /\ PayloadOf(m, bytes, cat, role) = bytes[i]
<1>1. PICK i \in DOMAIN bytes : m.files[i].cat = cat /\ m.files[i].role = role
  BY DEF PayloadOf
<1> QED BY <1>1, PayloadOfTheRole

\* What the preflight makes of a manifest whose files are all verified.
LEMMA PreflightVouches ==
    ASSUME NEW m, m.files \in Seq(FileSpecs), NEW bytes \in Seq(Contents),
           Len(bytes) = Len(m.files), Missing \notin Contents,
           \A i \in DOMAIN m.files : bytes[i] = m.files[i].pin,
           PreflightManifestKeys(m, bytes)
    PROVE  /\ \A i \in DOMAIN m.files : m.files[i].role # "questions" =>
                  \E j \in DOMAIN m.files :
                      /\ m.files[j].cat = m.files[i].cat /\ m.files[j].role = "questions"
                      /\ Offered(m.files[i].pin, m.files[j].pin)
                         <=> (m.files[i].role = "answer_key" \/ m.files[i].expect = "clean")
           /\ \A cat \in Categories(m) :
                  \/ m.declared[cat] = "none_by_schema"
                  \/ \E i \in DOMAIN m.files :
                         m.files[i].cat = cat /\ m.files[i].role = "answer_key"
<1>1. /\ DOMAIN bytes = DOMAIN m.files /\ DOMAIN m.files \subseteq Nat
      /\ Unambiguous(m) /\ DOMAIN m.declared = Categories(m)
  BY DEF PreflightManifestKeys
<1>2. ASSUME NEW i \in DOMAIN m.files, NEW expect,
             PreflightOne(m, bytes, m.files[i].cat, m.files[i].role, expect)
      PROVE  \E j \in DOMAIN m.files :
                 /\ m.files[j].cat = m.files[i].cat /\ m.files[j].role = "questions"
                 /\ Offered(m.files[i].pin, m.files[j].pin) <=> expect = "clean"
  <2>1. PayloadOf(m, bytes, m.files[i].cat, m.files[i].role) = m.files[i].pin
    BY <1>1, PayloadOfTheRole
  <2>2. PICK j \in DOMAIN bytes :
            /\ m.files[j].cat = m.files[i].cat /\ m.files[j].role = "questions"
            /\ PayloadOf(m, bytes, m.files[i].cat, "questions") = bytes[j]
    BY <1>1, <1>2, PayloadHasAFile DEF PreflightOne
  <2> QED BY <1>1, <1>2, <2>1, <2>2 DEF PreflightOne
<1>3. ASSUME NEW i \in DOMAIN m.files, m.files[i].role = "answer_key"
      PROVE  PreflightOne(m, bytes, m.files[i].cat, "answer_key", "clean")
  <2>1. PolicyHolds(m, bytes, m.files[i].cat)
    BY <1>1 DEF PreflightManifestKeys, Categories
  <2>2. PayloadOf(m, bytes, m.files[i].cat, "answer_key") = m.files[i].pin
    BY <1>1, <1>3, PayloadOfTheRole
  <2>3. m.files[i].pin \in Contents
    BY DEF FileSpecs
  <2> QED BY <2>1, <2>2, <2>3 DEF PolicyHolds
<1>4. ASSUME NEW i \in DOMAIN m.files, m.files[i].role # "questions"
      PROVE  \E j \in DOMAIN m.files :
                 /\ m.files[j].cat = m.files[i].cat /\ m.files[j].role = "questions"
                 /\ Offered(m.files[i].pin, m.files[j].pin)
                    <=> (m.files[i].role = "answer_key" \/ m.files[i].expect = "clean")
  <2>1. CASE m.files[i].role = "answer_key"
    <3>1. PreflightOne(m, bytes, m.files[i].cat, m.files[i].role, "clean")
      BY <1>3, <2>1
    <3> QED BY <1>2, <2>1, <3>1
  <2>2. CASE m.files[i].role # "answer_key"
    <3>1. PreflightOne(m, bytes, m.files[i].cat, m.files[i].role, m.files[i].expect)
      BY <1>4, <2>2 DEF PreflightManifestKeys
    <3> QED BY <1>2, <2>2, <3>1
  <2> QED BY <2>1, <2>2
<1>5. ASSUME NEW cat \in Categories(m), m.declared[cat] # "none_by_schema"
      PROVE  \E i \in DOMAIN m.files : m.files[i].cat = cat /\ m.files[i].role = "answer_key"
  <2>1. PayloadOf(m, bytes, cat, "answer_key") # Missing
    BY <1>1, <1>5 DEF PreflightManifestKeys, PolicyHolds
  <2> QED BY <1>1, <2>1, PayloadHasAFile
<1> QED BY <1>4, <1>5

-----------------------------------------------------------------------------
LEMMA FetchNextInv ==
    FixturesAssumption /\ FetchInv /\ [FixturesNext]_FixturesVars => FetchInv'
<1> SUFFICES ASSUME FixturesAssumption, FetchInv, [FixturesNext]_FixturesVars PROVE FetchInv'
  OBVIOUS
<1>0. /\ Missing \notin Contents
      /\ phase # "done" => Files \in Seq(FileSpecs)
  BY DEF FixturesAssumption, Missing, FetchInv, ProgressInv, Files
<1>a. ASSUME verdict' # "ok" PROVE FetchVouches'
  BY <1>a DEF FetchVouches
<1>b. ASSUME phase # "done"
      PROVE  /\ Len(Files) \in Nat /\ DOMAIN Files = 1 .. Len(Files)
             /\ \A i \in 1 .. Len(Files) : Files[i].path \in Paths /\ Files[i].pin \in Contents
  <2>1. Files \in Seq(FileSpecs)
    BY <1>0, <1>b
  <2>2. \A i \in 1 .. Len(Files) : Files[i] \in FileSpecs
    BY <2>1
  <2> QED BY <2>1, <2>2 DEF FileSpecs
<1>c. Files = plan.manifest.files /\ Here = Files[at] /\ (plan' = plan => Files' = Files)
  BY DEF Here, Spec_, Files
<1>d. Len(payloads) \in Nat
  BY DEF FetchInv, FetchTypeInv
<1>1. CASE StartFetch
  <2>1. verdict' # "ok" /\ FetchTypeInv'
    BY <1>1 DEF StartFetch, FetchInv, FetchTypeInv, Done
  <2>2. PICK m \in FixtureManifests, v \in BOOLEAN, b \in BOOLEAN :
            /\ plan' = [manifest |-> m, verifyOnly |-> v, backup |-> b]
            /\ IF Loads(m) THEN phase' = "file" /\ verdict' = "none" ELSE Done("error")
            /\ at' = 1 /\ payloads' = <<>>
    BY <1>1 DEF StartFetch
  <2>3. Len(m.files) \in Nat /\ Files' = m.files /\ (plan.manifest)' = m
    BY <2>2 DEF Files, FixturesAssumption
  <2>4. ASSUME phase' # "done" PROVE ProgressInv'
    <3>1. phase' = "file" /\ verdict' = "none" /\ Unambiguous(m)
      BY <2>2, <2>4 DEF Done, Loads
    <3>2. Len(payloads') = 0
      BY <2>2
    <3> QED BY <2>2, <2>3, <3>1, <3>2 DEF ProgressInv
  <2> QED BY <1>a, <2>1, <2>4 DEF FetchInv, ProgressInv
<1>2. CASE ReadFile
  <2>1. verdict' # "ok" /\ FetchTypeInv'
    BY <1>b, <1>c, <1>2 DEF ReadFile, FetchInv, FetchTypeInv, ProgressInv, Done, Files
  <2>2. ProgressInv'
    BY <1>b, <1>c, <1>2 DEF ReadFile, FetchInv, ProgressInv, FetchTypeInv, Verified, Copy, Done
  <2> QED BY <1>a, <2>1, <2>2 DEF FetchInv
<1>3. CASE VerifyHere
  <2>1. verdict' # "ok" /\ FetchTypeInv'
    BY <1>3 DEF VerifyHere, FetchInv, FetchTypeInv, ProgressInv, Done
  <2>2. ProgressInv'
    BY <1>b, <1>c, <1>3 DEF VerifyHere, FetchInv, FetchTypeInv, ProgressInv, Verified, Copy,
       Done, VerifyPayload
  <2> QED BY <1>a, <2>1, <2>2 DEF FetchInv
<1>4. CASE Replace
  <2>1. verdict' # "ok"
    BY <1>4 DEF Replace, FetchInv, ProgressInv, Done
  <2>2. FetchTypeInv'
    <3>1. payload \in Contents /\ Here.path \in Paths
      BY <1>b, <1>c, <1>4 DEF Replace, FetchInv, FetchTypeInv, ProgressInv
    <3>2. fixtures' \in [Paths -> Contents \cup {Missing}]
      BY <1>4, <3>1 DEF Replace, FetchInv, FetchTypeInv
    <3>3. payloads' \in Seq(Contents)
      BY <1>4, <3>1 DEF Replace, FetchInv, FetchTypeInv, Done
    <3> QED BY <1>4, <3>2, <3>3 DEF Replace, FetchInv, FetchTypeInv, Done
  <2>3. ASSUME phase' # "done" PROVE ProgressInv'
    <3>1. payloads' = Append(payloads, payload) /\ payload = Files[at].pin
      BY <1>4, <2>3 DEF Replace, Done, FetchInv, ProgressInv
    <3>2. /\ Len(payloads') = at /\ payloads'[at] = payload
          /\ \A i \in 1 .. (at - 1) : payloads'[i] = payloads[i]
      BY <1>4, <3>1 DEF Replace, FetchInv, FetchTypeInv, ProgressInv
    <3>3. \A i \in 1 .. at : Verified(i)'
      BY <1>c, <1>4, <3>1, <3>2 DEF Replace, FetchInv, FetchTypeInv, ProgressInv, Verified
    <3> QED BY <1>c, <1>4, <2>3, <3>2, <3>3 DEF Replace, FetchInv, FetchTypeInv, ProgressInv,
       Copy, Done
  <2> QED BY <1>a, <2>1, <2>2, <2>3 DEF FetchInv, ProgressInv
<1>5. CASE Backup
  <2>1. verdict' # "ok" /\ FetchTypeInv'
    BY <1>b, <1>c, <1>5 DEF Backup, FetchInv, FetchTypeInv, ProgressInv, Done
  <2>2. ASSUME phase' # "done", NEW i \in 1 .. (at - 1), Copy(i) PROVE Copy(i)'
    BY <1>0, <1>b, <1>c, <1>5, <2>2 DEF Backup, Done, Copy, FetchInv, FetchTypeInv, ProgressInv
  <2>3. phase' = "next" => Copy(at)'
    BY <1>c, <1>5 DEF Backup, Done, Copy
  <2>4. ProgressInv'
    BY <1>c, <1>5, <2>2, <2>3 DEF Backup, FetchInv, FetchTypeInv, ProgressInv, Verified, Done
  <2> QED BY <1>a, <2>1, <2>4 DEF FetchInv
<1>6. CASE Copied
  <2>1. verdict' # "ok" /\ FetchTypeInv'
    BY <1>b, <1>c, <1>6 DEF Copied, FetchInv, FetchTypeInv, ProgressInv, Done
  <2>2. ASSUME phase' # "done", NEW i \in 1 .. at, i < at => Copy(i) PROVE Copy(i)'
    BY <1>b, <1>c, <1>6, <2>2 DEF Copied, Done, Copy, FetchInv, FetchTypeInv, ProgressInv
  <2>3. ProgressInv'
    BY <1>c, <1>6, <2>2 DEF Copied, FetchInv, FetchTypeInv, ProgressInv, Verified, Done
  <2> QED BY <1>a, <2>1, <2>3 DEF FetchInv
<1>7. CASE NextFile
  <2>1. verdict' # "ok" /\ FetchTypeInv'
    BY <1>7 DEF NextFile, FetchInv, FetchTypeInv, ProgressInv
  <2>2. ProgressInv'
    BY <1>b, <1>c, <1>7 DEF NextFile, FetchInv, FetchTypeInv, ProgressInv, Verified, Copy
  <2> QED BY <1>a, <2>1, <2>2 DEF FetchInv
<1>8. CASE Preflight
  <2>1. /\ FetchTypeInv' /\ ProgressInv'
        /\ plan' = plan /\ payloads' = payloads /\ backups' = backups
        /\ verdict' = "ok" => PreflightManifestKeys(plan.manifest, payloads)
    BY <1>8 DEF Preflight, FetchInv, FetchTypeInv, ProgressInv, Done
  <2>2. /\ Len(payloads) = Len(Files)
        /\ \A i \in DOMAIN Files : Verified(i) /\ Copy(i)
    BY <1>b, <1>8 DEF Preflight, FetchInv, FetchTypeInv, ProgressInv, Files
  <2>3. ASSUME verdict' = "ok" PROVE FetchVouches'
    <3>1. plan.manifest.files \in Seq(FileSpecs) /\ payloads \in Seq(Contents)
      BY <1>0, <1>8 DEF Files, Preflight, FetchInv, FetchTypeInv
    <3>2. \A i \in DOMAIN plan.manifest.files :
              payloads[i] = plan.manifest.files[i].pin
      BY <2>2 DEF Verified, Files
    <3>3. Len(payloads) = Len(plan.manifest.files)
      BY <2>2 DEF Files
    <3>4. PreflightManifestKeys(plan.manifest, payloads)
      BY <2>1, <2>3
    <3>5. /\ \A i \in DOMAIN Files : Files[i].role # "questions" =>
                 \E j \in DOMAIN Files :
                     /\ Files[j].cat = Files[i].cat /\ Files[j].role = "questions"
                     /\ Offered(Files[i].pin, Files[j].pin)
                        <=> (Files[i].role = "answer_key" \/ Files[i].expect = "clean")
          /\ \A cat \in Categories(plan.manifest) :
                 \/ plan.manifest.declared[cat] = "none_by_schema"
                 \/ \E i \in DOMAIN Files : Files[i].cat = cat /\ Files[i].role = "answer_key"
      BY <1>0, <3>1, <3>2, <3>3, <3>4, PreflightVouches DEF Files
    <3> QED BY <2>1, <2>2, <3>2, <3>5 DEF FetchVouches, Spec_, Files, Copy
  <2> QED BY <2>1, <2>3 DEF FetchInv, FetchVouches
<1>9. CASE KillFetch
  BY <1>9 DEF KillFetch, FetchInv, FetchTypeInv, ProgressInv, FetchVouches, Done
<1>10. CASE Meddle
  BY <1>10 DEF Meddle, FetchInv, FetchTypeInv, ProgressInv, FetchVouches, Files, Verified, Copy
<1>11. CASE UNCHANGED FixturesVars
  <2>1. FetchTypeInv' /\ ProgressInv'
    BY <1>11 DEF FixturesVars, FetchInv, FetchTypeInv, ProgressInv, Files, Verified, Copy
  <2>2. FetchVouches'
    BY <1>11 DEF FixturesVars, FetchInv, FetchVouches, Spec_
  <2> QED BY <2>1, <2>2 DEF FetchInv
<1> QED
  BY <1>1, <1>2, <1>3, <1>4, <1>5, <1>6, <1>7, <1>8, <1>9, <1>10, <1>11 DEF FixturesNext

\* The only write of a fetch is that of verified bytes.
LEMMA NextReplacesByPin ==
    ASSUME FixturesAssumption, FetchInv, FixturesNext PROVE ReplacesByPin
<1> SUFFICES ASSUME NEW p \in Paths, fixtures'[p] # fixtures[p], phase # "done", ~ Meddle
             PROVE  ~ plan.verifyOnly /\ p = Here.path /\ fixtures'[p] = Here.pin
  BY DEF ReplacesByPin
<1>1. Replace
  BY DEF FixturesNext, StartFetch, ReadFile, VerifyHere, Backup, Copied, NextFile, Preflight,
       KillFetch
<1>2. fixtures' = [fixtures EXCEPT ![Here.path] = payload] /\ ~ plan.verifyOnly
  BY <1>1 DEF Replace
<1>3. p = Here.path /\ fixtures'[p] = payload
  BY <1>2 DEF FetchInv, FetchTypeInv
<1> QED BY <1>1, <1>2, <1>3 DEF Replace, FetchInv, ProgressInv, Here, Spec_, Files

\* A fetch that ends well has verified, backed up and held against its questions
\* everything its manifest pins.
THEOREM OkIsVouchedFor ==
    ASSUME FixturesAssumption
    PROVE  FixturesSpec => []FetchVouches
<1>1. FetchInv => FetchVouches
  BY DEF FetchInv
<1> QED BY FetchInitInv, FetchNextInv, <1>1, PTL DEF FixturesSpec

\* Whatever fails or is killed, a fetch puts at a path what is pinned there.
THEOREM BadDownloadsStayOut ==
    ASSUME FixturesAssumption
    PROVE  FixturesSpec => OnlyPinnedReplaces
<1>1. FetchInv /\ [FixturesNext]_FixturesVars => [ReplacesByPin]_FixturesVars
  BY NextReplacesByPin
<1> QED BY FetchInitInv, FetchNextInv, <1>1, PTL DEF FixturesSpec, OnlyPinnedReplaces

-----------------------------------------------------------------------------
(* Part 3: what the isolation ladder leaves, for any number of rungs and   *)
(* of runs in one directory, whichever rungs have a wrapped factory.       *)

Loaded == {"synchronize_after_load", "generate", "synchronize_after_generate"}
Trying == {"load"} \cup Loaded
Working == {"mark", "reset", "teardown", "persist"} \cup Trying
Pcs == {"ended", "dead", "setup"} \cup Working
Outcomes == {"absent", "failed", "all_passed", "incomplete", "refused_prompt_identity"}

LadderTypeInv ==
    /\ run \in 0 .. MaxLadderRuns
    /\ prompt \in {"pinned", "other"}
    /\ pc \in Pcs
    /\ rung \in 1 .. NRungs + 1
    /\ results \in [Rungs -> Statuses]
    /\ refs \subseteq {"model", "factory"} /\ resident \subseteq Rungs
    /\ exit \in {"none", "ok", "failed", "mismatch", "error"}
    /\ clean \subseteq Rungs /\ faulted \in 0 .. NRungs
    /\ behind \in BOOLEAN /\ leaked \in BOOLEAN
    /\ disk.run \in 0 .. run
    /\ disk.steps \in [Rungs -> Statuses] /\ disk.branch \in 0 .. NRungs

\* The rungs behind the current one are over, those ahead are pending, and the
\* current one is as far as the loop is.
PositionInv ==
    /\ pc \in Working => prompt = "pinned"
    /\ pc \in Working \ {"mark"} => rung \in Rungs
    /\ \A r \in Rungs : r > rung => results[r] = "pending"
    /\ \A r \in Rungs : r < rung => results[r] \in {"passed", "failed", "skipped"}
    /\ pc \in {"setup", "mark"} /\ rung \in Rungs => results[rung] = "pending"
    /\ pc \in {"reset"} \cup Trying => results[rung] = "running" /\ faulted = 0
    /\ pc \in {"teardown", "persist"} => results[rung] \in {"passed", "failed"}

\* The results are the history: the rungs that passed are those before the
\* fault, or all those behind the current one.
HistoryInv ==
    /\ \A r \in Rungs : results[r] = "passed" <=> r \in clean
    /\ \A r \in Rungs : results[r] = "failed" <=> r = faulted
    /\ faulted # 0 => clean = 1 .. faulted - 1
    /\ faulted = 0 => \A r \in Rungs : r < rung => r \in clean

\* A summary of this run is true, and misses only the outcome of the current
\* rung unless the last progress write was lost.
DiskInv ==
    ThisRun =>
        /\ \A r \in Rungs : disk.steps[r] = "passed" => r \in clean
        /\ disk.outcome = "all_passed" =>
             prompt = "pinned" /\ \A r \in Rungs : disk.steps[r] = "passed"
        /\ disk.outcome = "failed" => faulted # 0 /\ disk.branch = faulted
        /\ ~ behind => \A r \in Rungs :
             \/ disk.steps[r] = results[r]
             \/ /\ r = rung /\ disk.steps[r] = "running"
                /\ results[r] \in {"passed", "failed"}

\* The card is empty between rungs, until one fails or a release raises.
CardInv ==
    /\ \A r \in resident : r <= rung
    /\ faulted # 0 => \A r \in resident : r <= faulted
    /\ ~ leaked => \A r, q \in resident : r = q
    /\ ~ leaked /\ faulted = 0 /\ pc \in {"setup", "mark", "reset", "load", "persist"} =>
         resident = {}
    /\ pc \in Loaded => refs # {}
    /\ pc = "teardown" /\ faulted = 0 => refs # {}

LadderInv == LadderTypeInv /\ PositionInv /\ HistoryInv /\ DiskInv /\ CardInv

-----------------------------------------------------------------------------
(* Summaries. *)

\* summarise, when at most one rung has failed.
LEMMA SummaryIsTrue ==
    ASSUME LadderAssumption, NEW res \in [Rungs -> Statuses], NEW f \in 0 .. NRungs,
           \A r \in Rungs : res[r] = "failed" <=> r = f
    PROVE  /\ Summary(res).run = run /\ Summary(res).steps = res
           /\ Summary(res).branch = f
           /\ Summary(res).outcome = "failed" <=> f # 0
           /\ Summary(res).outcome = "all_passed" =>
                \A r \in Rungs : res[r] = "passed"
           /\ [Summary(res) EXCEPT !.outcome = "refused_prompt_identity"].run = run
           /\ [Summary(res) EXCEPT !.outcome = "refused_prompt_identity"].steps = res
           /\ [Summary(res) EXCEPT !.outcome = "refused_prompt_identity"].branch = f
           /\ [Summary(res) EXCEPT !.outcome = "refused_prompt_identity"].outcome
                = "refused_prompt_identity"
<1> DEFINE failed == {r \in Rungs : res[r] = "failed"}
<1>1. failed = IF f = 0 THEN {} ELSE {f}
  BY DEF Rungs, LadderAssumption
<1>2. f # 0 => (CHOOSE r \in failed : \A q \in failed : r <= q) = f
  BY <1>1
<1> QED BY <1>1, <1>2 DEF Summary

\* A summary of the present results that reaches the disk.
LEMMA WrittenIsTrue ==
    ASSUME LadderAssumption, LadderTypeInv', HistoryInv', prompt' = "pinned", run' = run,
           disk' = Summary(results')
    PROVE  /\ DiskInv'
           /\ disk'.run = run /\ disk'.steps = results' /\ disk'.branch = faulted'
<1>1. /\ results' \in [Rungs -> Statuses] /\ faulted' \in 0 .. NRungs
      /\ \A r \in Rungs : results'[r] = "failed" <=> r = faulted'
  BY DEF LadderTypeInv, HistoryInv
<1>2. /\ disk'.run = run /\ disk'.steps = results' /\ disk'.branch = faulted'
      /\ disk'.outcome = "failed" <=> faulted' # 0
      /\ disk'.outcome = "all_passed" => \A r \in Rungs : results'[r] = "passed"
  BY <1>1, SummaryIsTrue
<1>3. \A r \in Rungs : results'[r] = "passed" <=> r \in clean'
  BY DEF HistoryInv
<1> QED BY <1>2, <1>3 DEF DiskInv

\* What an unwritten disk says stays true while the results grow.
LEMMA KeptIsTrue ==
    ASSUME DiskInv, UNCHANGED <<disk, run, prompt>>, clean \subseteq clean',
           faulted = 0 \/ faulted' = faulted,
           ThisRun /\ ~ behind' => \A r \in Rungs :
              \/ disk.steps[r] = results'[r]
              \/ /\ r = rung' /\ disk.steps[r] = "running"
                 /\ results'[r] \in {"passed", "failed"}
    PROVE  DiskInv'
BY DEF DiskInv, ThisRun

\* progress_fn keeps a true summary true, written or lost.
LEMMA ProgressIsTrue ==
    ASSUME LadderAssumption, LadderInv, LadderTypeInv', HistoryInv', prompt = "pinned",
           UNCHANGED memory, Progress(results')
    PROVE  DiskInv'
<1>1. UNCHANGED <<run, prompt, clean, faulted>>
  BY DEF memory
<1>2. CASE disk' = Summary(results') /\ behind' = FALSE
  BY <1>1, <1>2, WrittenIsTrue
<1>3. CASE UNCHANGED disk /\ behind' = TRUE
  BY <1>1, <1>3, KeptIsTrue DEF LadderInv
<1> QED BY <1>2, <1>3 DEF Progress

LEMMA ProgressTypes ==
    ASSUME LadderAssumption, LadderTypeInv, UNCHANGED memory, Progress(results'),
           results' \in [Rungs -> Statuses],
           \A r \in Rungs : results'[r] = "failed" <=> r = faulted
    PROVE  /\ disk'.run \in 0 .. run
           /\ disk'.steps \in [Rungs -> Statuses] /\ disk'.branch \in 0 .. NRungs
           /\ behind' \in BOOLEAN
<1>1. faulted \in 0 .. NRungs /\ run \in Nat /\ MaxLadderRuns \in Nat
  BY DEF LadderTypeInv, LadderAssumption
<1>2. CASE disk' = Summary(results') /\ behind' = FALSE
  <2>1. /\ Summary(results').run = run /\ Summary(results').steps = results'
        /\ Summary(results').branch = faulted
    BY <1>1, SummaryIsTrue
  <2>2. disk'.run \in 0 .. run /\ disk'.branch \in 0 .. NRungs
    BY <1>1, <1>2, <2>1
  <2>3. disk'.steps \in [Rungs -> Statuses] /\ behind' \in BOOLEAN
    BY <1>2, <2>1
  <2> QED BY <2>2, <2>3
<1>3. CASE UNCHANGED disk /\ behind' = TRUE
  BY <1>3 DEF LadderTypeInv
<1> QED BY <1>2, <1>3 DEF Progress

-----------------------------------------------------------------------------
(* The steps. *)

LEMMA LadderInitInv == ASSUME LadderAssumption PROVE LadderInit => LadderInv
<1> SUFFICES ASSUME LadderInit PROVE LadderInv
  OBVIOUS
<1>1. LadderTypeInv
  <2>1. Pending \in [Rungs -> Statuses]
    BY DEF Pending, Statuses
  <2>2. disk.run = 0 /\ disk.steps = Pending /\ disk.branch = 0
    BY DEF LadderInit
  <2>3. run = 0 /\ rung = 1 /\ faulted = 0 /\ NRungs \in Nat \ {0} /\ MaxLadderRuns \in Nat
    BY DEF LadderInit, LadderAssumption
  <2>4. /\ prompt \in {"pinned", "other"} /\ pc \in Pcs
        /\ exit \in {"none", "ok", "failed", "mismatch", "error"}
        /\ behind \in BOOLEAN /\ leaked \in BOOLEAN
    BY DEF LadderInit, Pcs
  <2>5. results = Pending /\ refs = {} /\ resident = {} /\ clean = {}
    BY DEF LadderInit
  <2> QED BY <2>1, <2>2, <2>3, <2>4, <2>5 DEF LadderTypeInv
<1>2. PositionInv /\ HistoryInv
  BY DEF LadderInit, PositionInv, HistoryInv, LadderAssumption, Working, Trying, Loaded,
         Pending, Rungs
<1>3. DiskInv
  BY DEF LadderInit, DiskInv, ThisRun, Pending
<1>4. CardInv
  BY DEF LadderInit, CardInv, Loaded
<1> QED BY <1>1, <1>2, <1>3, <1>4 DEF LadderInv

LEMMA StartKeeps == ASSUME LadderAssumption, LadderInv, Start PROVE LadderInv'
<1>1. run \in Nat /\ MaxLadderRuns \in Nat /\ disk.run \in 0 .. run /\ NRungs \in Nat
  BY DEF LadderInv, LadderTypeInv, LadderAssumption
<1>2. LadderTypeInv'
  <2>1. Pending \in [Rungs -> Statuses]
    BY DEF Pending, Statuses
  <2>2. run' \in 0 .. MaxLadderRuns /\ disk'.run \in 0 .. run' /\ rung' \in 1 .. NRungs + 1
        /\ faulted' \in 0 .. NRungs
    BY <1>1 DEF Start, LadderInv, LadderTypeInv
  <2>3. disk'.steps \in [Rungs -> Statuses] /\ disk'.branch \in 0 .. NRungs
    BY DEF Start, LadderInv, LadderTypeInv
  <2> QED BY <2>1, <2>2, <2>3 DEF Start, LadderTypeInv, Pcs
<1>3. PositionInv' /\ HistoryInv'
  BY <1>1 DEF Start, PositionInv, HistoryInv, LadderAssumption, Working, Trying, Loaded,
         Pending, Rungs
<1>4. DiskInv'
  BY <1>1 DEF Start, DiskInv, ThisRun
<1>5. CardInv'
  BY DEF Start, CardInv, Loaded
<1> QED BY <1>2, <1>3, <1>4, <1>5 DEF LadderInv

\* The process ends, and the disk stays as it is.
LEMMA EndKeeps ==
    ASSUME LadderAssumption, LadderInv, pc' \in {"ended", "dead"},
           exit' \in {"none", "ok", "failed", "mismatch", "error"},
           UNCHANGED <<memory, rung, results, disk, behind>>
    PROVE  LadderInv'
<1>1. LadderTypeInv'
  BY DEF LadderInv, LadderTypeInv, Pcs, memory
<1>2. PositionInv' /\ HistoryInv'
  BY DEF LadderInv, PositionInv, HistoryInv, Working, Trying, Loaded, memory
<1>3. DiskInv'
  BY DEF LadderInv, DiskInv, ThisRun, memory
<1>4. CardInv'
  BY DEF LadderInv, CardInv, Loaded, memory
<1> QED BY <1>1, <1>2, <1>3, <1>4 DEF LadderInv

\* A step from one place to another that leaves the results alone.
LEMMA MoveKeeps ==
    ASSUME LadderAssumption, LadderInv, UNCHANGED <<memory, rung, results, disk, exit, behind>>,
           \/ pc = "reset" /\ pc' = "load"
           \/ pc = "synchronize_after_load" /\ pc' = "generate"
           \/ pc = "generate" /\ pc' = "synchronize_after_generate"
    PROVE  LadderInv'
<1>1. LadderTypeInv'
  BY DEF LadderInv, LadderTypeInv, Pcs, Working, Trying, Loaded, memory
<1>2. PositionInv' /\ HistoryInv'
  BY DEF LadderInv, PositionInv, HistoryInv, Working, Trying, Loaded, memory
<1>3. DiskInv'
  BY DEF LadderInv, DiskInv, ThisRun, memory
<1>4. CardInv'
  BY DEF LadderInv, CardInv, Loaded, memory
<1> QED BY <1>1, <1>2, <1>3, <1>4 DEF LadderInv

LEMMA RefuseKeeps == ASSUME LadderAssumption, LadderInv, Refuse PROVE LadderInv'
<1>0. /\ disk' = [Summary(results) EXCEPT !.outcome = "refused_prompt_identity"]
      /\ pc' = "ended" /\ exit' = "mismatch" /\ UNCHANGED <<memory, rung, results, behind>>
  BY DEF Refuse, LeaveLadder
<1>1. /\ disk'.run = run /\ disk'.steps = results /\ disk'.branch = faulted
      /\ disk'.outcome = "refused_prompt_identity"
  BY <1>0, SummaryIsTrue DEF LadderInv, LadderTypeInv, HistoryInv
<1>2. LadderTypeInv'
  BY <1>0, <1>1 DEF LadderInv, LadderTypeInv, Pcs, memory, LadderAssumption
<1>3. PositionInv' /\ HistoryInv'
  BY <1>0 DEF LadderInv, PositionInv, HistoryInv, Working, Trying, Loaded, memory
<1>4. DiskInv'
  BY <1>0, <1>1 DEF LadderInv, DiskInv, HistoryInv, memory
<1>5. CardInv'
  BY <1>0 DEF LadderInv, CardInv, Loaded, memory
<1> QED BY <1>2, <1>3, <1>4, <1>5 DEF LadderInv

LEMMA OpenKeeps == ASSUME LadderAssumption, LadderInv, Open PROVE LadderInv'
<1>0. /\ pc = "setup" /\ prompt = "pinned" /\ disk' = Summary(results)
      /\ pc' = "mark" /\ UNCHANGED <<memory, rung, results, exit, behind>>
  BY DEF Open
<1>1. disk'.run = run /\ disk'.steps = results /\ disk'.branch = faulted
  BY <1>0, SummaryIsTrue DEF LadderInv, LadderTypeInv, HistoryInv
<1>2. LadderTypeInv'
  BY <1>0, <1>1 DEF LadderInv, LadderTypeInv, Pcs, Working, memory, LadderAssumption
<1>3. PositionInv' /\ HistoryInv'
  BY <1>0 DEF LadderInv, PositionInv, HistoryInv, Working, Trying, Loaded, memory
<1>4. DiskInv'
  BY <1>0, <1>2, <1>3, WrittenIsTrue DEF memory
<1>5. CardInv'
  BY <1>0 DEF LadderInv, CardInv, Loaded, memory
<1> QED BY <1>2, <1>3, <1>4, <1>5 DEF LadderInv

\* Without a failed rung there was no fault in this run.
LEMMA AbortedIsFaulted ==
    ASSUME LadderInv PROVE Aborted <=> faulted # 0
BY DEF LadderInv, LadderTypeInv, HistoryInv, Aborted, Rungs

LEMMA MarkRunningKeeps == ASSUME LadderAssumption, LadderInv, MarkRunning PROVE LadderInv'
<1>0. /\ pc = "mark" /\ rung \in Rungs /\ faulted = 0 /\ pc' = "reset"
      /\ results' = [results EXCEPT ![rung] = "running"] /\ Progress(results')
      /\ UNCHANGED <<memory, rung, exit>> /\ prompt = "pinned"
      /\ results[rung] = "pending" /\ results \in [Rungs -> Statuses]
  BY AbortedIsFaulted DEF MarkRunning, With, LadderInv, LadderTypeInv, PositionInv, Working
<1>1. results' \in [Rungs -> Statuses]
  BY <1>0 DEF Statuses
<1>2. PositionInv' /\ HistoryInv'
  BY <1>0 DEF LadderInv, LadderTypeInv, PositionInv, HistoryInv, Working, Trying, Loaded, memory,
              Rungs, LadderAssumption
<1>3. LadderTypeInv'
  <2>1. /\ disk'.run \in 0 .. run /\ disk'.steps \in [Rungs -> Statuses]
        /\ disk'.branch \in 0 .. NRungs /\ behind' \in BOOLEAN
    BY <1>0, <1>1, <1>2, ProgressTypes DEF LadderInv, HistoryInv, memory
  <2> QED BY <1>0, <1>1, <2>1 DEF LadderInv, LadderTypeInv, Pcs, Working, memory
<1>4. DiskInv'
  BY <1>0, <1>2, <1>3, ProgressIsTrue
<1>5. CardInv'
  BY <1>0 DEF LadderInv, CardInv, Loaded, memory
<1> QED BY <1>2, <1>3, <1>4, <1>5 DEF LadderInv

LEMMA SkipKeeps == ASSUME LadderAssumption, LadderInv, Skip PROVE LadderInv'
<1>0. /\ pc = "mark" /\ rung \in Rungs /\ faulted # 0 /\ pc' = pc
      /\ results' = [results EXCEPT ![rung] = "skipped"] /\ Progress(results')
      /\ rung' = rung + 1
      /\ UNCHANGED <<memory, exit>> /\ prompt = "pinned"
      /\ results[rung] = "pending" /\ results \in [Rungs -> Statuses]
  BY AbortedIsFaulted DEF Skip, With, LadderInv, LadderTypeInv, PositionInv, Working
<1>1. results' \in [Rungs -> Statuses]
  BY <1>0 DEF Statuses
<1>2. PositionInv' /\ HistoryInv'
  BY <1>0 DEF LadderInv, LadderTypeInv, PositionInv, HistoryInv, Working, Trying, Loaded, memory,
              Rungs, LadderAssumption
<1>3. LadderTypeInv'
  <2>1. /\ disk'.run \in 0 .. run /\ disk'.steps \in [Rungs -> Statuses]
        /\ disk'.branch \in 0 .. NRungs /\ behind' \in BOOLEAN
    BY <1>0, <1>1, <1>2, ProgressTypes DEF LadderInv, HistoryInv, memory
  <2> QED BY <1>0, <1>1, <2>1 DEF LadderInv, LadderTypeInv, memory, Rungs, LadderAssumption
<1>4. DiskInv'
  BY <1>0, <1>2, <1>3, ProgressIsTrue
<1>5. CardInv'
  BY <1>0 DEF LadderInv, LadderTypeInv, CardInv, Loaded, memory, Rungs, LadderAssumption
<1> QED BY <1>2, <1>3, <1>4, <1>5 DEF LadderInv

LEMMA LoadKeeps == ASSUME LadderAssumption, LadderInv, Load PROVE LadderInv'
<1>0. /\ pc = "load" /\ rung \in Rungs /\ faulted = 0
      /\ refs' # {} /\ refs' \subseteq {"model", "factory"}
      /\ resident' = resident \cup {rung} /\ pc' = "synchronize_after_load"
      /\ UNCHANGED <<run, prompt, rung, results, disk, exit, clean, faulted, behind, leaked>>
  BY DEF Load, LadderInv, PositionInv, Working, Trying
<1>1. LadderTypeInv'
  BY <1>0 DEF LadderInv, LadderTypeInv, Pcs, Working, Trying, Loaded
<1>2. PositionInv' /\ HistoryInv'
  BY <1>0 DEF LadderInv, PositionInv, HistoryInv, Working, Trying, Loaded
<1>3. DiskInv'
  BY <1>0 DEF LadderInv, DiskInv, ThisRun
<1>4. CardInv'
  BY <1>0 DEF LadderInv, CardInv, Loaded, Rungs, LadderAssumption
<1> QED BY <1>1, <1>2, <1>3, <1>4 DEF LadderInv

LEMMA PassKeeps == ASSUME LadderAssumption, LadderInv, Pass PROVE LadderInv'
<1>0. /\ pc = "synchronize_after_generate" /\ rung \in Rungs /\ faulted = 0
      /\ results' = [results EXCEPT ![rung] = "passed"]
      /\ clean' = clean \cup {rung} /\ pc' = "teardown"
      /\ UNCHANGED <<run, prompt, rung, refs, resident, disk, exit, faulted, behind, leaked>>
      /\ results[rung] = "running" /\ results \in [Rungs -> Statuses]
  BY DEF Pass, With, LadderInv, LadderTypeInv, PositionInv, Working, Trying, Loaded
<1>1. LadderTypeInv'
  BY <1>0 DEF LadderInv, LadderTypeInv, Pcs, Working, Statuses
<1>2. PositionInv' /\ HistoryInv'
  BY <1>0 DEF LadderInv, LadderTypeInv, PositionInv, HistoryInv, Working, Trying, Loaded,
              Rungs, LadderAssumption
<1>3. DiskInv'
  BY <1>0, KeptIsTrue DEF LadderInv, DiskInv
<1>4. CardInv'
  BY <1>0 DEF LadderInv, CardInv, Loaded
<1> QED BY <1>1, <1>2, <1>3, <1>4 DEF LadderInv

LEMMA FaultKeeps == ASSUME LadderAssumption, LadderInv, Fault PROVE LadderInv'
<1>0. /\ pc \in Trying /\ rung \in Rungs /\ faulted = 0 /\ faulted' = rung
      /\ results' = [results EXCEPT ![rung] = "failed"]
      /\ resident' \in IF pc = "load" THEN {resident, resident \cup {rung}} ELSE {resident}
      /\ pc' = "teardown"
      /\ UNCHANGED <<run, prompt, rung, refs, disk, exit, clean, behind, leaked>>
      /\ results[rung] = "running" /\ results \in [Rungs -> Statuses]
  BY DEF Fault, With, LadderInv, LadderTypeInv, PositionInv, Working, Trying, Loaded
<1>1. LadderTypeInv'
  BY <1>0 DEF LadderInv, LadderTypeInv, Pcs, Working, Statuses, Rungs, LadderAssumption
<1>2. PositionInv'
  BY <1>0 DEF LadderInv, LadderTypeInv, PositionInv, Working, Trying, Loaded, Rungs, LadderAssumption
<1>3. HistoryInv'
  <2>1. \A r \in Rungs : r \in clean <=> r < rung
    BY <1>0 DEF LadderInv, LadderTypeInv, PositionInv, HistoryInv, Rungs, LadderAssumption
  <2>2. clean = 1 .. rung - 1
    <3>1. clean \subseteq Rungs /\ NRungs \in Nat /\ rung \in 1 .. NRungs
      BY <1>0 DEF LadderInv, LadderTypeInv, Rungs, LadderAssumption
    <3>2. \A r \in 1 .. rung - 1 : r \in Rungs /\ r < rung
      BY <3>1 DEF Rungs
    <3>3. \A r \in Rungs : r < rung => r \in 1 .. rung - 1
      BY <3>1 DEF Rungs
    <3> QED BY <2>1, <3>1, <3>2, <3>3
  <2>3. \A r \in Rungs : results'[r] = "passed" <=> r \in clean'
    BY <1>0 DEF LadderInv, HistoryInv
  <2>4. \A r \in Rungs : results'[r] = "failed" <=> r = faulted'
    <3>1. \A r \in Rungs : results[r] # "failed"
      BY <1>0 DEF LadderInv, HistoryInv, Rungs, LadderAssumption
    <3> QED BY <1>0, <3>1
  <2>5. faulted' # 0 /\ clean' = 1 .. faulted' - 1
    BY <1>0, <2>2 DEF Rungs
  <2> QED BY <2>3, <2>4, <2>5 DEF HistoryInv
<1>4. DiskInv'
  BY <1>0, KeptIsTrue DEF LadderInv, DiskInv
<1>5. CardInv'
  BY <1>0 DEF LadderInv, CardInv, Trying, Loaded, Rungs, LadderAssumption
<1> QED BY <1>1, <1>2, <1>3, <1>4, <1>5 DEF LadderInv

LEMMA TearDownKeeps == ASSUME LadderAssumption, LadderInv, TearDown PROVE LadderInv'
<1>0. /\ pc = "teardown" /\ refs' = {} /\ pc' = "persist"
      /\ \/ /\ resident' = IF refs # {} THEN {} ELSE resident
            /\ UNCHANGED leaked
         \/ refs # {} /\ leaked' = TRUE /\ UNCHANGED resident
      /\ UNCHANGED <<run, prompt, rung, results, disk, exit, clean, faulted, behind>>
  BY DEF TearDown, KeptRefs
<1>1. LadderTypeInv'
  BY <1>0 DEF LadderInv, LadderTypeInv, Pcs, Working
<1>2. PositionInv' /\ HistoryInv'
  BY <1>0 DEF LadderInv, PositionInv, HistoryInv, Working, Trying, Loaded
<1>3. DiskInv'
  BY <1>0 DEF LadderInv, DiskInv, ThisRun
<1>4. CardInv'
  BY <1>0 DEF LadderInv, CardInv, Loaded
<1> QED BY <1>1, <1>2, <1>3, <1>4 DEF LadderInv

LEMMA PersistKeeps == ASSUME LadderAssumption, LadderInv, PersistRung PROVE LadderInv'
<1>0. /\ pc = "persist" /\ rung \in Rungs /\ rung' = rung + 1 /\ pc' = "mark"
      /\ results' = results /\ Progress(results')
      /\ UNCHANGED <<memory, exit>> /\ prompt = "pinned"
      /\ results[rung] \in {"passed", "failed"} /\ results \in [Rungs -> Statuses]
  BY DEF PersistRung, LadderInv, LadderTypeInv, PositionInv, Working
<1>1. PositionInv' /\ HistoryInv'
  BY <1>0 DEF LadderInv, LadderTypeInv, PositionInv, HistoryInv, Working, Trying, Loaded, memory,
              Rungs, LadderAssumption
<1>2. LadderTypeInv'
  <2>1. /\ disk'.run \in 0 .. run /\ disk'.steps \in [Rungs -> Statuses]
        /\ disk'.branch \in 0 .. NRungs /\ behind' \in BOOLEAN
    BY <1>0, <1>1, ProgressTypes DEF LadderInv, HistoryInv, memory
  <2> QED BY <1>0, <2>1 DEF LadderInv, LadderTypeInv, Pcs, Working, memory, Rungs, LadderAssumption
<1>3. DiskInv'
  BY <1>0, <1>1, <1>2, ProgressIsTrue
<1>4. CardInv'
  BY <1>0 DEF LadderInv, LadderTypeInv, CardInv, Loaded, memory, Rungs, LadderAssumption
<1> QED BY <1>1, <1>2, <1>3, <1>4 DEF LadderInv

\* The last write lands or ends the process.
LEMMA FinishKeeps == ASSUME LadderAssumption, LadderInv, Finish PROVE LadderInv'
<1>0. /\ pc = "mark" /\ pc' = "ended" /\ prompt = "pinned"
      /\ exit' \in {"ok", "failed", "error"}
      /\ UNCHANGED <<memory, rung, results, behind>>
      /\ disk' = Summary(results) \/ disk' = disk
  BY DEF Finish, LeaveLadder, LadderExitCode, LadderInv, PositionInv, Working
<1>1. CASE disk' = disk
  BY <1>0, <1>1, EndKeeps
<1>2. CASE disk' = Summary(results)
  <2>1. disk'.run = run /\ disk'.steps = results /\ disk'.branch = faulted
    BY <1>2, SummaryIsTrue DEF LadderInv, LadderTypeInv, HistoryInv
  <2>2. LadderTypeInv'
    BY <1>0, <2>1 DEF LadderInv, LadderTypeInv, Pcs, memory, LadderAssumption
  <2>3. PositionInv' /\ HistoryInv'
    BY <1>0 DEF LadderInv, PositionInv, HistoryInv, Working, Trying, Loaded, memory
  <2>4. DiskInv'
    BY <1>0, <1>2, <2>2, <2>3, WrittenIsTrue DEF memory
  <2>5. CardInv'
    BY <1>0 DEF LadderInv, CardInv, Loaded, memory
  <2> QED BY <2>2, <2>3, <2>4, <2>5 DEF LadderInv
<1> QED BY <1>0, <1>1, <1>2

LEMMA LadderNextInv == ASSUME LadderAssumption PROVE LadderInv /\ [LadderNext]_LadderVars => LadderInv'
<1> SUFFICES ASSUME LadderInv, [LadderNext]_LadderVars PROVE LadderInv'
  OBVIOUS
<1>1. CASE SetupRaises \/ LadderDies
  BY <1>1, EndKeeps DEF SetupRaises, LeaveLadder, LadderDies, LadderInv, LadderTypeInv
<1>2. CASE ResetPeak \/ Generate
  BY <1>2, EndKeeps, MoveKeeps DEF ResetPeak, Generate, LeaveLadder
<1>3. CASE UNCHANGED LadderVars
  <2>1. UNCHANGED <<memory, pc, rung, results, disk, exit, behind>>
    BY <1>3 DEF LadderVars
  <2> QED BY <2>1 DEF memory, LadderInv, LadderTypeInv, PositionInv, HistoryInv, DiskInv, CardInv,
                      ThisRun
<1> QED BY <1>1, <1>2, <1>3, StartKeeps, RefuseKeeps, OpenKeeps, MarkRunningKeeps,
           SkipKeeps, LoadKeeps, PassKeeps, FaultKeeps, TearDownKeeps, PersistKeeps,
           FinishKeeps DEF LadderNext

LEMMA AlwaysInv == ASSUME LadderAssumption PROVE LadderSpec => []LadderInv
BY LadderInitInv, LadderNextInv, PTL DEF LadderSpec

-----------------------------------------------------------------------------
(* Theorems. *)

\* The variables hold what the code can put in them.
THEOREM LadderTypes == ASSUME LadderAssumption PROVE LadderSpec => []LadderTypeOK
<1>1. LadderInv => LadderTypeOK
  BY DEF LadderInv, LadderTypeInv, PositionInv, LadderTypeOK, Rungs, LadderAssumption
<1> QED BY AlwaysInv, <1>1, PTL

\* A summary that says all_passed is earned: every rung generated in that run,
\* on the pinned prompt.
THEOREM AllPassedIsEarned == ASSUME LadderAssumption PROVE LadderSpec => []PassIsEarned
<1>1. LadderInv => PassIsEarned
  BY DEF LadderInv, LadderTypeInv, DiskInv, PassIsEarned, Rungs, LadderAssumption
<1> QED BY AlwaysInv, <1>1, PTL

\* A verdict names the first fault: the rungs before it ran clean, and no rung
\* after it was loaded.
THEOREM BranchIsFirstFault == ASSUME LadderAssumption PROVE LadderSpec => []VerdictIsFirstFault
<1>1. LadderInv => VerdictIsFirstFault
  BY DEF LadderInv, LadderTypeInv, DiskInv, HistoryInv, CardInv, VerdictIsFirstFault, Rungs,
         LadderAssumption
<1> QED BY AlwaysInv, <1>1, PTL

\* A summary left by a death says which rung was being run.
THEOREM DeathLeavesItsRung == ASSUME LadderAssumption PROVE LadderSpec => []ResidueTellsWhere
<1>1. LadderInv => ResidueTellsWhere
  BY DEF LadderInv, LadderTypeInv, PositionInv, DiskInv, ResidueTellsWhere, Rungs, LadderAssumption
<1> QED BY AlwaysInv, <1>1, PTL

\* One model's weights are on the card at a time, unless a release raised.
THEOREM CardHoldsOne == ASSUME LadderAssumption PROVE LadderSpec => []OneModelAtATime
<1>1. LadderInv => OneModelAtATime
  <2> SUFFICES ASSUME LadderInv, ~ leaked PROVE Cardinality(resident) <= 1
    BY DEF OneModelAtATime
  <2>1. \A r, q \in resident : r = q
    BY DEF LadderInv, CardInv
  <2>2. CASE resident = {}
    BY <2>2, FS_EmptySet
  <2>3. CASE resident # {}
    <3>1. PICK r \in resident : TRUE
      BY <2>3
    <3>2. resident = {r}
      BY <2>1, <3>1
    <3> QED BY <3>2, FS_Singleton
  <2> QED BY <2>2, <2>3
<1> QED BY AlwaysInv, <1>1, PTL

-----------------------------------------------------------------------------
(* Part 4: the files of a generation run are evidence of what they say,    *)
(* for any number of prompts, any checkpoints, any number of runs in one   *)
(* directory, and any signals, kills and full disks.                       *)
(*                                                                         *)
(* The properties speak of files, which say nothing of how far a run has   *)
(* come.  The invariant ties them to the step: from "inputs" on the        *)
(* directory belongs to this run alone, while rows are generated the file  *)
(* holds those in memory, and `complete` is only ever assigned over a file *)
(* that was just read back.                                                *)

\* The steps at which files of an earlier run may be left and those at which none is;
\* those before the file of rows is made, and those at which it holds the rows in memory.
Unlinking == {"stale", "unlink rows", "unlink report", "unlink manifest"}
Opened == {"inputs", "open", "opened", "finally", "finalize"} \cup InTry
Before == Unlinking \cup {"inputs", "open", "opened", "observe", "load", "create"}
InStep == {"generate", "close", "assess", "report", "validate", "announce"}

Pairs == {PairAt(n) : n \in Nat}

RunTypeInv ==
    /\ runs \in Nat /\ buffered \in BOOLEAN
    /\ step \in {"ended"} \cup Unlinking \cup Opened
    /\ step # "ended" => code = "none" /\ runs # 0
    /\ raised # "ok"
    /\ status \in {"incomplete", "complete"}
    /\ manifest.run \in Nat /\ manifest.run <= runs

ShapeInv ==
    /\ gens = [run |-> gens.run, rows |-> gens.rows]
    /\ rows \in Seq(Pairs)

\* Whose files there are.
Owner == IF gens.rows = <<>> THEN 0 ELSE gens.run
DirectoryInv ==
    /\ Owner # 0 /\ report # 0 => Owner = report
    /\ Owner # 0 /\ manifest.run # 0 => Owner = manifest.run
    /\ report # 0 /\ manifest.run # 0 => report = manifest.run
    /\ step \in {"unlink report", "unlink manifest"} => gens.rows = <<>>
    /\ step = "unlink manifest" => report = 0
    /\ step \in Opened => /\ gens.rows = <<>> \/ gens.run = runs
                          /\ report \in {0, runs} /\ manifest.run \in {0, runs}

\* What the file of rows holds.
RowsInv ==
    /\ step \in Before => rows = <<>> /\ ~ buffered
    /\ step \in InStep => gens.run = runs /\ gens.rows = rows /\ ~ buffered
    /\ step = "checkpoint" =>
           /\ gens.run = runs /\ ~ buffered
           /\ rows = Append(gens.rows, rows[Len(rows)])
    /\ buffered => gens.run = runs

\* A run that is complete, whatever its manifest still says.
Complete ==
    /\ step \in {"announce", "finally", "finalize", "ended"}
    /\ Valid /\ Len(rows) = Len(gens.rows)
    /\ gens.run = runs /\ report = runs /\ ~ buffered

StatusInv ==
    /\ step \in {"validate", "announce"} => report = runs
    /\ step = "announce" => status = "complete"
    /\ status = "complete" => Complete
    /\ step \in {"finally", "finalize"} => raised # "none" \/ status = "complete"

\* A manifest that says complete is of an earlier run until this one's last write, and
\* its file reads back; so does that of an exit of 0.
Whole ==
    /\ Torn \notin Range(gens.rows)
    /\ Cardinality(Range(gens.rows)) = Len(gens.rows)
ManifestInv ==
    /\ manifest.status = "complete" =>
           /\ manifest.run # 0 /\ step \notin Opened
           /\ step \in Unlinking => manifest.run # runs
           /\ gens.run = manifest.run =>
                  /\ Whole /\ Len(gens.rows) = manifest.rows
                  /\ manifest.run = runs => Valid
    /\ code = "ok" =>
           /\ gens.run = runs /\ Valid /\ report = runs
           /\ lost \/ (manifest.run = runs /\ manifest.status = "complete")

RunInv == RunTypeInv /\ ShapeInv /\ DirectoryInv /\ RowsInv /\ StatusInv /\ ManifestInv

-----------------------------------------------------------------------------
LEMMA RunInitInv == BfclInit => RunInv
<1> USE DEF BfclInit, NoGens, NoManifest, Unlinking, Opened, InTry
<1>1. BfclInit => RunTypeInv /\ ShapeInv
  <2>1. BfclInit => RunTypeInv
    <3>1. BfclInit => (runs \in Nat)
      OBVIOUS
    <3>2. BfclInit => (buffered \in BOOLEAN)
      OBVIOUS
    <3>3. BfclInit => (raised # "ok")
      OBVIOUS
    <3>4. BfclInit => (step \in {"ended"} \cup Unlinking \cup Opened)
      OBVIOUS
    <3>5. BfclInit => (step # "ended" => code = "none" /\ runs # 0)
      OBVIOUS
    <3>6. BfclInit => (status \in {"incomplete", "complete"})
      OBVIOUS
    <3>7. BfclInit => (manifest.run \in Nat)
      OBVIOUS
    <3>8. BfclInit => (manifest.run <= runs)
      OBVIOUS
    <3> QED BY <3>1, <3>2, <3>3, <3>4, <3>5, <3>6, <3>7, <3>8 DEF RunTypeInv
  <2>2. BfclInit => ShapeInv
    BY DEF ShapeInv
  <2> QED BY <2>1, <2>2
<1>2. BfclInit => DirectoryInv /\ RowsInv
  BY DEF DirectoryInv, RowsInv, Owner, Before, InStep
<1>3. BfclInit => StatusInv /\ ManifestInv
  BY DEF StatusInv, ManifestInv
<1> QED BY <1>1, <1>2, <1>3 DEF RunInv

\* What the file reads back as depends on the file and on what was asked for.
LEMMA FileUnchanged ==
    /\ gens' = gens => (Whole' <=> Whole)
    /\ gens' = gens /\ args' = args => (Valid' <=> Valid)
<1>1. gens' = gens => (Whole' <=> Whole)
  BY DEF Whole
<1>2. gens' = gens /\ args' = args => (Valid' <=> Valid)
  BY DEF Valid, Product
<1> QED BY <1>1, <1>2

LEMMA PairsUnchanged == args' = args => Pairs' = Pairs
BY DEF Pairs, PairAt

LEMMA ValidIsWhole == Valid => Whole
BY DEF Valid, Whole

LEMMA RunNextInv == RunInv /\ [BfclNext]_BfclVars => RunInv'
<1> SUFFICES ASSUME RunInv, [BfclNext]_BfclVars PROVE RunInv'
  OBVIOUS
<1>1. CASE StartRun
  <2>1. RunTypeInv'
    <3>1. (runs \in Nat)'
      BY <1>1 DEF StartRun, RunInv, RunTypeInv, Unlinking, Opened, InTry, files
    <3>2. (buffered \in BOOLEAN)'
      BY <1>1 DEF StartRun, RunInv, RunTypeInv, Unlinking, Opened, InTry, files
    <3>3. (raised # "ok")'
      BY <1>1 DEF StartRun, RunInv, RunTypeInv, Unlinking, Opened, InTry, files
    <3>4. (step \in {"ended"} \cup Unlinking \cup Opened)'
      BY <1>1 DEF StartRun, RunInv, RunTypeInv, Unlinking, Opened, InTry, files
    <3>5. (step # "ended" => code = "none" /\ runs # 0)'
      BY <1>1 DEF StartRun, RunInv, RunTypeInv, Unlinking, Opened, InTry, files
    <3>6. (status \in {"incomplete", "complete"})'
      BY <1>1 DEF StartRun, RunInv, RunTypeInv, Unlinking, Opened, InTry, files
    <3>7. (manifest.run \in Nat)'
      BY <1>1 DEF StartRun, RunInv, RunTypeInv, Unlinking, Opened, InTry, files
    <3>8. (manifest.run <= runs)'
      BY <1>1 DEF StartRun, RunInv, RunTypeInv, Unlinking, Opened, InTry, files
    <3> QED BY <3>1, <3>2, <3>3, <3>4, <3>5, <3>6, <3>7, <3>8 DEF RunTypeInv
  <2>2. ShapeInv'
    BY <1>1, PairsUnchanged DEF StartRun, RunInv, ShapeInv, files
  <2>3. DirectoryInv'
    BY <1>1 DEF StartRun, RunInv, RunTypeInv, ShapeInv, DirectoryInv, RowsInv, Owner, Unlinking,
       Opened, InTry, files
  <2>4. RowsInv'
    BY <1>1 DEF StartRun, RunInv, RunTypeInv, ShapeInv, RowsInv, Before, Unlinking, InStep, files
  <2>5. StatusInv'
    BY <1>1, FileUnchanged DEF StartRun, RunInv, RunTypeInv, ShapeInv, RowsInv, StatusInv,
       Complete, Before, InStep, InTry, files
  <2>6. ManifestInv'
    <3>1. (manifest.status = "complete" => manifest.run # 0 /\ step \notin Opened)'
      BY <1>1, FileUnchanged DEF StartRun, RunInv, RunTypeInv, DirectoryInv, StatusInv, Complete,
         ManifestInv, Unlinking, Opened, InTry, files
    <3>2. (manifest.status = "complete" /\ step \in Unlinking => manifest.run # runs)'
      BY <1>1, FileUnchanged DEF StartRun, RunInv, RunTypeInv, DirectoryInv, StatusInv, Complete,
         ManifestInv, Unlinking, Opened, InTry, files
    <3>3. (manifest.status = "complete" /\ gens.run = manifest.run => Whole)'
      BY <1>1, FileUnchanged DEF StartRun, RunInv, RunTypeInv, DirectoryInv, StatusInv, Complete,
         ManifestInv, Unlinking, Opened, InTry, files
    <3>4. (manifest.status = "complete" /\ gens.run = manifest.run => Len(gens.rows) = manifest.rows)'
      BY <1>1, FileUnchanged DEF StartRun, RunInv, RunTypeInv, DirectoryInv, StatusInv, Complete,
         ManifestInv, Unlinking, Opened, InTry, files
    <3>5. (manifest.status = "complete" /\ gens.run = manifest.run /\ manifest.run = runs => Valid)'
      BY <1>1, FileUnchanged DEF StartRun, RunInv, RunTypeInv, DirectoryInv, StatusInv, Complete,
         ManifestInv, Unlinking, Opened, InTry, files
    <3>6. (code = "ok" => gens.run = runs /\ Valid /\ report = runs)'
      BY <1>1, FileUnchanged DEF StartRun, RunInv, RunTypeInv, DirectoryInv, StatusInv, Complete,
         ManifestInv, Unlinking, Opened, InTry, files
    <3>7. (code = "ok" => lost \/ (manifest.run = runs /\ manifest.status = "complete"))'
      BY <1>1, FileUnchanged DEF StartRun, RunInv, RunTypeInv, DirectoryInv, StatusInv, Complete,
         ManifestInv, Unlinking, Opened, InTry, files
    <3> QED BY <3>1, <3>2, <3>3, <3>4, <3>5, <3>6, <3>7 DEF ManifestInv
  <2> QED BY <2>1, <2>2, <2>3, <2>4, <2>5, <2>6 DEF RunInv
<1>2. CASE RefuseStale
  <2>1. RunTypeInv'
    BY <1>2 DEF RefuseStale, Leave, RunInv, RunTypeInv, Unlinking, Opened, InTry, files
  <2>2. ShapeInv'
    BY <1>2, PairsUnchanged DEF RefuseStale, Leave, RunInv, ShapeInv, files
  <2>3. DirectoryInv'
    BY <1>2 DEF RefuseStale, Leave, RunInv, RunTypeInv, ShapeInv, DirectoryInv, RowsInv, Owner,
       Unlinking, Opened, InTry, files
  <2>4. RowsInv'
    BY <1>2 DEF RefuseStale, Leave, RunInv, RunTypeInv, ShapeInv, RowsInv, Before, Unlinking,
       InStep, files
  <2>5. StatusInv'
    BY <1>2, FileUnchanged DEF RefuseStale, Leave, RunInv, RunTypeInv, ShapeInv, RowsInv,
       StatusInv, Complete, Before, InStep, InTry, files
  <2>6. ManifestInv'
    BY <1>2, FileUnchanged DEF RefuseStale, Leave, RunInv, RunTypeInv, DirectoryInv, StatusInv,
       Complete, ManifestInv, Unlinking, Opened, InTry, files
  <2> QED BY <2>1, <2>2, <2>3, <2>4, <2>5, <2>6 DEF RunInv
<1>3. CASE CheckStale
  <2>1. RunTypeInv'
    BY <1>3 DEF CheckStale, Stale, RunInv, RunTypeInv, Unlinking, Opened, InTry, files
  <2>2. ShapeInv'
    BY <1>3, PairsUnchanged DEF CheckStale, Stale, RunInv, ShapeInv, files
  <2>3. DirectoryInv'
    BY <1>3 DEF CheckStale, Stale, RunInv, RunTypeInv, ShapeInv, DirectoryInv, RowsInv, Owner,
       Unlinking, Opened, InTry, files
  <2>4. RowsInv'
    BY <1>3 DEF CheckStale, Stale, RunInv, RunTypeInv, ShapeInv, RowsInv, Before, Unlinking,
       InStep, files
  <2>5. StatusInv'
    BY <1>3, FileUnchanged DEF CheckStale, Stale, RunInv, RunTypeInv, ShapeInv, RowsInv,
       StatusInv, Complete, Before, InStep, InTry, files
  <2>6. ManifestInv'
    BY <1>3, FileUnchanged DEF CheckStale, Stale, RunInv, RunTypeInv, DirectoryInv, StatusInv,
       Complete, ManifestInv, Unlinking, Opened, InTry, files
  <2> QED BY <2>1, <2>2, <2>3, <2>4, <2>5, <2>6 DEF RunInv
<1>4. CASE Unlink
  <2>1. \/ /\ step = "unlink rows" /\ step' = "unlink report"
           /\ gens'.run = 0 /\ gens'.rows = <<>> /\ report' = report /\ manifest' = manifest
        \/ /\ step = "unlink report" /\ step' = "unlink manifest"
           /\ report' = 0 /\ gens' = gens /\ manifest' = manifest
        \/ /\ step = "unlink manifest" /\ step' = "inputs"
           /\ manifest'.run = 0 /\ manifest'.status = "absent"
           /\ gens' = gens /\ report' = report
    <3>1. /\ NoGens.run = 0 /\ NoGens.rows = <<>>
      BY DEF NoGens
    <3>2. NoManifest.run = 0 /\ NoManifest.status = "absent"
      BY DEF NoManifest
    <3> QED BY <1>4, <3>1, <3>2 DEF Unlink
  <2>2. UNCHANGED <<runs, args, rows, buffered, status, raised, code>>
    BY <1>4 DEF Unlink
  <2>3. manifest'.run \in {0, manifest.run} /\ runs \in Nat
        /\ manifest.run \in Nat /\ manifest.run <= runs
    BY <2>1 DEF RunInv, RunTypeInv
  <2>4. RunTypeInv'
    <3>1. (runs \in Nat)'
      BY <2>1, <2>2 DEF RunInv, RunTypeInv, Unlinking, Opened, InTry, files
    <3>2. (buffered \in BOOLEAN)'
      BY <2>1, <2>2 DEF RunInv, RunTypeInv, Unlinking, Opened, InTry, files
    <3>3. (raised # "ok")'
      BY <2>1, <2>2 DEF RunInv, RunTypeInv, Unlinking, Opened, InTry, files
    <3>4. (step \in {"ended"} \cup Unlinking \cup Opened)'
      BY <2>1, <2>2 DEF RunInv, RunTypeInv, Unlinking, Opened, InTry, files
    <3>5. (step # "ended" => code = "none" /\ runs # 0)'
      BY <2>1, <2>2 DEF RunInv, RunTypeInv, Unlinking, Opened, InTry, files
    <3>6. (status \in {"incomplete", "complete"})'
      BY <2>1, <2>2 DEF RunInv, RunTypeInv, Unlinking, Opened, InTry, files
    <3>7. (manifest.run \in Nat)'
      BY <2>2, <2>3
    <3>8. (manifest.run <= runs)'
      BY <2>2, <2>3
    <3> QED BY <3>1, <3>2, <3>3, <3>4, <3>5, <3>6, <3>7, <3>8 DEF RunTypeInv
  <2>5. ShapeInv'
    BY <1>4, PairsUnchanged DEF Unlink, NoGens, RunInv, ShapeInv, files
  <2>6. DirectoryInv'
    <3>1. (Owner # 0 /\ report # 0 => Owner = report)'
      BY <2>1, <2>2 DEF RunInv, RunTypeInv, ShapeInv, DirectoryInv, RowsInv, Owner, Unlinking,
         Opened, InTry, files
    <3>2. (Owner # 0 /\ manifest.run # 0 => Owner = manifest.run)'
      BY <2>1, <2>2 DEF RunInv, RunTypeInv, ShapeInv, DirectoryInv, RowsInv, Owner, Unlinking,
         Opened, InTry, files
    <3>3. (report # 0 /\ manifest.run # 0 => report = manifest.run)'
      BY <2>1, <2>2 DEF RunInv, RunTypeInv, ShapeInv, DirectoryInv, RowsInv, Owner, Unlinking,
         Opened, InTry, files
    <3>4. (step \in {"unlink report", "unlink manifest"} => gens.rows = <<>>)'
      BY <2>1, <2>2 DEF RunInv, RunTypeInv, ShapeInv, DirectoryInv, RowsInv, Owner, Unlinking,
         Opened, InTry, files
    <3>5. (step = "unlink manifest" => report = 0)'
      BY <2>1, <2>2 DEF RunInv, RunTypeInv, ShapeInv, DirectoryInv, RowsInv, Owner, Unlinking,
         Opened, InTry, files
    <3>6. (step \in Opened => gens.rows = <<>> \/ gens.run = runs)'
      BY <2>1, <2>2 DEF RunInv, RunTypeInv, ShapeInv, DirectoryInv, RowsInv, Owner, Unlinking,
         Opened, InTry, files
    <3>7. (step \in Opened => report \in {0, runs} /\ manifest.run \in {0, runs})'
      BY <2>1, <2>2 DEF RunInv, RunTypeInv, ShapeInv, DirectoryInv, RowsInv, Owner, Unlinking,
         Opened, InTry, files
    <3> QED BY <3>1, <3>2, <3>3, <3>4, <3>5, <3>6, <3>7 DEF DirectoryInv
  <2>7. RowsInv'
    <3>1. (step \in Before => rows = <<>> /\ ~ buffered)'
      BY <2>1, <2>2 DEF RunInv, RunTypeInv, ShapeInv, RowsInv, Before, Unlinking, InStep, files
    <3>2. (step \in InStep => gens.run = runs)'
      BY <2>1, <2>2 DEF RunInv, RunTypeInv, ShapeInv, RowsInv, Before, Unlinking, InStep, files
    <3>3. (step \in InStep => gens.rows = rows)'
      BY <2>1, <2>2 DEF RunInv, RunTypeInv, ShapeInv, RowsInv, Before, Unlinking, InStep, files
    <3>4. (step \in InStep => ~ buffered)'
      BY <2>1, <2>2 DEF RunInv, RunTypeInv, ShapeInv, RowsInv, Before, Unlinking, InStep, files
    <3>5. (step = "checkpoint" => gens.run = runs /\ ~ buffered)'
      BY <2>1, <2>2 DEF RunInv, RunTypeInv, ShapeInv, RowsInv, Before, Unlinking, InStep, files
    <3>6. (step = "checkpoint" => rows = Append(gens.rows, rows[Len(rows)]))'
      BY <2>1, <2>2 DEF RunInv, RunTypeInv, ShapeInv, RowsInv, Before, Unlinking, InStep, files
    <3>7. (buffered => gens.run = runs)'
      BY <2>1, <2>2 DEF RunInv, RunTypeInv, ShapeInv, RowsInv, Before, Unlinking, InStep, files
    <3> QED BY <3>1, <3>2, <3>3, <3>4, <3>5, <3>6, <3>7 DEF RowsInv
  <2>8. StatusInv'
    BY <2>1, <2>2, FileUnchanged DEF RunInv, RunTypeInv, ShapeInv, RowsInv, StatusInv, Complete,
       Before, InStep, InTry, files
  <2>9. ManifestInv'
    <3>1. (manifest.status = "complete" => manifest.run # 0 /\ step \notin Opened)'
      BY <2>1, <2>2, FileUnchanged DEF RunInv, RunTypeInv, DirectoryInv, StatusInv, Complete,
         ManifestInv, Unlinking, Opened, InTry, files
    <3>2. (manifest.status = "complete" /\ step \in Unlinking => manifest.run # runs)'
      BY <2>1, <2>2, FileUnchanged DEF RunInv, RunTypeInv, DirectoryInv, StatusInv, Complete,
         ManifestInv, Unlinking, Opened, InTry, files
    <3>3. (manifest.status = "complete" /\ gens.run = manifest.run => Whole)'
      BY <2>1, <2>2, FileUnchanged DEF RunInv, RunTypeInv, DirectoryInv, StatusInv, Complete,
         ManifestInv, Unlinking, Opened, InTry, files
    <3>4. (manifest.status = "complete" /\ gens.run = manifest.run => Len(gens.rows) = manifest.rows)'
      BY <2>1, <2>2, FileUnchanged DEF RunInv, RunTypeInv, DirectoryInv, StatusInv, Complete,
         ManifestInv, Unlinking, Opened, InTry, files
    <3>5. (manifest.status = "complete" /\ gens.run = manifest.run /\ manifest.run = runs => Valid)'
      BY <2>1, <2>2, FileUnchanged DEF RunInv, RunTypeInv, DirectoryInv, StatusInv, Complete,
         ManifestInv, Unlinking, Opened, InTry, files
    <3>6. (code = "ok" => gens.run = runs /\ Valid /\ report = runs)'
      BY <2>1, <2>2, FileUnchanged DEF RunInv, RunTypeInv, DirectoryInv, StatusInv, Complete,
         ManifestInv, Unlinking, Opened, InTry, files
    <3>7. (code = "ok" => lost \/ (manifest.run = runs /\ manifest.status = "complete"))'
      BY <2>1, <2>2, FileUnchanged DEF RunInv, RunTypeInv, DirectoryInv, StatusInv, Complete,
         ManifestInv, Unlinking, Opened, InTry, files
    <3> QED BY <3>1, <3>2, <3>3, <3>4, <3>5, <3>6, <3>7 DEF ManifestInv
  <2> QED BY <2>4, <2>5, <2>6, <2>7, <2>8, <2>9 DEF RunInv
<1>5. CASE ReadInputs
  <2>1. RunTypeInv'
    BY <1>5 DEF ReadInputs, Leave, RunInv, RunTypeInv, Unlinking, Opened, InTry, files
  <2>2. ShapeInv'
    BY <1>5, PairsUnchanged DEF ReadInputs, Leave, RunInv, ShapeInv, files
  <2>3. DirectoryInv'
    BY <1>5 DEF ReadInputs, Leave, RunInv, RunTypeInv, ShapeInv, DirectoryInv, RowsInv, Owner,
       Unlinking, Opened, InTry, files
  <2>4. RowsInv'
    BY <1>5 DEF ReadInputs, Leave, RunInv, RunTypeInv, ShapeInv, RowsInv, Before, Unlinking,
       InStep, files
  <2>5. StatusInv'
    BY <1>5, FileUnchanged DEF ReadInputs, Leave, RunInv, RunTypeInv, ShapeInv, RowsInv,
       StatusInv, Complete, Before, InStep, InTry, files
  <2>6. ManifestInv'
    BY <1>5, FileUnchanged DEF ReadInputs, Leave, RunInv, RunTypeInv, DirectoryInv, StatusInv,
       Complete, ManifestInv, Unlinking, Opened, InTry, files
  <2> QED BY <2>1, <2>2, <2>3, <2>4, <2>5, <2>6 DEF RunInv
<1>6. CASE FirstManifest
  <2>1. RunTypeInv'
    <3>1. (runs \in Nat)'
      BY <1>6 DEF FirstManifest, Leave, RunInv, RunTypeInv, Unlinking, Opened, InTry, files
    <3>2. (buffered \in BOOLEAN)'
      BY <1>6 DEF FirstManifest, Leave, RunInv, RunTypeInv, Unlinking, Opened, InTry, files
    <3>3. (raised # "ok")'
      BY <1>6 DEF FirstManifest, Leave, RunInv, RunTypeInv, Unlinking, Opened, InTry, files
    <3>4. (step \in {"ended"} \cup Unlinking \cup Opened)'
      BY <1>6 DEF FirstManifest, Leave, RunInv, RunTypeInv, Unlinking, Opened, InTry, files
    <3>5. (step # "ended" => code = "none" /\ runs # 0)'
      BY <1>6 DEF FirstManifest, Leave, RunInv, RunTypeInv, Unlinking, Opened, InTry, files
    <3>6. (status \in {"incomplete", "complete"})'
      BY <1>6 DEF FirstManifest, Leave, RunInv, RunTypeInv, Unlinking, Opened, InTry, files
    <3>7. (manifest.run \in Nat)'
      BY <1>6 DEF FirstManifest, Leave, RunInv, RunTypeInv, Unlinking, Opened, InTry, files
    <3>8. (manifest.run <= runs)'
      BY <1>6 DEF FirstManifest, Leave, RunInv, RunTypeInv, Unlinking, Opened, InTry, files
    <3> QED BY <3>1, <3>2, <3>3, <3>4, <3>5, <3>6, <3>7, <3>8 DEF RunTypeInv
  <2>2. ShapeInv'
    BY <1>6, PairsUnchanged DEF FirstManifest, Leave, RunInv, ShapeInv, files
  <2>3. DirectoryInv'
    <3>1. (Owner # 0 /\ report # 0 => Owner = report)'
      BY <1>6 DEF FirstManifest, Leave, RunInv, RunTypeInv, ShapeInv, DirectoryInv, RowsInv,
         Owner, Unlinking, Opened, InTry, files
    <3>2. (Owner # 0 /\ manifest.run # 0 => Owner = manifest.run)'
      BY <1>6 DEF FirstManifest, Leave, RunInv, RunTypeInv, ShapeInv, DirectoryInv, RowsInv,
         Owner, Unlinking, Opened, InTry, files
    <3>3. (report # 0 /\ manifest.run # 0 => report = manifest.run)'
      BY <1>6 DEF FirstManifest, Leave, RunInv, RunTypeInv, ShapeInv, DirectoryInv, RowsInv,
         Owner, Unlinking, Opened, InTry, files
    <3>4. (step \in {"unlink report", "unlink manifest"} => gens.rows = <<>>)'
      BY <1>6 DEF FirstManifest, Leave, RunInv, RunTypeInv, ShapeInv, DirectoryInv, RowsInv,
         Owner, Unlinking, Opened, InTry, files
    <3>5. (step = "unlink manifest" => report = 0)'
      BY <1>6 DEF FirstManifest, Leave, RunInv, RunTypeInv, ShapeInv, DirectoryInv, RowsInv,
         Owner, Unlinking, Opened, InTry, files
    <3>6. (step \in Opened => gens.rows = <<>> \/ gens.run = runs)'
      BY <1>6 DEF FirstManifest, Leave, RunInv, RunTypeInv, ShapeInv, DirectoryInv, RowsInv,
         Owner, Unlinking, Opened, InTry, files
    <3>7. (step \in Opened => report \in {0, runs} /\ manifest.run \in {0, runs})'
      BY <1>6 DEF FirstManifest, Leave, RunInv, RunTypeInv, ShapeInv, DirectoryInv, RowsInv,
         Owner, Unlinking, Opened, InTry, files
    <3> QED BY <3>1, <3>2, <3>3, <3>4, <3>5, <3>6, <3>7 DEF DirectoryInv
  <2>4. RowsInv'
    BY <1>6 DEF FirstManifest, Leave, RunInv, RunTypeInv, ShapeInv, RowsInv, Before, Unlinking,
       InStep, files
  <2>5. StatusInv'
    BY <1>6, FileUnchanged DEF FirstManifest, Leave, RunInv, RunTypeInv, ShapeInv, RowsInv,
       StatusInv, Complete, Before, InStep, InTry, files
  <2>6. ManifestInv'
    <3>1. (manifest.status = "complete" => manifest.run # 0 /\ step \notin Opened)'
      BY <1>6, FileUnchanged DEF FirstManifest, Leave, RunInv, RunTypeInv, DirectoryInv,
         StatusInv, Complete, ManifestInv, Unlinking, Opened, InTry, files
    <3>2. (manifest.status = "complete" /\ step \in Unlinking => manifest.run # runs)'
      BY <1>6, FileUnchanged DEF FirstManifest, Leave, RunInv, RunTypeInv, DirectoryInv,
         StatusInv, Complete, ManifestInv, Unlinking, Opened, InTry, files
    <3>3. (manifest.status = "complete" /\ gens.run = manifest.run => Whole)'
      BY <1>6, FileUnchanged DEF FirstManifest, Leave, RunInv, RunTypeInv, DirectoryInv,
         StatusInv, Complete, ManifestInv, Unlinking, Opened, InTry, files
    <3>4. (manifest.status = "complete" /\ gens.run = manifest.run => Len(gens.rows) = manifest.rows)'
      BY <1>6, FileUnchanged DEF FirstManifest, Leave, RunInv, RunTypeInv, DirectoryInv,
         StatusInv, Complete, ManifestInv, Unlinking, Opened, InTry, files
    <3>5. (manifest.status = "complete" /\ gens.run = manifest.run /\ manifest.run = runs => Valid)'
      BY <1>6, FileUnchanged DEF FirstManifest, Leave, RunInv, RunTypeInv, DirectoryInv,
         StatusInv, Complete, ManifestInv, Unlinking, Opened, InTry, files
    <3>6. (code = "ok" => gens.run = runs /\ Valid /\ report = runs)'
      BY <1>6, FileUnchanged DEF FirstManifest, Leave, RunInv, RunTypeInv, DirectoryInv,
         StatusInv, Complete, ManifestInv, Unlinking, Opened, InTry, files
    <3>7. (code = "ok" => lost \/ (manifest.run = runs /\ manifest.status = "complete"))'
      BY <1>6, FileUnchanged DEF FirstManifest, Leave, RunInv, RunTypeInv, DirectoryInv,
         StatusInv, Complete, ManifestInv, Unlinking, Opened, InTry, files
    <3> QED BY <3>1, <3>2, <3>3, <3>4, <3>5, <3>6, <3>7 DEF ManifestInv
  <2> QED BY <2>1, <2>2, <2>3, <2>4, <2>5, <2>6 DEF RunInv
<1>7. CASE EnterTry
  <2>1. RunTypeInv'
    BY <1>7 DEF EnterTry, RunInv, RunTypeInv, Unlinking, Opened, InTry, files
  <2>2. ShapeInv'
    BY <1>7, PairsUnchanged DEF EnterTry, RunInv, ShapeInv, files
  <2>3. DirectoryInv'
    BY <1>7 DEF EnterTry, RunInv, RunTypeInv, ShapeInv, DirectoryInv, RowsInv, Owner, Unlinking,
       Opened, InTry, files
  <2>4. RowsInv'
    BY <1>7 DEF EnterTry, RunInv, RunTypeInv, ShapeInv, RowsInv, Before, Unlinking, InStep, files
  <2>5. StatusInv'
    BY <1>7, FileUnchanged DEF EnterTry, RunInv, RunTypeInv, ShapeInv, RowsInv, StatusInv,
       Complete, Before, InStep, InTry, files
  <2>6. ManifestInv'
    BY <1>7, FileUnchanged DEF EnterTry, RunInv, RunTypeInv, DirectoryInv, StatusInv, Complete,
       ManifestInv, Unlinking, Opened, InTry, files
  <2> QED BY <2>1, <2>2, <2>3, <2>4, <2>5, <2>6 DEF RunInv
<1>8. CASE Observe
  <2>1. RunTypeInv'
    BY <1>8 DEF Observe, Raise, RunInv, RunTypeInv, Unlinking, Opened, InTry, files
  <2>2. ShapeInv'
    BY <1>8, PairsUnchanged DEF Observe, Raise, RunInv, ShapeInv, files
  <2>3. DirectoryInv'
    BY <1>8 DEF Observe, Raise, RunInv, RunTypeInv, ShapeInv, DirectoryInv, RowsInv, Owner,
       Unlinking, Opened, InTry, files
  <2>4. RowsInv'
    BY <1>8 DEF Observe, Raise, RunInv, RunTypeInv, ShapeInv, RowsInv, Before, Unlinking,
       InStep, files
  <2>5. StatusInv'
    BY <1>8, FileUnchanged DEF Observe, Raise, RunInv, RunTypeInv, ShapeInv, RowsInv, StatusInv,
       Complete, Before, InStep, InTry, files
  <2>6. ManifestInv'
    BY <1>8, FileUnchanged DEF Observe, Raise, RunInv, RunTypeInv, DirectoryInv, StatusInv,
       Complete, ManifestInv, Unlinking, Opened, InTry, files
  <2> QED BY <2>1, <2>2, <2>3, <2>4, <2>5, <2>6 DEF RunInv
<1>9. CASE LoadModel
  <2>1. RunTypeInv'
    BY <1>9 DEF LoadModel, Raise, RunInv, RunTypeInv, Unlinking, Opened, InTry, files
  <2>2. ShapeInv'
    BY <1>9, PairsUnchanged DEF LoadModel, Raise, RunInv, ShapeInv, files
  <2>3. DirectoryInv'
    BY <1>9 DEF LoadModel, Raise, RunInv, RunTypeInv, ShapeInv, DirectoryInv, RowsInv, Owner,
       Unlinking, Opened, InTry, files
  <2>4. RowsInv'
    BY <1>9 DEF LoadModel, Raise, RunInv, RunTypeInv, ShapeInv, RowsInv, Before, Unlinking,
       InStep, files
  <2>5. StatusInv'
    BY <1>9, FileUnchanged DEF LoadModel, Raise, RunInv, RunTypeInv, ShapeInv, RowsInv,
       StatusInv, Complete, Before, InStep, InTry, files
  <2>6. ManifestInv'
    BY <1>9, FileUnchanged DEF LoadModel, Raise, RunInv, RunTypeInv, DirectoryInv, StatusInv,
       Complete, ManifestInv, Unlinking, Opened, InTry, files
  <2> QED BY <2>1, <2>2, <2>3, <2>4, <2>5, <2>6 DEF RunInv
<1>10. CASE CreateRows
  <2>1. RunTypeInv'
    BY <1>10 DEF CreateRows, RunInv, RunTypeInv, Unlinking, Opened, InTry, files
  <2>2. ShapeInv'
    BY <1>10, PairsUnchanged DEF CreateRows, RunInv, ShapeInv, files
  <2>3. DirectoryInv'
    BY <1>10 DEF CreateRows, RunInv, RunTypeInv, ShapeInv, DirectoryInv, RowsInv, Owner,
       Unlinking, Opened, InTry, files
  <2>4. RowsInv'
    <3>1. (step \in Before => rows = <<>> /\ ~ buffered)'
      BY <1>10 DEF CreateRows, RunInv, RunTypeInv, ShapeInv, RowsInv, Before, Unlinking, InStep,
         files
    <3>2. (step \in InStep => gens.run = runs)'
      BY <1>10 DEF CreateRows, RunInv, RunTypeInv, ShapeInv, RowsInv, Before, Unlinking, InStep,
         files
    <3>3. (step \in InStep => gens.rows = rows)'
      BY <1>10 DEF CreateRows, RunInv, RunTypeInv, ShapeInv, RowsInv, Before, Unlinking, InStep,
         files
    <3>4. (step \in InStep => ~ buffered)'
      BY <1>10 DEF CreateRows, RunInv, RunTypeInv, ShapeInv, RowsInv, Before, Unlinking, InStep,
         files
    <3>5. (step = "checkpoint" => gens.run = runs /\ ~ buffered)'
      BY <1>10 DEF CreateRows, RunInv, RunTypeInv, ShapeInv, RowsInv, Before, Unlinking, InStep,
         files
    <3>6. (step = "checkpoint" => rows = Append(gens.rows, rows[Len(rows)]))'
      BY <1>10 DEF CreateRows, RunInv, RunTypeInv, ShapeInv, RowsInv, Before, Unlinking, InStep,
         files
    <3>7. (buffered => gens.run = runs)'
      BY <1>10 DEF CreateRows, RunInv, RunTypeInv, ShapeInv, RowsInv, Before, Unlinking, InStep,
         files
    <3> QED BY <3>1, <3>2, <3>3, <3>4, <3>5, <3>6, <3>7 DEF RowsInv
  <2>5. StatusInv'
    BY <1>10, FileUnchanged DEF CreateRows, RunInv, RunTypeInv, ShapeInv, RowsInv, StatusInv,
       Complete, Before, InStep, InTry, files
  <2>6. ManifestInv'
    BY <1>10, FileUnchanged DEF CreateRows, RunInv, RunTypeInv, DirectoryInv, StatusInv,
       Complete, ManifestInv, Unlinking, Opened, InTry, files
  <2> QED BY <2>1, <2>2, <2>3, <2>4, <2>5, <2>6 DEF RunInv
<1>11. CASE GenerateRow
  <2>1. RunTypeInv'
    BY <1>11 DEF GenerateRow, Raise, RunInv, RunTypeInv, Unlinking, Opened, InTry, files
  <2>2. ShapeInv'
    <3>1. rows \in Seq(Pairs) /\ gens = [run |-> gens.run, rows |-> gens.rows]
      BY DEF RunInv, ShapeInv
    <3>2. PairAt(Len(rows)) \in Pairs
      <4>1. Len(rows) \in Nat
        BY <3>1
      <4> QED BY <4>1, Zenon DEF Pairs
    <3>3. rows' = rows \/ rows' = Append(rows, PairAt(Len(rows)))
      BY <1>11 DEF GenerateRow
    <3>4. rows' \in Seq(Pairs)
      BY <3>1, <3>2, <3>3
    <3>5. args' = args /\ gens' = gens
      BY <1>11 DEF GenerateRow, files
    <3> QED BY <3>1, <3>4, <3>5, PairsUnchanged DEF ShapeInv
  <2>3. DirectoryInv'
    BY <1>11 DEF GenerateRow, Raise, RunInv, RunTypeInv, ShapeInv, DirectoryInv, RowsInv, Owner,
       Unlinking, Opened, InTry, files
  <2>4. RowsInv'
    <3>1. (step \in Before => rows = <<>> /\ ~ buffered)'
      BY <1>11 DEF GenerateRow, Raise, RunInv, RunTypeInv, ShapeInv, RowsInv, Before, Unlinking,
         InStep, files
    <3>2. (step \in InStep => gens.run = runs)'
      BY <1>11 DEF GenerateRow, Raise, RunInv, RunTypeInv, ShapeInv, RowsInv, Before, Unlinking,
         InStep, files
    <3>3. (step \in InStep => gens.rows = rows)'
      BY <1>11 DEF GenerateRow, Raise, RunInv, RunTypeInv, ShapeInv, RowsInv, Before, Unlinking,
         InStep, files
    <3>4. (step \in InStep => ~ buffered)'
      BY <1>11 DEF GenerateRow, Raise, RunInv, RunTypeInv, ShapeInv, RowsInv, Before, Unlinking,
         InStep, files
    <3>5. (step = "checkpoint" => gens.run = runs /\ ~ buffered)'
      BY <1>11 DEF GenerateRow, Raise, RunInv, RunTypeInv, ShapeInv, RowsInv, Before, Unlinking,
         InStep, files
    <3>6. (step = "checkpoint" => rows = Append(gens.rows, rows[Len(rows)]))'
      BY <1>11 DEF GenerateRow, Raise, RunInv, RunTypeInv, ShapeInv, RowsInv, Before, Unlinking,
         InStep, files
    <3>7. (buffered => gens.run = runs)'
      BY <1>11 DEF GenerateRow, Raise, RunInv, RunTypeInv, ShapeInv, RowsInv, Before, Unlinking,
         InStep, files
    <3> QED BY <3>1, <3>2, <3>3, <3>4, <3>5, <3>6, <3>7 DEF RowsInv
  <2>5. StatusInv'
    BY <1>11, FileUnchanged DEF GenerateRow, Raise, RunInv, RunTypeInv, ShapeInv, RowsInv,
       StatusInv, Complete, Before, InStep, InTry, files
  <2>6. ManifestInv'
    BY <1>11, FileUnchanged DEF GenerateRow, Raise, RunInv, RunTypeInv, DirectoryInv, StatusInv,
       Complete, ManifestInv, Unlinking, Opened, InTry, files
  <2> QED BY <2>1, <2>2, <2>3, <2>4, <2>5, <2>6 DEF RunInv
<1>12. CASE Checkpoint
  <2>1. RunTypeInv'
    BY <1>12 DEF Checkpoint, Raise, RunInv, RunTypeInv, Unlinking, Opened, InTry, files
  <2>2. ShapeInv'
    BY <1>12, PairsUnchanged DEF Checkpoint, Raise, RunInv, ShapeInv, files
  <2>3. DirectoryInv'
    BY <1>12 DEF Checkpoint, Raise, RunInv, RunTypeInv, ShapeInv, DirectoryInv, RowsInv, Owner,
       Unlinking, Opened, InTry, files
  <2>4. RowsInv'
    <3>1. (step \in Before => rows = <<>> /\ ~ buffered)'
      BY <1>12 DEF Checkpoint, Raise, RunInv, RunTypeInv, ShapeInv, RowsInv, Before, Unlinking,
         InStep, files
    <3>2. (step \in InStep => gens.run = runs)'
      BY <1>12 DEF Checkpoint, Raise, RunInv, RunTypeInv, ShapeInv, RowsInv, Before, Unlinking,
         InStep, files
    <3>3. (step \in InStep => gens.rows = rows)'
      BY <1>12 DEF Checkpoint, Raise, RunInv, RunTypeInv, ShapeInv, RowsInv, Before, Unlinking,
         InStep, files
    <3>4. (step \in InStep => ~ buffered)'
      BY <1>12 DEF Checkpoint, Raise, RunInv, RunTypeInv, ShapeInv, RowsInv, Before, Unlinking,
         InStep, files
    <3>5. (step = "checkpoint" => gens.run = runs /\ ~ buffered)'
      BY <1>12 DEF Checkpoint, Raise, RunInv, RunTypeInv, ShapeInv, RowsInv, Before, Unlinking,
         InStep, files
    <3>6. (step = "checkpoint" => rows = Append(gens.rows, rows[Len(rows)]))'
      BY <1>12 DEF Checkpoint, Raise, RunInv, RunTypeInv, ShapeInv, RowsInv, Before, Unlinking,
         InStep, files
    <3>7. (buffered => gens.run = runs)'
      BY <1>12 DEF Checkpoint, Raise, RunInv, RunTypeInv, ShapeInv, RowsInv, Before, Unlinking,
         InStep, files
    <3> QED BY <3>1, <3>2, <3>3, <3>4, <3>5, <3>6, <3>7 DEF RowsInv
  <2>5. StatusInv'
    BY <1>12, FileUnchanged DEF Checkpoint, Raise, RunInv, RunTypeInv, ShapeInv, RowsInv,
       StatusInv, Complete, Before, InStep, InTry, files
  <2>6. ManifestInv'
    BY <1>12, FileUnchanged DEF Checkpoint, Raise, RunInv, RunTypeInv, DirectoryInv, StatusInv,
       Complete, ManifestInv, Unlinking, Opened, InTry, files
  <2> QED BY <2>1, <2>2, <2>3, <2>4, <2>5, <2>6 DEF RunInv
<1>13. CASE CloseRows
  <2>1. RunTypeInv'
    BY <1>13 DEF CloseRows, RunInv, RunTypeInv, Unlinking, Opened, InTry, files
  <2>2. ShapeInv'
    BY <1>13, PairsUnchanged DEF CloseRows, RunInv, ShapeInv, files
  <2>3. DirectoryInv'
    BY <1>13 DEF CloseRows, RunInv, RunTypeInv, ShapeInv, DirectoryInv, RowsInv, Owner,
       Unlinking, Opened, InTry, files
  <2>4. RowsInv'
    BY <1>13 DEF CloseRows, RunInv, RunTypeInv, ShapeInv, RowsInv, Before, Unlinking, InStep,
       files
  <2>5. StatusInv'
    BY <1>13, FileUnchanged DEF CloseRows, RunInv, RunTypeInv, ShapeInv, RowsInv, StatusInv,
       Complete, Before, InStep, InTry, files
  <2>6. ManifestInv'
    BY <1>13, FileUnchanged DEF CloseRows, RunInv, RunTypeInv, DirectoryInv, StatusInv,
       Complete, ManifestInv, Unlinking, Opened, InTry, files
  <2> QED BY <2>1, <2>2, <2>3, <2>4, <2>5, <2>6 DEF RunInv
<1>14. CASE Assess
  <2>1. RunTypeInv'
    BY <1>14 DEF Assess, Raise, RunInv, RunTypeInv, Unlinking, Opened, InTry, files
  <2>2. ShapeInv'
    BY <1>14, PairsUnchanged DEF Assess, Raise, RunInv, ShapeInv, files
  <2>3. DirectoryInv'
    BY <1>14 DEF Assess, Raise, RunInv, RunTypeInv, ShapeInv, DirectoryInv, RowsInv, Owner,
       Unlinking, Opened, InTry, files
  <2>4. RowsInv'
    BY <1>14 DEF Assess, Raise, RunInv, RunTypeInv, ShapeInv, RowsInv, Before, Unlinking,
       InStep, files
  <2>5. StatusInv'
    BY <1>14, FileUnchanged DEF Assess, Raise, RunInv, RunTypeInv, ShapeInv, RowsInv, StatusInv,
       Complete, Before, InStep, InTry, files
  <2>6. ManifestInv'
    BY <1>14, FileUnchanged DEF Assess, Raise, RunInv, RunTypeInv, DirectoryInv, StatusInv,
       Complete, ManifestInv, Unlinking, Opened, InTry, files
  <2> QED BY <2>1, <2>2, <2>3, <2>4, <2>5, <2>6 DEF RunInv
<1>15. CASE WriteRunReport
  <2>1. RunTypeInv'
    BY <1>15 DEF WriteRunReport, Raise, RunInv, RunTypeInv, Unlinking, Opened, InTry, files
  <2>2. ShapeInv'
    BY <1>15, PairsUnchanged DEF WriteRunReport, Raise, RunInv, ShapeInv, files
  <2>3. DirectoryInv'
    BY <1>15 DEF WriteRunReport, Raise, RunInv, RunTypeInv, ShapeInv, DirectoryInv, RowsInv, Owner,
       Unlinking, Opened, InTry, files
  <2>4. RowsInv'
    BY <1>15 DEF WriteRunReport, Raise, RunInv, RunTypeInv, ShapeInv, RowsInv, Before, Unlinking,
       InStep, files
  <2>5. StatusInv'
    BY <1>15, FileUnchanged DEF WriteRunReport, Raise, RunInv, RunTypeInv, ShapeInv, RowsInv,
       StatusInv, Complete, Before, InStep, InTry, files
  <2>6. ManifestInv'
    BY <1>15, FileUnchanged DEF WriteRunReport, Raise, RunInv, RunTypeInv, DirectoryInv, StatusInv,
       Complete, ManifestInv, Unlinking, Opened, InTry, files
  <2> QED BY <2>1, <2>2, <2>3, <2>4, <2>5, <2>6 DEF RunInv
<1>16. CASE Validate
  <2>1. RunTypeInv'
    BY <1>16 DEF Validate, Raise, RunInv, RunTypeInv, Unlinking, Opened, InTry, files
  <2>2. ShapeInv'
    BY <1>16, PairsUnchanged DEF Validate, Raise, RunInv, ShapeInv, files
  <2>3. DirectoryInv'
    BY <1>16 DEF Validate, Raise, RunInv, RunTypeInv, ShapeInv, DirectoryInv, RowsInv, Owner,
       Unlinking, Opened, InTry, files
  <2>4. RowsInv'
    BY <1>16 DEF Validate, Raise, RunInv, RunTypeInv, ShapeInv, RowsInv, Before, Unlinking,
       InStep, files
  <2>5. StatusInv'
    BY <1>16, FileUnchanged DEF Validate, Raise, RunInv, RunTypeInv, ShapeInv, RowsInv,
       StatusInv, Complete, Before, InStep, InTry, files
  <2>6. ManifestInv'
    BY <1>16, FileUnchanged DEF Validate, Raise, RunInv, RunTypeInv, DirectoryInv, StatusInv,
       Complete, ManifestInv, Unlinking, Opened, InTry, files
  <2> QED BY <2>1, <2>2, <2>3, <2>4, <2>5, <2>6 DEF RunInv
<1>17. CASE Announce
  <2>1. RunTypeInv'
    BY <1>17 DEF Announce, RunInv, RunTypeInv, Unlinking, Opened, InTry, files
  <2>2. ShapeInv'
    BY <1>17, PairsUnchanged DEF Announce, RunInv, ShapeInv, files
  <2>3. DirectoryInv'
    BY <1>17 DEF Announce, RunInv, RunTypeInv, ShapeInv, DirectoryInv, RowsInv, Owner,
       Unlinking, Opened, InTry, files
  <2>4. RowsInv'
    BY <1>17 DEF Announce, RunInv, RunTypeInv, ShapeInv, RowsInv, Before, Unlinking, InStep, files
  <2>5. StatusInv'
    BY <1>17, FileUnchanged DEF Announce, RunInv, RunTypeInv, ShapeInv, RowsInv, StatusInv,
       Complete, Before, InStep, InTry, files
  <2>6. ManifestInv'
    BY <1>17, FileUnchanged DEF Announce, RunInv, RunTypeInv, DirectoryInv, StatusInv, Complete,
       ManifestInv, Unlinking, Opened, InTry, files
  <2> QED BY <2>1, <2>2, <2>3, <2>4, <2>5, <2>6 DEF RunInv
<1>18. CASE CloseAgain
  <2>1. RunTypeInv'
    BY <1>18 DEF CloseAgain, Leave, RunInv, RunTypeInv, Unlinking, Opened, InTry, files
  <2>2. ShapeInv'
    BY <1>18, PairsUnchanged DEF CloseAgain, Leave, RunInv, ShapeInv, files
  <2>3. DirectoryInv'
    BY <1>18 DEF CloseAgain, Leave, RunInv, RunTypeInv, ShapeInv, DirectoryInv, RowsInv, Owner,
       Unlinking, Opened, InTry, files
  <2>4. RowsInv'
    BY <1>18 DEF CloseAgain, Leave, RunInv, RunTypeInv, ShapeInv, RowsInv, Before, Unlinking,
       InStep, files
  <2>5. StatusInv'
    BY <1>18, FileUnchanged DEF CloseAgain, Leave, RunInv, RunTypeInv, ShapeInv, RowsInv,
       StatusInv, Complete, Before, InStep, InTry, files
  <2>6. ManifestInv'
    BY <1>18, FileUnchanged DEF CloseAgain, Leave, RunInv, RunTypeInv, DirectoryInv, StatusInv,
       Complete, ManifestInv, Unlinking, Opened, InTry, files
  <2> QED BY <2>1, <2>2, <2>3, <2>4, <2>5, <2>6 DEF RunInv
<1>19. CASE Finalize
  <2>1. RunTypeInv'
    BY <1>19 DEF Finalize, Leave, ExitCode, RunInv, RunTypeInv, Unlinking, Opened, InTry, files
  <2>2. ShapeInv'
    BY <1>19, PairsUnchanged DEF Finalize, Leave, ExitCode, RunInv, ShapeInv, files
  <2>3. DirectoryInv'
    BY <1>19 DEF Finalize, Leave, ExitCode, RunInv, RunTypeInv, ShapeInv, DirectoryInv, RowsInv,
       Owner, Unlinking, Opened, InTry, files
  <2>4. RowsInv'
    BY <1>19 DEF Finalize, Leave, ExitCode, RunInv, RunTypeInv, ShapeInv, RowsInv, Before,
       Unlinking, InStep, files
  <2>5. StatusInv'
    BY <1>19, FileUnchanged DEF Finalize, Leave, ExitCode, RunInv, RunTypeInv, ShapeInv,
       RowsInv, StatusInv, Complete, Before, InStep, InTry, files
  <2>6. ManifestInv'
    <3>1. (manifest.status = "complete" => manifest.run # 0 /\ step \notin Opened)'
      BY <1>19, FileUnchanged, ValidIsWhole DEF Finalize, Leave, ExitCode, RunInv, RunTypeInv,
         DirectoryInv, StatusInv, Complete, ManifestInv, Unlinking, Opened, InTry, files
    <3>2. (manifest.status = "complete" /\ step \in Unlinking => manifest.run # runs)'
      BY <1>19, FileUnchanged, ValidIsWhole DEF Finalize, Leave, ExitCode, RunInv, RunTypeInv,
         DirectoryInv, StatusInv, Complete, ManifestInv, Unlinking, Opened, InTry, files
    <3>3. (manifest.status = "complete" /\ gens.run = manifest.run => Whole)'
      BY <1>19, FileUnchanged, ValidIsWhole DEF Finalize, Leave, ExitCode, RunInv, RunTypeInv,
         DirectoryInv, StatusInv, Complete, ManifestInv, Unlinking, Opened, InTry, files
    <3>4. (manifest.status = "complete" /\ gens.run = manifest.run => Len(gens.rows) = manifest.rows)'
      BY <1>19, FileUnchanged, ValidIsWhole DEF Finalize, Leave, ExitCode, RunInv, RunTypeInv,
         DirectoryInv, StatusInv, Complete, ManifestInv, Unlinking, Opened, InTry, files
    <3>5. (manifest.status = "complete" /\ gens.run = manifest.run /\ manifest.run = runs => Valid)'
      BY <1>19, FileUnchanged, ValidIsWhole DEF Finalize, Leave, ExitCode, RunInv, RunTypeInv,
         DirectoryInv, StatusInv, Complete, ManifestInv, Unlinking, Opened, InTry, files
    <3>6. (code = "ok" => gens.run = runs /\ Valid /\ report = runs)'
      BY <1>19, FileUnchanged, ValidIsWhole DEF Finalize, Leave, ExitCode, RunInv, RunTypeInv,
         DirectoryInv, StatusInv, Complete, ManifestInv, Unlinking, Opened, InTry, files
    <3>7. (code = "ok" => lost \/ (manifest.run = runs /\ manifest.status = "complete"))'
      BY <1>19, FileUnchanged, ValidIsWhole DEF Finalize, Leave, ExitCode, RunInv, RunTypeInv,
         DirectoryInv, StatusInv, Complete, ManifestInv, Unlinking, Opened, InTry, files
    <3> QED BY <3>1, <3>2, <3>3, <3>4, <3>5, <3>6, <3>7 DEF ManifestInv
  <2> QED BY <2>1, <2>2, <2>3, <2>4, <2>5, <2>6 DEF RunInv
<1>20. CASE Terminate
  <2>1. RunTypeInv'
    BY <1>20 DEF Terminate, Raise, Leave, Live, RunInv, RunTypeInv, Unlinking, Opened, InTry,
       files
  <2>2. ShapeInv'
    BY <1>20, PairsUnchanged DEF Terminate, Raise, Leave, Live, RunInv, ShapeInv, files
  <2>3. DirectoryInv'
    BY <1>20 DEF Terminate, Raise, Leave, Live, RunInv, RunTypeInv, ShapeInv, DirectoryInv,
       RowsInv, Owner, Unlinking, Opened, InTry, files
  <2>4. RowsInv'
    BY <1>20 DEF Terminate, Raise, Leave, Live, RunInv, RunTypeInv, ShapeInv, RowsInv, Before,
       Unlinking, InStep, files
  <2>5. StatusInv'
    BY <1>20, FileUnchanged DEF Terminate, Raise, Leave, Live, RunInv, RunTypeInv, ShapeInv,
       RowsInv, StatusInv, Complete, Before, InStep, InTry, files
  <2>6. ManifestInv'
    BY <1>20, FileUnchanged DEF Terminate, Raise, Leave, Live, RunInv, RunTypeInv, DirectoryInv,
       StatusInv, Complete, ManifestInv, Unlinking, Opened, InTry, files
  <2> QED BY <2>1, <2>2, <2>3, <2>4, <2>5, <2>6 DEF RunInv
<1>21. CASE Kill
  <2>1. RunTypeInv'
    BY <1>21 DEF Kill, Leave, Live, RunInv, RunTypeInv, Unlinking, Opened, InTry, files
  <2>2. ShapeInv'
    BY <1>21, PairsUnchanged DEF Kill, Leave, Live, RunInv, ShapeInv, files
  <2>3. DirectoryInv'
    BY <1>21 DEF Kill, Leave, Live, RunInv, RunTypeInv, ShapeInv, DirectoryInv, RowsInv, Owner,
       Unlinking, Opened, InTry, files
  <2>4. RowsInv'
    BY <1>21 DEF Kill, Leave, Live, RunInv, RunTypeInv, ShapeInv, RowsInv, Before, Unlinking,
       InStep, files
  <2>5. StatusInv'
    BY <1>21, FileUnchanged DEF Kill, Leave, Live, RunInv, RunTypeInv, ShapeInv, RowsInv,
       StatusInv, Complete, Before, InStep, InTry, files
  <2>6. ManifestInv'
    BY <1>21, FileUnchanged DEF Kill, Leave, Live, RunInv, RunTypeInv, DirectoryInv, StatusInv,
       Complete, ManifestInv, Unlinking, Opened, InTry, files
  <2> QED BY <2>1, <2>2, <2>3, <2>4, <2>5, <2>6 DEF RunInv
<1>22. CASE Space
  <2>1. RunTypeInv'
    BY <1>22 DEF Space, Live, RunInv, RunTypeInv, Unlinking, Opened, InTry, files
  <2>2. ShapeInv'
    BY <1>22, PairsUnchanged DEF Space, Live, RunInv, ShapeInv, files
  <2>3. DirectoryInv'
    BY <1>22 DEF Space, Live, RunInv, RunTypeInv, ShapeInv, DirectoryInv, RowsInv, Owner,
       Unlinking, Opened, InTry, files
  <2>4. RowsInv'
    BY <1>22 DEF Space, Live, RunInv, RunTypeInv, ShapeInv, RowsInv, Before, Unlinking, InStep,
       files
  <2>5. StatusInv'
    BY <1>22, FileUnchanged DEF Space, Live, RunInv, RunTypeInv, ShapeInv, RowsInv, StatusInv,
       Complete, Before, InStep, InTry, files
  <2>6. ManifestInv'
    BY <1>22, FileUnchanged DEF Space, Live, RunInv, RunTypeInv, DirectoryInv, StatusInv,
       Complete, ManifestInv, Unlinking, Opened, InTry, files
  <2> QED BY <2>1, <2>2, <2>3, <2>4, <2>5, <2>6 DEF RunInv
<1>23. CASE UNCHANGED BfclVars
  <2>1. RunTypeInv'
    BY <1>23 DEF BfclVars, RunInv, RunTypeInv, Unlinking, Opened, InTry, files
  <2>2. ShapeInv'
    BY <1>23, PairsUnchanged DEF BfclVars, RunInv, ShapeInv, files
  <2>3. DirectoryInv'
    BY <1>23 DEF BfclVars, RunInv, RunTypeInv, ShapeInv, DirectoryInv, RowsInv, Owner, Unlinking,
       Opened, InTry, files
  <2>4. RowsInv'
    BY <1>23 DEF BfclVars, RunInv, RunTypeInv, ShapeInv, RowsInv, Before, Unlinking, InStep, files
  <2>5. StatusInv'
    BY <1>23, FileUnchanged DEF BfclVars, RunInv, RunTypeInv, ShapeInv, RowsInv, StatusInv,
       Complete, Before, InStep, InTry, files
  <2>6. ManifestInv'
    BY <1>23, FileUnchanged DEF BfclVars, RunInv, RunTypeInv, DirectoryInv, StatusInv, Complete,
       ManifestInv, Unlinking, Opened, InTry, files
  <2> QED BY <2>1, <2>2, <2>3, <2>4, <2>5, <2>6 DEF RunInv
<1> QED
  BY <1>1, <1>2, <1>3, <1>4, <1>5, <1>6, <1>7, <1>8, <1>9, <1>10, <1>11, <1>12, <1>13,
     <1>14, <1>15, <1>16, <1>17, <1>18, <1>19, <1>20, <1>21, <1>22, <1>23 DEF BfclNext

LEMMA InvHolds == BfclSpec => []RunInv
<1> QED BY RunInitInv, RunNextInv, PTL DEF BfclSpec

-----------------------------------------------------------------------------
\* Whatever ends a run and whatever is refused or discarded at the next one's start,
\* the files of a directory that hold bytes are of one run.
THEOREM FilesAreOfOneRun == BfclSpec => []OneRunPerDirectory
<1>1. RunInv => OneRunPerDirectory
  BY DEF RunInv, DirectoryInv, Owner, OneRunPerDirectory
<1> QED BY <1>1, InvHolds, PTL

\* A manifest that says complete has beside it every prompt under every candidate,
\* once and whole: `complete` is assigned over a file that was read back, and no row
\* is written after that.
THEOREM CompleteIsReadBack == BfclSpec => []CompleteIsBacked
<1>1. RunInv => CompleteIsBacked
  BY DEF RunInv, ManifestInv, Whole, Valid, CompleteIsBacked
<1> QED BY <1>1, InvHolds, PTL

\* An exit of 0 is of such a run, with its report, and with its manifest unless the
\* last write was warned about.
THEOREM ExitZeroIsEvidence == BfclSpec => []GreenExitHasEvidence
<1>1. RunInv => GreenExitHasEvidence
  BY DEF RunInv, ManifestInv, Valid, GreenExitHasEvidence
<1> QED BY <1>1, InvHolds, PTL

-----------------------------------------------------------------------------
\* What the start of a run has asked, as long as the file of rows is not made.
AskedInv ==
    /\ gens.rows \in Seq(Range(gens.rows))
    /\ step \in Unlinking \ {"stale"} => args.overwrite
    /\ step \in Before \ Unlinking => gens.rows = <<>>

\* A row more, or a part of one made whole, leaves the file as long as it was.
LEMMA RowsGrow ==
    ASSUME NEW s, s \in Seq(Range(s)), NEW x
    PROVE  /\ Append(s, x) \in Seq(Range(Append(s, x))) /\ Len(Append(s, x)) >= Len(s)
           /\ Ended(s, x) \in Seq(Range(Ended(s, x))) /\ Len(Ended(s, x)) >= Len(s)
<1> DEFINE R == Range(s) \cup {x}
<1>1. s \in Seq(R) /\ x \in R /\ Len(s) \in Nat
  OBVIOUS
<1>2. ASSUME NEW t \in Seq(R) PROVE t \in Seq(Range(t))
  <2>1. t = [i \in 1 .. Len(t) |-> t[i]] /\ Len(t) \in Nat
    OBVIOUS
  <2>2. \A i \in 1 .. Len(t) : t[i] \in Range(t)
    BY <2>1 DEF Range
  <2> QED BY <2>1, <2>2
<1>3. Append(s, x) \in Seq(R) /\ Len(Append(s, x)) >= Len(s)
  BY <1>1
<1>4. Ended(s, x) \in Seq(R) /\ Len(Ended(s, x)) >= Len(s)
  <2>1. CASE s # <<>> /\ s[Len(s)] = Torn
    <3>1. Ended(s, x) = [s EXCEPT ![Len(s)] = x]
      BY <2>1 DEF Ended
    <3>2. Len(s) \in 1 .. Len(s)
      BY <2>1, <1>1
    <3> QED BY <3>1, <3>2, <1>1
  <2>2. CASE ~ (s # <<>> /\ s[Len(s)] = Torn)
    BY <2>2, <1>3 DEF Ended
  <2> QED BY <2>1, <2>2
<1> QED BY <1>2, <1>3, <1>4

LEMMA AskedInitInv == BfclInit => AskedInv
<1>1. BfclInit => gens.rows = <<>> /\ step = "ended"
  BY DEF BfclInit, NoGens
<1>2. <<>> \in Seq(Range(<<>>))
  OBVIOUS
<1> QED BY <1>1, <1>2 DEF AskedInv, Unlinking, Before

LEMMA AskedNextInv == RunInv /\ AskedInv /\ [BfclNext]_BfclVars => AskedInv'
<1> SUFFICES ASSUME RunInv, AskedInv, [BfclNext]_BfclVars PROVE AskedInv'
  OBVIOUS
<1>1. ASSUME gens' = gens, step' \notin Before \ {"stale"} PROVE AskedInv'
  BY <1>1 DEF AskedInv, Unlinking, Before
<1>2. ASSUME gens' = gens, args' = args, step' = step PROVE AskedInv'
  BY <1>2 DEF AskedInv
<1>3. CASE StartRun \/ RefuseStale \/ Kill \/ Finalize
  BY <1>3, <1>1 DEF StartRun, RefuseStale, Kill, Finalize, Leave, Before, Unlinking, files
<1>4. CASE CheckStale
  <2>1. args.overwrite \/ gens.rows = <<>>
    BY <1>4 DEF CheckStale, Stale
  <2> QED BY <1>4, <2>1 DEF CheckStale, AskedInv, Unlinking, Before, files
<1>5. CASE Unlink
  <2>1. gens' = gens \/ gens' = NoGens
    BY <1>5 DEF Unlink
  <2>2. gens'.rows \in Seq(Range(gens'.rows))
    <3>1. <<>> \in Seq(Range(<<>>))
      OBVIOUS
    <3>2. gens'.rows = gens.rows \/ gens'.rows = <<>>
      BY <2>1 DEF NoGens
    <3> QED BY <3>1, <3>2 DEF AskedInv
  <2>3. step' = "inputs" => gens'.rows = <<>>
    BY <1>5 DEF Unlink, RunInv, DirectoryInv
  <2> QED BY <1>5, <2>2, <2>3 DEF Unlink, AskedInv, Unlinking, Before
<1>6. CASE ReadInputs \/ FirstManifest \/ EnterTry \/ Observe \/ LoadModel
  BY <1>6 DEF ReadInputs, FirstManifest, EnterTry, Observe, LoadModel, Leave, Raise, AskedInv,
     Unlinking, Before, files
<1>7. CASE CreateRows
  <2>1. gens'.rows = <<>> /\ step' \in {"close", "generate"}
    BY <1>7 DEF CreateRows
  <2>2. <<>> \in Seq(Range(<<>>))
    OBVIOUS
  <2> QED BY <2>1, <2>2 DEF AskedInv, Unlinking, Before
<1>8. CASE GenerateRow \/ CloseRows \/ Assess \/ WriteRunReport \/ Validate \/ Announce
  BY <1>8, <1>1 DEF GenerateRow, CloseRows, Assess, WriteRunReport, Validate, Announce, Raise,
     Before, Unlinking, files
<1>9. CASE Checkpoint
  <2>1. gens'.rows = gens.rows \/ \E x : gens'.rows = Append(gens.rows, x)
    BY <1>9 DEF Checkpoint, RunInv, ShapeInv
  <2>2. gens'.rows \in Seq(Range(gens'.rows))
    BY <2>1, RowsGrow DEF AskedInv
  <2>3. step' \in {"close", "generate", "finally"}
    BY <1>9 DEF Checkpoint, Raise
  <2> QED BY <2>2, <2>3 DEF AskedInv, Unlinking, Before
<1>10. CASE CloseAgain
  <2>1. gens'.rows = gens.rows \/ \E x : gens'.rows = Ended(gens.rows, x)
    BY <1>10 DEF CloseAgain, RunInv, ShapeInv
  <2>2. gens'.rows \in Seq(Range(gens'.rows))
    BY <2>1, RowsGrow DEF AskedInv
  <2>3. step' \in {"ended", "finalize"}
    BY <1>10 DEF CloseAgain, Leave
  <2> QED BY <2>2, <2>3 DEF AskedInv, Unlinking, Before
<1>11. CASE Terminate
  BY <1>11, <1>1 DEF Terminate, Raise, Leave, Before, Unlinking, files
<1>12. CASE Space \/ UNCHANGED BfclVars
  BY <1>12, <1>2 DEF Space, BfclVars, files
<1> QED
  BY <1>3, <1>4, <1>5, <1>6, <1>7, <1>8, <1>9, <1>10, <1>11, <1>12 DEF BfclNext

\* What was paid for is on disk before the next row is paid for, and the file of rows
\* becomes shorter only for a run that was asked to overwrite it: not by a crash, a
\* full disk, a signal or the next run in the directory.
THEOREM PaidRowsAreKept == BfclSpec => PaidRowsStay
<1>1. ASSUME RunInv, AskedInv, [BfclNext]_BfclVars PROVE [KeepsPaidRows]_BfclVars
  <2>1. step = "generate" => gens.rows = rows
    BY <1>1 DEF RunInv, RowsInv, InStep
  <2>2. ASSUME NEW x PROVE /\ Len(Append(gens.rows, x)) >= Len(gens.rows)
                           /\ Len(Ended(gens.rows, x)) >= Len(gens.rows)
    BY <1>1, RowsGrow DEF AskedInv
  <2>3. Len(gens.rows) \in Nat
    BY <1>1 DEF AskedInv
  <2>4. ASSUME BfclNext, Len(gens'.rows) < Len(gens.rows) PROVE args.overwrite
    <3>1. gens' # gens
      BY <2>3, <2>4
    <3>2. Unlink \/ CreateRows \/ Checkpoint \/ CloseAgain
      BY <2>4, <3>1 DEF BfclNext, StartRun, RefuseStale, CheckStale, ReadInputs, FirstManifest,
         EnterTry, Observe, LoadModel, GenerateRow, CloseRows, Assess, WriteRunReport, Validate,
         Announce, Finalize, Terminate, Kill, Space, files
    <3>3. CASE Unlink
      BY <1>1, <3>1, <3>3 DEF Unlink, AskedInv, Unlinking
    <3>4. CASE CreateRows
      BY <1>1, <2>4, <3>4 DEF CreateRows, AskedInv, Before, Unlinking
    <3>5. CASE Checkpoint
      <4>1. gens'.rows = gens.rows \/ \E x : gens'.rows = Append(gens.rows, x)
        BY <1>1, <3>5 DEF Checkpoint, RunInv, ShapeInv
      <4>2. PICK x : gens'.rows = Append(gens.rows, x)
        BY <4>1, <2>3, <2>4
      <4>3. Len(Append(gens.rows, x)) \in Nat
        BY <1>1, RowsGrow DEF AskedInv
      <4> QED BY <4>2, <4>3, <2>2, <2>3, <2>4
    <3>6. CASE CloseAgain
      <4>1. gens'.rows = gens.rows \/ \E x : gens'.rows = Ended(gens.rows, x)
        BY <1>1, <3>6 DEF CloseAgain, RunInv, ShapeInv
      <4>2. PICK x : gens'.rows = Ended(gens.rows, x)
        BY <4>1, <2>3, <2>4
      <4>3. Len(Ended(gens.rows, x)) \in Nat
        BY <1>1, RowsGrow DEF AskedInv
      <4> QED BY <4>2, <4>3, <2>2, <2>3, <2>4
    <3> QED BY <3>2, <3>3, <3>4, <3>5, <3>6
  <2> QED BY <1>1, <2>1, <2>4 DEF KeepsPaidRows
<1> QED
  BY <1>1, InvHolds, AskedInitInv, AskedNextInv, PTL DEF BfclSpec, PaidRowsStay

-----------------------------------------------------------------------------
\* How many rows there may be, and whose the files are.
HeldInv ==
    /\ args.prompts \in 0 .. Prompts /\ Len(args.names) \in Nat
    /\ runs <= MaxRuns /\ signals \in Nat
    /\ gens.run \in 0 .. runs /\ report \in 0 .. runs
    /\ manifest.status \in {"absent", "running", "incomplete", "complete"}
    /\ Len(rows) <= ExpectedRows
    /\ step = "generate" => Len(rows) < ExpectedRows
    /\ buffered => raised = "OSError" \/ signals > 0

\* There is a number of rows to expect.
LEMMA RowsExpected == HeldInv => ExpectedRows \in Nat
<1> SUFFICES ASSUME HeldInv PROVE ExpectedRows \in Nat
  OBVIOUS
<1> DEFINE a == args.prompts
           b == Len(args.names)
<1>1. a \in Nat /\ b \in Nat /\ ExpectedRows = a * b
  BY DEF HeldInv, ExpectedRows
<1> HIDE DEF a, b
<1>2. a * b \in Nat
  BY <1>1
<1> QED BY <1>1, <1>2

LEMMA CandidatesAreListed ==
    ASSUME BfclAssumption, NEW base \in BOOLEAN, NEW sftOnly \in BOOLEAN, NEW steps \in Sweeps
    PROVE  Len(Candidates(base, sftOnly, steps)) \in Nat
<1> DEFINE S == STRING \cup {"base", "sft"}
<1>1. steps \in Seq(S)
  <2> DEFINE T == STRING
  <2>1. steps \in Seq(T) /\ T \subseteq S
    BY DEF BfclAssumption
  <2> HIDE DEF S, T
  <2> QED BY <2>1
<1>2. "base" \in S /\ "sft" \in S
  OBVIOUS
<1> HIDE DEF S
<1>3. \A s, t \in Seq(S) : s \o t \in Seq(S)
  OBVIOUS
<1>4. /\ (IF base THEN <<"base">> ELSE <<>>) \in Seq(S)
      /\ (IF sftOnly THEN <<>> ELSE steps) \in Seq(S)
      /\ <<"sft">> \in Seq(S)
  BY <1>1, <1>2
<1>5. Candidates(base, sftOnly, steps) \in Seq(S)
  BY <1>3, <1>4 DEF Candidates
<1> QED BY <1>5

LEMMA HeldInitInv == ASSUME BfclAssumption, BfclInit PROVE HeldInv
<1>1. args.prompts = 0 /\ args.names = <<"sft">> /\ Len(args.names) = 1
  BY DEF BfclInit
<1>2. ExpectedRows = 0
  BY <1>1 DEF ExpectedRows
<1> QED BY <1>1, <1>2 DEF BfclInit, HeldInv, NoGens, NoManifest, BfclAssumption

LEMMA HeldNextInv ==
    ASSUME BfclAssumption, RunInv, HeldInv, [BfclNext]_BfclVars PROVE HeldInv'
<1>1. /\ ExpectedRows \in Nat /\ rows \in Seq(Pairs) /\ Len(rows) \in Nat /\ runs \in Nat
      /\ MaxRuns \in Nat
  BY RowsExpected DEF RunInv, RunTypeInv, ShapeInv, BfclAssumption
<1>2. args' = args => ExpectedRows' = ExpectedRows
  BY DEF ExpectedRows
<1>3. ASSUME UNCHANGED <<runs, args, rows, buffered, raised, signals, files>>, step' # "generate"
      PROVE  HeldInv'
  BY <1>2, <1>3 DEF HeldInv, files
<1>4. ASSUME UNCHANGED <<runs, args, rows, files>>, step' # "generate",
             buffered' => raised' = "OSError" \/ signals' > 0, signals' \in Nat
      PROVE  HeldInv'
  BY <1>2, <1>4 DEF HeldInv, files
<1>5. CASE StartRun
  <2>1. PICK n \in 0 .. Prompts, base \in BOOLEAN, sftOnly \in BOOLEAN, over \in BOOLEAN, steps \in Sweeps :
            args' = [prompts |-> n, names |-> Candidates(base, sftOnly, steps), overwrite |-> over]
    BY <1>5 DEF StartRun
  <2>2. /\ runs' = runs + 1 /\ runs' <= MaxRuns /\ step' = "stale" /\ rows' = <<>>
        /\ buffered' = FALSE /\ signals' = 0 /\ UNCHANGED files
    BY <1>1, <1>5 DEF StartRun
  <2>3. args'.prompts \in 0 .. Prompts /\ Len(args'.names) \in Nat
    BY <2>1, CandidatesAreListed
  <2>4. ExpectedRows' \in Nat
    <3> DEFINE a == args'.prompts
               b == Len(args'.names)
    <3>1. a \in Nat /\ b \in Nat /\ ExpectedRows' = a * b
      BY <2>3 DEF ExpectedRows, BfclAssumption
    <3> HIDE DEF a, b
    <3>2. a * b \in Nat
      BY <3>1
    <3> QED BY <3>1, <3>2
  <2>5. Len(rows') = 0
    BY <2>2
  <2> QED BY <1>1, <2>2, <2>3, <2>4, <2>5 DEF HeldInv, files
<1>6. CASE RefuseStale \/ CheckStale \/ ReadInputs \/ EnterTry \/ CloseRows \/ Announce \/ Kill
  BY <1>3, <1>6 DEF RefuseStale, CheckStale, ReadInputs, EnterTry, CloseRows, Announce, Kill, Leave
<1>7. CASE Unlink
  <2>1. UNCHANGED <<runs, args, rows, buffered, raised, signals>> /\ step' # "generate"
    BY <1>7 DEF Unlink
  <2>2. gens' \in {gens, NoGens} /\ report' \in {report, 0} /\ manifest' \in {manifest, NoManifest}
    BY <1>7 DEF Unlink
  <2> QED BY <1>1, <1>2, <2>1, <2>2 DEF HeldInv, NoGens, NoManifest
<1>8. CASE FirstManifest
  BY <1>1, <1>2, <1>8 DEF FirstManifest, Leave, HeldInv
<1>9. CASE Observe \/ LoadModel \/ Assess \/ WriteRunReport \/ Validate
  <2>1. ~ buffered
    BY <1>9 DEF Observe, LoadModel, Assess, WriteRunReport, Validate, RunInv, RowsInv, Before, InStep
  <2>2. CASE WriteRunReport
    BY <1>1, <1>2, <2>1, <2>2 DEF WriteRunReport, Raise, HeldInv
  <2>3. CASE Observe \/ LoadModel \/ Assess \/ Validate
    <3>1. /\ UNCHANGED <<runs, args, rows, files, buffered, signals>> /\ step' # "generate"
      BY <2>3 DEF Observe, LoadModel, Assess, Validate, Raise
    <3> QED BY <1>4, <2>1, <3>1 DEF HeldInv
  <2> QED BY <1>9, <2>2, <2>3
<1>10. CASE CreateRows
  <2>1. rows = <<>> /\ ~ buffered
    BY <1>10 DEF CreateRows, RunInv, RowsInv, Before
  <2>2. /\ UNCHANGED <<runs, args, rows, buffered, raised, signals, report, manifest>>
        /\ gens'.run = runs /\ (step' = "generate" => ExpectedRows # 0)
    BY <1>10 DEF CreateRows
  <2>3. Len(rows) = 0
    BY <2>1
  <2> QED BY <1>1, <1>2, <2>1, <2>2, <2>3 DEF HeldInv
<1>11. CASE GenerateRow
  <2>1. ~ buffered /\ Len(rows) < ExpectedRows
    BY <1>11 DEF GenerateRow, RunInv, RowsInv, InStep, HeldInv
  <2>2. UNCHANGED <<runs, args, buffered, signals, files>> /\ step' # "generate"
    BY <1>11 DEF GenerateRow, Raise
  <2>3. rows' = rows \/ rows' = Append(rows, PairAt(Len(rows)))
    BY <1>11 DEF GenerateRow
  <2>4. Len(rows') <= ExpectedRows
    BY <1>1, <2>1, <2>3
  <2> QED BY <1>2, <2>1, <2>2, <2>4 DEF HeldInv, files
<1>12. CASE Checkpoint
  <2>1. /\ UNCHANGED <<runs, args, rows, signals, report, manifest>> /\ ~ buffered
        /\ gens'.run = gens.run
        /\ step' = "generate" => Len(rows) # ExpectedRows
        /\ buffered' => raised' = "OSError"
    BY <1>12 DEF Checkpoint, Raise, RunInv, RowsInv, ShapeInv
  <2> QED BY <1>1, <1>2, <2>1 DEF HeldInv
<1>13. CASE CloseAgain
  <2>1. /\ UNCHANGED <<runs, args, rows, buffered, raised, signals, report, manifest>>
        /\ gens'.run = gens.run /\ step' # "generate"
    BY <1>13 DEF CloseAgain, Leave, RunInv, ShapeInv
  <2> QED BY <1>2, <2>1 DEF HeldInv
<1>14. CASE Finalize
  <2>1. /\ UNCHANGED <<runs, args, rows, buffered, raised, signals, gens, report>>
        /\ step' # "generate" /\ manifest'.status \in {manifest.status, status}
    BY <1>14 DEF Finalize, Leave
  <2>2. status \in {"incomplete", "complete"}
    BY DEF RunInv, RunTypeInv
  <2> QED BY <1>2, <2>1, <2>2 DEF HeldInv
<1>15. CASE Terminate
  <2>1. /\ UNCHANGED <<runs, args, rows, files>> /\ step' # "generate"
        /\ signals' = signals + 1
    BY <1>15 DEF Terminate, Raise, Leave
  <2>2. signals' \in Nat /\ signals' > 0
    BY <2>1 DEF HeldInv
  <2> QED BY <1>4, <2>1, <2>2
<1>16. CASE Space \/ UNCHANGED BfclVars
  BY <1>2, <1>16 DEF Space, BfclVars, HeldInv, files
<1> QED BY <1>5, <1>6, <1>7, <1>8, <1>9, <1>10, <1>11, <1>12, <1>13, <1>14, <1>15, <1>16 DEF BfclNext

\* Of any number of runs in one directory: no more rows in memory than prompts under
\* candidates, files of runs that were started, and bytes that linger in a buffer only
\* after a full disk or a signal.
THEOREM RunsWellTyped == ASSUME BfclAssumption PROVE BfclSpec => []BfclTypeOK
<1>1. RunInv /\ HeldInv => BfclTypeOK
  BY DEF RunInv, RunTypeInv, HeldInv, BfclTypeOK
<1>2. BfclInit => HeldInv
  BY HeldInitInv
<1>3. RunInv /\ HeldInv /\ [BfclNext]_BfclVars => HeldInv'
  BY HeldNextInv
<1> QED BY <1>1, <1>2, <1>3, InvHolds, PTL DEF BfclSpec
=============================================================================
