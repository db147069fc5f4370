------------------------------ MODULE Fixtures ------------------------------
(***************************************************************************)
(* eval/fetch_pinned_bfcl.py: the frozen benchmark files are downloaded or *)
(* re-read, verified, replaced and backed up one after the other, and then *)
(* every answer key among them is held against the tools its items offer.  *)
(* A fetch can be killed at any step, and is run again over what it left.  *)
(*                                                                         *)
(* A file's content is one value; NamesIn says which function names it     *)
(* offers (a questions file) or expects (a key), RowsIn its number of rows.*)
(***************************************************************************)
EXTENDS Naturals, Sequences, FiniteSets

CONSTANTS Contents,          \* the contents a fixture can have
          NamesIn,           \* [Contents -> SUBSET names]
          RowsIn,            \* [Contents -> rows]
          FixtureManifests,  \* the manifests a fetch can be given
          Paths,             \* the local paths they name
          MaxFetches         \* bound on fetches over one volume

\* A manifest is [version, files, declared]; declared maps some categories to their
\* answer_key_policy.
FileSpecs == [path : Paths, inside : BOOLEAN, cat : STRING, role : STRING, pin : Contents,
              rows : Nat, expect : STRING]
FixturesAssumption ==
    /\ NamesIn \in [Contents -> SUBSET STRING] /\ RowsIn \in [Contents -> Nat]
    /\ MaxFetches \in Nat /\ "missing" \notin Contents
    /\ \A m \in FixtureManifests : m.files \in Seq(FileSpecs)

VARIABLES fetches,   \* fetches started so far
          plan,      \* this fetch's manifest, --verify-only and --backup-dir
          phase,
          at,        \* the file being processed
          payload,   \* its bytes, in memory
          payloads,  \* the verified bytes of the files before it
          fixtures,  \* what is at each path
          backups,   \* the content-addressed copies
          verdict

FixturesVars == <<fetches, plan, phase, at, payload, payloads, fixtures, backups, verdict>>

Spec_(i) == plan.manifest.files[i]
Here == Spec_(at)

Missing == "missing"
Partial == "partial"

FixturesInit ==
    /\ fetches = 0 /\ phase = "done" /\ at = 1
    /\ plan = [manifest |-> [version |-> 2, files |-> <<>>, declared |-> <<>>],
               verifyOnly |-> TRUE, backup |-> FALSE]
    /\ payload = Missing /\ payloads = <<>>
    /\ fixtures \in [Paths -> {Missing}]
    /\ backups = [c \in Contents |-> Missing]
    /\ verdict = "none"

-----------------------------------------------------------------------------
(* What is checked. *)

\* Mutant: the last file of a role is the one that counts.
NothingAmbiguous(m) == TRUE

\* _reject_duplicate_roles.
Unambiguous(m) ==
    \A i, j \in DOMAIN m.files :
        m.files[i].cat = m.files[j].cat /\ m.files[i].role = m.files[j].role => i = j

\* load_manifest.
Loads(m) == m.version = 2 /\ m.files # <<>> /\ Unambiguous(m)

\* verify_payload: the digests first, then the counts the manifest records.
VerifyPayload(bytes, file) == bytes = file.pin /\ RowsIn[bytes] = file.rows

\* preflight_key_names, for a key with the category's questions.
Offered(key, questions) == NamesIn[key] \subseteq NamesIn[questions]

\* The bytes keyed by category and role: the last file of a role wins.
PayloadOf(m, bytes, cat, role) ==
    LET mine == {i \in DOMAIN bytes : m.files[i].cat = cat /\ m.files[i].role = role}
    IN IF mine = {} THEN Missing
       ELSE bytes[CHOOSE i \in mine : \A j \in mine : j <= i]

\* _preflight_one.
PreflightOne(m, bytes, cat, role, expect) ==
    LET questions == PayloadOf(m, bytes, cat, "questions")
        key == PayloadOf(m, bytes, cat, role)
    IN questions # Missing /\ (expect = "clean" <=> Offered(key, questions))

\* Mutant: a category without a key is passed over.
PolicyOfTheFiles(m, bytes, cat) ==
    LET key == PayloadOf(m, bytes, cat, "answer_key")
    IN key # Missing => PreflightOne(m, bytes, cat, "answer_key", "clean")

\* One category against the policy that is declared for it.
PolicyHolds(m, bytes, cat) ==
    LET key == PayloadOf(m, bytes, cat, "answer_key")
    IN \/ /\ m.declared[cat] = "required" /\ key # Missing
          /\ PreflightOne(m, bytes, cat, "answer_key", "clean")
       \/ m.declared[cat] = "none_by_schema" /\ key = Missing

Categories(m) == {m.files[i].cat : i \in DOMAIN m.files}

\* preflight_manifest_keys: no error is raised.
PreflightManifestKeys(m, bytes) ==
    /\ DOMAIN m.declared # {} /\ Unambiguous(m)
    /\ DOMAIN m.declared = Categories(m)
    /\ \A cat \in DOMAIN m.declared : PolicyHolds(m, bytes, cat)
    /\ \A i \in DOMAIN m.files :
           m.files[i].role \notin {"questions", "answer_key"} =>
               /\ m.files[i].expect \in {"clean", "defective"}
               /\ PreflightOne(m, bytes, m.files[i].cat, m.files[i].role, m.files[i].expect)

-----------------------------------------------------------------------------
(* process_manifest. *)

Done(how) == phase' = "done" /\ verdict' = how

\* A new fetch, over what the ones before it left.
StartFetch ==
    /\ phase = "done" /\ fetches < MaxFetches
    /\ fetches' = fetches + 1
    /\ \E m \in FixtureManifests, v, b \in BOOLEAN :
           /\ plan' = [manifest |-> m, verifyOnly |-> v, backup |-> b]
           /\ IF Loads(m) THEN phase' = "file" /\ verdict' = "none" ELSE Done("error")
    /\ at' = 1 /\ payload' = Missing /\ payloads' = <<>>
    /\ UNCHANGED <<fixtures, backups>>

\* The file on disk, or what the network gives for it.
ReadFile ==
    /\ phase = "file" /\ at <= Len(plan.manifest.files)
    /\ \/ /\ Here.inside /\ plan.verifyOnly /\ fixtures[Here.path] # Missing
          /\ payload' = fixtures[Here.path] /\ phase' = "verify" /\ UNCHANGED verdict
       \/ /\ Here.inside /\ ~ plan.verifyOnly
          /\ payload' \in Contents /\ phase' = "verify" /\ UNCHANGED verdict
       \/ /\ ~ plan.verifyOnly \/ ~ Here.inside \/ fixtures[Here.path] = Missing
          /\ Done("error") /\ UNCHANGED payload
    /\ UNCHANGED <<fetches, plan, at, payloads, fixtures, backups>>

\* Mutant: the download is checked only after it is in place.
ReplaceFirst ==
    /\ phase = "verify"
    /\ IF plan.verifyOnly THEN UNCHANGED fixtures
                          ELSE fixtures' = [fixtures EXCEPT ![Here.path] = payload]
    /\ phase' = "replace" /\ UNCHANGED verdict
    /\ UNCHANGED <<fetches, plan, at, payload, payloads, backups>>

\* A download is verified before it is written.
VerifyHere ==
    /\ phase = "verify"
    /\ IF VerifyPayload(payload, Here) THEN phase' = "replace" /\ UNCHANGED verdict
                                       ELSE Done("error")
    /\ UNCHANGED <<fetches, plan, at, payload, payloads, fixtures, backups>>

\* _atomic_write, when the file is not there yet or differs; then the payload is
\* verified again and kept.
Replace ==
    /\ phase = "replace"
    /\ fixtures' = IF plan.verifyOnly THEN fixtures
                   ELSE [fixtures EXCEPT ![Here.path] = payload]
    /\ IF VerifyPayload(payload, Here)
       THEN /\ payloads' = Append(payloads, payload)
            /\ phase' = IF plan.backup THEN "backup" ELSE "next"
            /\ UNCHANGED verdict
       ELSE Done("error") /\ UNCHANGED payloads
    /\ UNCHANGED <<fetches, plan, at, payload, backups>>

\* Mutant: a copy that exists is taken for good.
TrustBackup ==
    /\ phase = "backup"
    /\ backups' = IF backups[Here.pin] = Missing THEN [backups EXCEPT ![Here.pin] = Partial]
                                                 ELSE backups
    /\ phase' = IF backups[Here.pin] = Missing THEN "copied" ELSE "next"
    /\ UNCHANGED <<fetches, plan, at, payload, payloads, fixtures, verdict>>

\* _content_addressed_backup: a copy that exists must be whole; a new one is
\* copied into place, where a kill can leave part of it.
Backup ==
    /\ phase = "backup"
    /\ \/ /\ backups[Here.pin] = Missing
          /\ backups' = [backups EXCEPT ![Here.pin] = Partial]
          /\ phase' = "copied" /\ UNCHANGED verdict
       \/ /\ backups[Here.pin] = Here.pin
          /\ phase' = "next" /\ UNCHANGED <<backups, verdict>>
       \/ /\ backups[Here.pin] = Partial
          /\ Done("error") /\ UNCHANGED backups
    /\ UNCHANGED <<fetches, plan, at, payload, payloads, fixtures>>

\* The copy is complete and read back; it was made from the path, not from the
\* payload, and a copy that differs is removed.
Copied ==
    /\ phase = "copied"
    /\ IF fixtures[Here.path] = Here.pin
       THEN /\ backups' = [backups EXCEPT ![Here.pin] = Here.pin] /\ phase' = "next"
            /\ UNCHANGED verdict
       ELSE backups' = [backups EXCEPT ![Here.pin] = Missing] /\ Done("error")
    /\ UNCHANGED <<fetches, plan, at, payload, payloads, fixtures>>

NextFile ==
    /\ phase = "next"
    /\ at' = at + 1 /\ phase' = "file"
    /\ UNCHANGED <<fetches, plan, payload, payloads, fixtures, backups, verdict>>

\* After the last file, on the bytes that were verified.
Preflight ==
    /\ phase = "file" /\ at > Len(plan.manifest.files)
    /\ Done(IF PreflightManifestKeys(plan.manifest, payloads) THEN "ok" ELSE "error")
    /\ UNCHANGED <<fetches, plan, at, payload, payloads, fixtures, backups>>

KillFetch ==
    /\ phase # "done"
    /\ Done("killed")
    /\ UNCHANGED <<fetches, plan, at, payload, payloads, fixtures, backups>>

\* Another hand edits a file while a fetch runs.
Meddle ==
    /\ phase \in {"replace", "backup", "copied"}
    /\ \E c \in Contents : fixtures' = [fixtures EXCEPT ![Here.path] = c]
    /\ UNCHANGED <<fetches, plan, phase, at, payload, payloads, backups, verdict>>

FixturesNext ==
    \/ StartFetch \/ ReadFile \/ VerifyHere \/ Replace \/ Backup \/ Copied \/ NextFile
    \/ Preflight \/ KillFetch \/ Meddle

FixturesSpec == FixturesInit /\ [][FixturesNext]_FixturesVars

-----------------------------------------------------------------------------
(* Properties. *)

\* A fetch that ends well has verified every pinned file, left a whole copy of
\* each where one was asked for, and held every key it pins against the
\* questions of its category: none is pinned but never checked.
FetchVouches ==
    verdict = "ok" =>
        /\ \A i \in DOMAIN plan.manifest.files :
               /\ payloads[i] = Spec_(i).pin
               /\ plan.backup => backups[Spec_(i).pin] = Spec_(i).pin
               /\ Spec_(i).role # "questions" =>
                      \E j \in DOMAIN plan.manifest.files :
                          /\ Spec_(j).cat = Spec_(i).cat /\ Spec_(j).role = "questions"
                          /\ Offered(Spec_(i).pin, Spec_(j).pin)
                             <=> (Spec_(i).role = "answer_key" \/ Spec_(i).expect = "clean")
        /\ \A cat \in Categories(plan.manifest) :
               \/ plan.manifest.declared[cat] = "none_by_schema"
               \/ \E i \in DOMAIN plan.manifest.files :
                      Spec_(i).cat = cat /\ Spec_(i).role = "answer_key"

\* Whatever fails, a fetch puts nothing at a path but what its manifest pins
\* there: a bad download leaves the old file.
ReplacesByPin ==
    \A p \in Paths : fixtures'[p] # fixtures[p] =>
        \/ phase = "done" \/ Meddle
        \/ ~ plan.verifyOnly /\ p = Here.path /\ fixtures'[p] = Here.pin
OnlyPinnedReplaces == [][ReplacesByPin]_FixturesVars
=============================================================================
