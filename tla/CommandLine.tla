------------------------------ MODULE CommandLine ------------------------------
(***************************************************************************)
(* crctl (cmd/crctl.js, batch.js, review.js): each process runs one        *)
(* command - load the trusted keys, read and pin the artifacts, verify,    *)
(* publish the output, print, exit - while others run in the same          *)
(* directory and any of them may be killed.                                *)
(*                                                                         *)
(* Argument parsing and the wording of reports are left out.  What a       *)
(* verification finds is what module Verify and RecoveryPreflight model;   *)
(* here a document says whether it passes.                                 *)
(***************************************************************************)
EXTENDS ArtifactFiles, FiniteSets

CONSTANTS
    Commands,      \* per process: the commands it may be started with
    Placeable,     \* the documents others may put into the directory
    MaxPlacements  \* bound on how often they do so after the start

VARIABLES
    crctl,         \* per process: command, step, what it read, its exit status
    placements     \* how often a document was placed

cvars == <<crctl, placements, fvars>>

(* A command line: its name, the paths it reads, the documents whose       *)
(* digests it pins (NoFile: no pin for this input), its --out file, its    *)
(* trusted-keys file, whether receipts are allowed, the outcome or         *)
(* qualification it requires and the history its checkpoint names ("none": *)
(* the flag is absent).                                                    *)
Command(name, inputs, out) ==
    [name |-> name, inputs |-> inputs, pins |-> [i \in DOMAIN inputs |-> NoFile],
     out |-> out, trustedKeys |-> "none", allowReceipt |-> FALSE,
     required |-> "none", checkpoint |-> "none"]

Names ==
    {"demo", "trust-demo", "receipt", "verify-many", "compare", "review",
     "evidence", "timing", "verify", "timeline", "recovery-verify",
     "recovery-review", "recovery-verify-many", "recovery-compare", "link"}

CommandLines ==
    [name : Names \cup {"none"}, inputs : Seq(Path), pins : Seq(Documents \cup {NoFile}),
     out : Path \cup {"none"}, trustedKeys : Path \cup {"none"},
     allowReceipt : BOOLEAN,
     required : {"none", "first", "second"},
     checkpoint : {"none", "first", "second"}]

Batch(command) == command.name \in {"verify-many", "recovery-verify-many"}

(* What main and validatePaths refuse before anything is read: a receipt   *)
(* export without its input or --out, a flag its command does not know     *)
(* (assertFlags), a batch without files.                                   *)
Accepted(command) ==
    /\ command.name = "receipt" => Len(command.inputs) = 1 /\ command.out # "none"
    /\ command.out # "none" =>
          command.name \in {"demo", "trust-demo", "receipt", "review", "recovery-review"}
    /\ command.required # "none" =>
          command.name = "verify" \/ command.name = "recovery-verify" \/ Batch(command)
    /\ command.checkpoint # "none" =>
          command.name \in {"receipt", "review", "evidence", "timing", "verify", "timeline"}
    /\ command.allowReceipt => command.name \in {"verify", "verify-many"}
    /\ Batch(command) =>
          /\ command.inputs # <<>>
          /\ \A i \in DOMAIN command.inputs : command.pins[i] = NoFile

ASSUME CommandAssumption ==
    /\ "none" \notin Path /\ Placeable \subseteq Documents /\ MaxPlacements \in Nat
    /\ \A p \in Process : \A command \in Commands[p] :
          command \in CommandLines /\ Accepted(command)

NotStarted ==
    [step |-> "idle", command |-> Command("none", <<>>, "none"), trust |-> "demo",
     read |-> <<>>, text |-> NoFile, failed |-> FALSE, exit |-> "none"]

CommandInit ==
    /\ files \in [Path -> Placeable \cup {NoFile}]
    /\ staging = [p \in Process |-> "none"]
    /\ publisher = [path \in Path |-> Nobody]
    /\ crctl = [p \in Process |-> NotStarted]
    /\ placements = 0

-------------------------------------------------------------------------------
(* What a command makes of the documents it read.  Mutants are what a slip *)
(* in the code would make of the definition below them.                    *)

\* verifyBundle: integrity under the trusted keys, semantics when required.
verifyBundle(d, trust, requireSemantics) ==
    /\ d.profile \in {"audit", "receipt"} /\ d.signer = trust
    /\ requireSemantics => d.profile = "audit" /\ d.sound

MutantReviewBundle(d, trust, requireSemantics) == verifyBundle(d, trust, requireSemantics)
\* reviewBundle requires semantics of every audit bundle.
reviewBundle(d, trust, requireSemantics) ==
    verifyBundle(d, trust, requireSemantics \/ d.profile = "audit")

\* verifySettlementArtifact, and verifyRecoveryPreflight for drills.
verifySettlementArtifact(d, trust, allowReceipt) ==
    verifyBundle(d, trust, ~(allowReceipt /\ d.profile = "receipt"))

verifyRecoveryPreflight(d, trust) == d.profile = "drill" /\ d.signer = trust

\* lifecycleTiming needs the whole history, so it refuses a receipt.
lifecycleTiming(d, trust) == verifyBundle(d, trust, TRUE)

\* receiptBundle: the receipt profile of a reviewed bundle.
receiptBundle(d) == [d EXCEPT !.profile = "receipt"]

\* One input of a command passes the command's own verification.
Verified(c, trust, i) ==
    LET d == c.read[i] IN
    CASE c.command.name = "verify" ->
            verifySettlementArtifact(d, trust, c.command.allowReceipt)
      [] c.command.name = "verify-many" ->
            reviewBundle(d, trust, ~c.command.allowReceipt)
      [] c.command.name = "timing" -> lifecycleTiming(d, trust)
      [] c.command.name \in {"recovery-verify", "recovery-verify-many",
                             "recovery-review", "recovery-compare"} ->
            verifyRecoveryPreflight(d, trust)
      [] c.command.name = "link" ->
            IF i = 1 THEN reviewBundle(d, trust, FALSE) ELSE verifyRecoveryPreflight(d, trust)
      [] OTHER -> reviewBundle(d, trust, FALSE)

(* verifyArtifactFiles and verifyRecoveryFiles: a file that cannot be read *)
(* or verified is a row of its own; valid rows of one action that differ   *)
(* in their receipt or attestation require review.                         *)
ValidRows(c) == {i \in DOMAIN c.read : Verified(c, c.trust, i)}

review_required(c) ==
    \E action \in {c.read[i].action : i \in ValidRows(c)} :
        Cardinality({c.read[i].proof :
                        i \in {j \in ValidRows(c) : c.read[j].action = action}}) > 1

\* applyOutcomeExpectation, applyQualificationExpectation
ExpectationMet(c) ==
    c.command.required # "none" =>
        \A i \in DOMAIN c.read : i \in ValidRows(c) /\ c.read[i].proof = c.command.required

\* linkRecovery: the drill is about the settled action.
bindings_match(c) == c.read[1].action = c.read[2].action

\* process.exitCode as the command sets it when it runs to its end.
ExitCode(c) ==
    LET success == /\ ExpectationMet(c)
                   /\ Batch(c.command) => ValidRows(c) = DOMAIN c.read /\ ~review_required(c)
                   /\ c.command.name = "link" => bindings_match(c)
    IN IF success THEN "0" ELSE "1"

\* checkCheckpoint: the chain of events extends the recorded history.
ExtendsCheckpoint(c) ==
    c.command.checkpoint # "none" => c.read[1].proof = c.command.checkpoint

MutantOutput(c) ==
    IF c.command.name = "receipt" THEN receiptBundle(files[c.command.inputs[1]])
    ELSE Plain("report")
\* What a command with --out publishes.
Output(c) ==
    CASE c.command.name = "receipt" -> receiptBundle(c.read[1])
      [] c.command.name = "trust-demo" -> Plain("trust")
      [] c.command.name = "demo" -> Plain("audit")
      [] OTHER -> Plain("report")

-------------------------------------------------------------------------------
(* The steps of a process.                                                 *)

Goes(p, c) == crctl' = [crctl EXCEPT ![p] = c]
Exits(p, c, status) == Goes(p, [c EXCEPT !.step = "ended", !.exit = status])

\* After its trusted keys, a command reads; without inputs it has its output.
AfterTrust(c) == [c EXCEPT !.step = IF c.command.inputs = <<>> THEN "verify" ELSE "read"]

Start(p, command) ==
    /\ crctl[p].step = "idle"
    /\ LET c == [NotStarted EXCEPT !.command = command] IN
       Goes(p, IF command.trustedKeys = "none" THEN AfterTrust(c)
               ELSE [c EXCEPT !.step = "trust"])
    /\ UNCHANGED <<placements, fvars>>

\* loadTrustedKeysFile
parseTrustedKeys(d) == d.profile = "trust"

\* loadTrust: only the keys of the file are trusted; a bad one ends the command.
LoadTrust(p) ==
    LET c == crctl[p]
        d == files[c.command.trustedKeys]
    IN /\ c.step = "trust"
       /\ IF parseTrustedKeys(d) THEN Goes(p, AfterTrust([c EXCEPT !.trust = d.signer]))
          ELSE Exits(p, c, "1")
       /\ UNCHANGED <<placements, fvars>>

(* readPinnedArtifact for the next input.  In a batch a file that cannot   *)
(* be read becomes a row; elsewhere it ends the command.                   *)
ReadInput(p) ==
    LET c == crctl[p]
        path == c.command.inputs[Len(c.read) + 1]
        d == files[path]
        next == [c EXCEPT !.read = Append(@, d),
                          !.step = IF Len(c.read) + 1 = Len(c.command.inputs)
                                   THEN "verify" ELSE "read"]
    IN /\ c.step = "read"
       /\ IF Batch(c.command) \/ (Loads(path) /\ MatchesPin(d, c.command.pins[Len(c.read) + 1]))
          THEN Goes(p, next)
          ELSE Exits(p, c, "1")
       /\ UNCHANGED <<placements, fvars>>

\* The command's verification, and its output; then it publishes or prints.
Conclude(p) ==
    LET c == crctl[p] IN
    /\ c.step = "verify"
    /\ IF Batch(c.command) \/ (ValidRows(c) = DOMAIN c.read /\ ExtendsCheckpoint(c))
       THEN Goes(p, IF c.command.out = "none" THEN [c EXCEPT !.step = "print"]
                    ELSE [c EXCEPT !.step = "stage", !.text = Output(c)])
       ELSE Exits(p, c, "1")
    /\ UNCHANGED <<placements, fvars>>

\* mkdtempSync throws (no such directory, no permission): nothing to remove.
Stage(p) ==
    LET c == crctl[p] IN
    /\ c.step = "stage"
    /\ UNCHANGED placements
    /\ \/ MakeStaging(p) /\ Goes(p, [c EXCEPT !.step = "write"])
       \/ UNCHANGED fvars /\ Exits(p, c, "1")

MutantWrite(p) ==
    LET c == crctl[p] IN
    /\ c.step = "write"
    /\ UNCHANGED placements
    /\ \E written \in {"whole", "partial"} : WriteStaged(p, written)
    /\ Goes(p, [c EXCEPT !.step = "link"])
Write(p) ==
    LET c == crctl[p] IN
    /\ c.step = "write"
    /\ UNCHANGED placements
    /\ \/ WriteStaged(p, "whole") /\ Goes(p, [c EXCEPT !.step = "link"])
       \/ WriteStaged(p, "partial") /\ Goes(p, [c EXCEPT !.step = "clean", !.failed = TRUE])

MutantLink(p) ==
    LET c == crctl[p] IN
    /\ c.step = "link"
    /\ UNCHANGED placements
    /\ Goes(p, [c EXCEPT !.step = "clean"])
    /\ IF Vacant(c.command.out) THEN LinkStaged(p, c.command.out, c.text)
       ELSE UNCHANGED fvars
\* linkSync fails where an entry is, and may fail anywhere (no permission, no links).
Link(p) ==
    LET c == crctl[p] IN
    /\ c.step = "link"
    /\ UNCHANGED placements
    /\ \/ /\ LinkStaged(p, c.command.out, c.text)
          /\ Goes(p, [c EXCEPT !.step = "clean"])
       \/ /\ Goes(p, [c EXCEPT !.step = "clean", !.failed = TRUE])
          /\ UNCHANGED fvars

MutantClean(p) ==
    LET c == crctl[p] IN
    /\ c.step = "clean"
    /\ UNCHANGED placements
    /\ RemoveStaging(p)
    /\ Goes(p, [c EXCEPT !.step = "print", !.exit = IF c.failed THEN "1" ELSE "none"])
(* The finally: rmSync may itself throw, and then the command fails even   *)
(* though its output is published.                                         *)
Clean(p) ==
    LET c == crctl[p] IN
    /\ c.step = "clean"
    /\ UNCHANGED placements
    /\ \/ /\ RemoveStaging(p)
          /\ IF c.failed THEN Exits(p, c, "1") ELSE Goes(p, [c EXCEPT !.step = "print"])
       \/ UNCHANGED fvars /\ Exits(p, c, "1")

\* Whoever reads standard output may be gone, after the output is published.
PrintResult(p) ==
    LET c == crctl[p] IN
    /\ c.step = "print"
    /\ \/ Exits(p, c, ExitCode(c))
       \/ Exits(p, [c EXCEPT !.failed = TRUE], "1")
    /\ UNCHANGED <<placements, fvars>>

\* The process is killed between two calls; what it staged stays.
Crash(p) ==
    /\ crctl[p].step \notin {"idle", "ended"}
    /\ Exits(p, crctl[p], "killed")
    /\ UNCHANGED <<placements, fvars>>

Runs(p) ==
    \/ \E command \in Commands[p] : Start(p, command)
    \/ LoadTrust(p)
    \/ ReadInput(p)
    \/ Conclude(p)
    \/ Stage(p)
    \/ Write(p)
    \/ Link(p)
    \/ Clean(p)
    \/ PrintResult(p)
    \/ Crash(p)

OthersPlace ==
    /\ placements < MaxPlacements
    /\ placements' = placements + 1
    /\ \E path \in Path, d \in Placeable : Place(path, d)
    /\ UNCHANGED crctl

CommandNext == (\E p \in Process : Runs(p)) \/ OthersPlace

CommandSpec == CommandInit /\ [][CommandNext]_cvars
===============================================================================
