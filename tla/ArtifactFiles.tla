----------------------------- MODULE ArtifactFiles -----------------------------
(***************************************************************************)
(* Files shared by crctl processes (artifact-files.js): the bounded read   *)
(* of an artifact, and exclusive publication - stage in a directory of     *)
(* one's own, hard-link to the destination, remove the staging directory.  *)
(*                                                                         *)
(* An artifact stands for its canonical digest; what a verifier finds out  *)
(* about it is part of the record.  A process works synchronously, but     *)
(* each call of the file system is a step of its own, so processes         *)
(* interleave there and may be killed in between.                          *)
(***************************************************************************)
EXTENDS Naturals, Sequences

CONSTANTS
    Process,       \* runs of crctl
    Path           \* directory entries they read and write

(* A document is a settlement bundle (profile audit or receipt), a drill,  *)
(* a trusted-keys file, a report, or something the loader refuses: not     *)
(* JSON, empty, too large, no regular file.  proof stands for the receipt  *)
(* or attestation that bundles of one action must agree on, and with it    *)
(* for the outcome or qualification; sound says that the log replays.      *)
Documents ==
    [profile : {"audit", "receipt", "drill", "trust", "report", "unreadable"},
     action : {"a", "b"}, proof : {"first", "second"},
     signer : {"demo", "caller"}, sound : BOOLEAN]

Document(profile, action, proof, signer, sound) ==
    [profile |-> profile, action |-> action, proof |-> proof, signer |-> signer,
     sound |-> sound]

\* A document of which only the profile matters.
Plain(profile) == Document(profile, "a", "first", "demo", TRUE)

Unreadable == Plain("unreadable")
NoFile == Plain("none")
Nobody == "nobody"
ASSUME ProcessAssumption == Nobody \notin Process

VARIABLES
    files,         \* what each path holds
    staging,       \* per process: its staging directory and the output in it
    publisher      \* history: the process that linked what a path holds

fvars == <<files, staging, publisher>>

FilesTypeOK ==
    /\ files \in [Path -> Documents \cup {NoFile}]
    /\ staging \in [Process -> {"none", "empty", "partial", "whole"}]
    /\ publisher \in [Path -> Process \cup {Nobody}]

-------------------------------------------------------------------------------
(* readArtifactFile either returns the document or throws.                 *)
Loads(path) == files[path] \notin {NoFile, Unreadable}

(* assertArtifactDigest, when a digest is pinned: the value that was read  *)
(* is the recorded one.                                                    *)
MatchesPin(document, pin) == pin # NoFile => document = pin

(* The steps of writeExclusiveArtifactText.  A mutant is what a slip in    *)
(* the code would make of the definition below it.                         *)

\* mkdtempSync: a fresh directory beside the destination.
MakeStaging(p) ==
    /\ staging' = [staging EXCEPT ![p] = "empty"]
    /\ UNCHANGED <<files, publisher>>

\* writeFileSync into the staging directory; a full disk leaves a part.
WriteStaged(p, written) ==
    /\ staging' = [staging EXCEPT ![p] = written]
    /\ UNCHANGED <<files, publisher>>

\* What the staged file holds of the text that was to be written.
Staged(p, text) == IF staging[p] = "whole" THEN text ELSE Unreadable

MutantVacant(path) == TRUE
\* linkSync fails with EEXIST if any entry occupies the destination.
Vacant(path) == files[path] = NoFile

\* linkSync
LinkStaged(p, path, text) ==
    /\ Vacant(path)
    /\ files' = [files EXCEPT ![path] = Staged(p, text)]
    /\ publisher' = [publisher EXCEPT ![path] = p]
    /\ UNCHANGED staging

\* rmSync in the finally
RemoveStaging(p) ==
    /\ staging' = [staging EXCEPT ![p] = "none"]
    /\ UNCHANGED <<files, publisher>>

\* Someone else puts a document where no process has published.
Place(path, document) ==
    /\ publisher[path] = Nobody
    /\ files' = [files EXCEPT ![path] = document]
    /\ UNCHANGED <<staging, publisher>>
===============================================================================
