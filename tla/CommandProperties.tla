--------------------------- MODULE CommandProperties ---------------------------
(***************************************************************************)
(* What crctl must guarantee while other processes work in the same        *)
(* directory, files change under it, disks fill and processes are killed.  *)
(***************************************************************************)
EXTENDS CommandLine

Steps == {"idle", "trust", "read", "verify", "stage", "write", "link", "clean",
          "print", "ended"}

Run ==
    [step : Steps, command : CommandLines, trust : {"demo", "caller"},
     read : Seq(Documents \cup {NoFile}), text : Documents \cup {NoFile},
     failed : BOOLEAN, exit : {"none", "0", "1", "killed"}]

CommandTypeOK ==
    /\ FilesTypeOK
    /\ placements \in 0 .. MaxPlacements
    /\ crctl \in [Process -> Run]
    /\ \A p \in Process :
          /\ (crctl[p].step = "ended") = (crctl[p].exit # "none")
          /\ Len(crctl[p].read) <= Len(crctl[p].command.inputs)

(* An output never replaces what a path holds, not even when it appeared   *)
(* after the command had looked at its inputs, and no command removes or   *)
(* alters a published file (writeExclusiveArtifactText).                   *)
NothingReplaced ==
    [][\A path \in Path :
          files'[path] # files[path] =>
             publisher[path] = Nobody /\ (publisher'[path] # Nobody => files[path] = NoFile)]_cvars

(* A destination holds the whole output of one process or nothing of it: a *)
(* full disk, a lost race or a kill at any step never leaves a part there. *)
PublishedWhole ==
    \A path \in Path :
        LET p == publisher[path] IN
        p # Nobody =>
            /\ crctl[p].command.out = path
            /\ files[path] = crctl[p].text
            /\ files[path] \notin {NoFile, Unreadable}

(* The exit status tells whether the output is there: 0 means that this    *)
(* process published it and left no staging directory; 1 means it did not, *)
(* unless what failed came later: removing the staging directory, or       *)
(* writing the result to standard output.                                  *)
ExitTellsPublication ==
    \A p \in Process :
        LET out == crctl[p].command.out IN
        out # "none" =>
            /\ crctl[p].exit = "0" => publisher[out] = p /\ staging[p] = "none"
            /\ crctl[p].exit = "1" /\ publisher[out] = p =>
                  staging[p] = "whole" \/ (crctl[p].failed /\ staging[p] = "none")

(* A receipt carries no lifecycle that could be replayed, so exporting one *)
(* must not launder a bundle: what is published is the pinned document as  *)
(* it was verified, trusted, on the checkpointed history and, if it was an *)
(* audit bundle, sound - whatever its path holds by now (receiptBundle).   *)
ExportsAreVerified ==
    \A path \in Path :
        LET p == publisher[path]
            c == crctl[p]
            d == c.read[1]
        IN p # Nobody /\ c.command.name = "receipt" =>
            /\ files[path] = [d EXCEPT !.profile = "receipt"]
            /\ ~files[path].sound => d.profile = "receipt"
            /\ files[path].signer = c.trust
            /\ c.command.pins[1] \in {NoFile, d}
            /\ c.command.checkpoint \in {"none", files[path].proof}

(* "A bad file cannot hide other results" (batch.js): every file given is  *)
(* judged, as bundle verify or recovery-preflight verify would judge it    *)
(* alone under the same flags, and success means that all pass and no two  *)
(* contradict each other about an action, if the verdict could be written. *)
BatchVerdict ==
    \A p \in Process :
        LET c == crctl[p]
            Alone(d) == IF c.command.name = "verify-many"
                        THEN verifySettlementArtifact(d, c.trust, c.command.allowReceipt)
                        ELSE verifyRecoveryPreflight(d, c.trust)
            rows == DOMAIN c.command.inputs
        IN Batch(c.command) /\ c.read # <<>> /\ c.exit \in {"0", "1"} /\ ~c.failed =>
            /\ DOMAIN c.read = rows
            /\ c.exit = "0" <=>
                  /\ \A i \in rows : Alone(c.read[i])
                  /\ \A i, j \in rows :
                        c.read[i].action = c.read[j].action => c.read[i].proof = c.read[j].proof
                  /\ c.command.required # "none" =>
                        \A i \in rows : c.read[i].proof = c.command.required
            /\ ValidRows(c) = {i \in rows : Alone(c.read[i])}
===============================================================================
