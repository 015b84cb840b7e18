------------------------------ MODULE CommandProofs ------------------------------
(***************************************************************************)
(* For any processes, paths, commands and files placed by others: what     *)
(* module CommandProperties says of publication and of exports.            *)
(*                                                                         *)
(* The properties are about published files; the invariant carries them    *)
(* through the steps before: a process that links has the whole text       *)
(* staged and has published nothing yet, and the text of an export is the  *)
(* receipt of the document it read, not of what the path holds.            *)
(***************************************************************************)
EXTENDS CommandProperties, FiniteSetTheorems, TLAPS

\* What an export stands for, once its text is made.
Exported(c) ==
    LET d == c.read[1] IN
    c.command.name = "receipt" =>
        /\ c.text = [d EXCEPT !.profile = "receipt"]
        /\ ~c.text.sound => d.profile = "receipt"
        /\ c.text.signer = c.trust
        /\ c.command.pins[1] \in {NoFile, d}
        /\ c.command.checkpoint \in {"none", c.text.proof}

Publishes(c) ==
    /\ c.command.out \in Path
    /\ c.text \notin {NoFile, Unreadable}
    /\ Exported(c)

Before == {"idle", "trust", "read", "verify", "stage", "write", "link"}

\* A run c with staging directory s; published says whether it linked its text.
GoodRun(c, s, published) ==
    /\ c.step # "idle" => Accepted(c.command)
    /\ c.step = "ended" <=> c.exit # "none"
    /\ Len(c.read) <= Len(c.command.inputs)
    /\ c.step \in {"idle", "trust"} => c.read = <<>>
    /\ c.step = "trust" => c.command.trustedKeys \in Path
    /\ c.step = "read" => Len(c.read) < Len(c.command.inputs)
    /\ c.step = "verify" => Len(c.read) = Len(c.command.inputs)
    /\ c.command.name = "receipt" /\ c.read # <<>> =>
          c.command.pins[1] \in {NoFile, c.read[1]}
    /\ c.step \in {"stage", "write", "link", "clean"} => Publishes(c)
    /\ c.step = "link" => s = "whole"
    /\ c.step \in Before => ~published /\ ~c.failed
    /\ c.step = "clean" => (published <=> ~c.failed) /\ (published => s = "whole")
    /\ c.step = "print" /\ c.command.out # "none" => published /\ s = "none"
    /\ c.exit = "0" /\ c.command.out # "none" => published /\ s = "none"
    /\ c.exit = "1" /\ published => s = "whole" \/ (c.failed /\ s = "none")

Published(p) == \E path \in Path : publisher[path] = p

\* What holds of a path and the process that published it.
GoodPath(path) ==
    LET p == publisher[path] IN
    p # Nobody =>
        /\ Publishes(crctl[p])
        /\ crctl[p].command.out = path
        /\ files[path] = crctl[p].text

Inv ==
    /\ FilesTypeOK
    /\ placements \in 0 .. MaxPlacements
    /\ crctl \in [Process -> Run]
    /\ \A p \in Process : GoodRun(crctl[p], staging[p], Published(p))
    /\ \A path \in Path : GoodPath(path)

StagingStates == {"none", "empty", "partial", "whole"}

-------------------------------------------------------------------------------
(* Documents. *)

(* The two readings that are no document are told from every document.     *)
LEMMA NoFileIsNone ==
    /\ NoFile.profile = "none" /\ Unreadable.profile = "unreadable"
    /\ Unreadable \in Documents /\ NoFile \notin Documents
    /\ NoFile.sound = TRUE
  BY DEF NoFile, Unreadable, Plain, Document, Documents

(* What a command publishes is a document of its own kind.                 *)
LEMMA OutputIsDocument ==
    ASSUME NEW c \in Run,
           c.command.name = "receipt" => c.read # <<>> /\ c.read[1] \in Documents
    PROVE  Output(c) \in Documents /\ Output(c) \notin {NoFile, Unreadable}
<1>1. Plain("trust") \in Documents /\ Plain("audit") \in Documents /\ Plain("report") \in Documents
  BY DEF Plain, Document, Documents
<1>2. /\ Plain("trust").profile = "trust" /\ Plain("audit").profile = "audit"
      /\ Plain("report").profile = "report"
  BY DEF Plain, Document
<1>3. CASE c.command.name = "receipt"
  <2>1. c.read[1] \in Documents
    BY <1>3
  <2>2. receiptBundle(c.read[1]) \in Documents /\ receiptBundle(c.read[1]).profile = "receipt"
    BY <2>1 DEF receiptBundle, Documents
  <2>3. Output(c) = receiptBundle(c.read[1])
    BY <1>3 DEF Output
  <2> QED
    BY <2>2, <2>3, NoFileIsNone
<1>4. CASE c.command.name # "receipt"
  <2>1. Output(c) \in {Plain("trust"), Plain("audit"), Plain("report")}
    BY <1>4 DEF Output
  <2> QED
    BY <1>1, <1>2, <2>1, NoFileIsNone
<1> QED
  BY <1>3, <1>4

-------------------------------------------------------------------------------
(* Steps that publish nothing. *)

(* A process that neither links nor has its run disturbed keeps all that   *)
(* holds of the others.                                                    *)
LEMMA OneRun ==
    ASSUME Inv, NEW p \in Process, NEW d \in Run, NEW s \in StagingStates,
           crctl' = [crctl EXCEPT ![p] = d], staging' = [staging EXCEPT ![p] = s],
           UNCHANGED <<files, publisher, placements>>,
           GoodRun(d, s, Published(p)),
           Published(p) => d.command = crctl[p].command /\ d.text = crctl[p].text
                           /\ Publishes(d)
    PROVE  Inv'
<1>1. FilesTypeOK' /\ placements' \in 0 .. MaxPlacements /\ crctl' \in [Process -> Run]
  BY DEF Inv, FilesTypeOK, StagingStates
<1>2. \A q \in Process : Published(q)' <=> Published(q)
  BY DEF Published
<1>3. ASSUME NEW q \in Process PROVE GoodRun(crctl[q], staging[q], Published(q))'
  <2>1. CASE q = p
    <3>1. crctl'[q] = d /\ staging'[q] = s
      BY <2>1 DEF Inv, FilesTypeOK
    <3> QED
      BY <1>2, <2>1, <3>1 DEF GoodRun
  <2>2. CASE q # p
    <3>1. crctl'[q] = crctl[q] /\ staging'[q] = staging[q]
      BY <2>2 DEF Inv, FilesTypeOK
    <3>2. GoodRun(crctl[q], staging[q], Published(q))
      BY DEF Inv
    <3> QED
      BY <1>2, <3>1, <3>2 DEF GoodRun
  <2> QED
    BY <2>1, <2>2
<1>4. ASSUME NEW path \in Path PROVE GoodPath(path)'
  <2>1. GoodPath(path) /\ publisher[path] \in Process \cup {Nobody}
    BY DEF Inv, FilesTypeOK
  <2>2. CASE publisher[path] = p
    <3>1. Published(p) /\ crctl'[p] = d
      BY <2>2 DEF Published, Inv
    <3> QED
      BY <2>1, <2>2, <3>1, ProcessAssumption DEF GoodPath
  <2>3. CASE publisher[path] # p
    <3>1. publisher[path] # Nobody => crctl'[publisher[path]] = crctl[publisher[path]]
      BY <2>1, <2>3 DEF Inv
    <3> QED
      BY <2>1, <2>3, <3>1 DEF GoodPath
  <2> QED
    BY <2>2, <2>3
<1> QED
  BY <1>1, <1>3, <1>4 DEF Inv

(* A process that has published, published what its run says.              *)
LEMMA PublishedRun ==
    ASSUME Inv, NEW p \in Process, Published(p) PROVE Publishes(crctl[p])
<1>1. PICK path \in Path : publisher[path] = p
  BY DEF Published
<1>2. p # Nobody
  BY ProcessAssumption
<1>3. GoodPath(path)
  BY DEF Inv
<1> QED
  BY <1>1, <1>2, <1>3 DEF GoodPath

(* A run ends without having published, or by a kill.                      *)
LEMMA RunEnds ==
    ASSUME Inv, NEW p \in Process, NEW status \in {"1", "killed"},
           UNCHANGED <<placements, fvars>>, Exits(p, crctl[p], status),
           status = "1" => crctl[p].step \in Before \/ crctl[p].step = "clean",
           crctl[p].step \notin {"idle", "ended"}
    PROVE  Inv'
<1> DEFINE c == crctl[p]
           d == [c EXCEPT !.step = "ended", !.exit = status]
<1>1. c \in Run /\ GoodRun(c, staging[p], Published(p)) /\ staging[p] \in StagingStates
  BY DEF Inv, FilesTypeOK, StagingStates
<1>2. d \in Run /\ d.command = c.command /\ d.read = c.read /\ d.text = c.text
      /\ d.trust = c.trust /\ d.step = "ended" /\ d.exit = status
  BY <1>1 DEF Run, Steps
<1>3. crctl' = [crctl EXCEPT ![p] = d] /\ staging' = [staging EXCEPT ![p] = staging[p]]
      /\ UNCHANGED <<files, publisher>>
  BY DEF Exits, Goes, fvars, Inv, FilesTypeOK
<1> HIDE DEF d
<1>4. GoodRun(d, staging[p], Published(p))
  <2>1. status = "1" /\ Published(p) => staging[p] = "whole"
    BY <1>1 DEF GoodRun
  <2>2. /\ Accepted(c.command)
        /\ c.command.name = "receipt" /\ c.read # <<>> =>
              c.command.pins[1] \in {NoFile, c.read[1]}
        /\ Len(c.read) <= Len(c.command.inputs)
    BY <1>1 DEF GoodRun
  <2> HIDE DEF c
  <2> QED
    BY <1>2, <2>1, <2>2 DEF GoodRun, Before
<1>5. Published(p) => Publishes(c)
  BY PublishedRun
<1>6. Published(p) => Publishes(d)
  BY <1>2, <1>5 DEF Publishes, Exported
<1> QED
  BY <1>1, <1>2, <1>3, <1>4, <1>6, OneRun

(* A run that has not published yet goes on to d.                          *)
LEMMA RunGoesOn ==
    ASSUME Inv, NEW p \in Process, NEW d \in Run, Goes(p, d),
           UNCHANGED <<placements, fvars>>,
           crctl[p].step \in Before, GoodRun(d, staging[p], FALSE)
    PROVE  Inv'
<1>1. ~Published(p) /\ staging[p] \in StagingStates
  BY DEF Inv, GoodRun, FilesTypeOK, StagingStates
<1>2. GoodRun(d, staging[p], Published(p))
  BY <1>1 DEF GoodRun
<1>3. crctl' = [crctl EXCEPT ![p] = d] /\ staging' = [staging EXCEPT ![p] = staging[p]]
      /\ UNCHANGED <<files, publisher>>
  BY DEF Goes, fvars, Inv, FilesTypeOK
<1> QED
  BY <1>1, <1>2, <1>3, OneRun

(* The steps of a process, up to its output.                               *)
LEMMA StartStep ==
    ASSUME Inv, NEW p \in Process, NEW command \in Commands[p], Start(p, command)
    PROVE  Inv'
<1> DEFINE c == [NotStarted EXCEPT !.command = command]
           d == IF command.trustedKeys = "none" THEN AfterTrust(c)
                ELSE [c EXCEPT !.step = "trust"]
<1>1. command \in CommandLines /\ Accepted(command)
  BY CommandAssumption
<1>2. d \in Run /\ d.command = command /\ d.read = <<>> /\ d.exit = "none" /\ ~d.failed
      /\ d.step \in {"trust", "read", "verify"}
      /\ (d.step = "trust" => command.trustedKeys # "none")
      /\ (d.step = "read" <=> d.step # "trust" /\ command.inputs # <<>>)
  <2>1. c \in Run /\ c.command = command /\ c.read = <<>> /\ c.exit = "none" /\ ~c.failed
    <3>1. NoFile \in Documents \cup {NoFile} /\ <<>> \in Seq(Documents \cup {NoFile})
      OBVIOUS
    <3> QED
      BY <1>1, <3>1 DEF NotStarted, Run, Steps
  <2> HIDE DEF c
  <2> QED
    BY <2>1 DEF AfterTrust, Run, Steps
<1>3. Goes(p, d) /\ UNCHANGED <<placements, fvars>> /\ crctl[p].step \in Before
  BY DEF Start, Before
<1> HIDE DEF d
<1>4. Len(command.inputs) \in Nat /\ (command.inputs # <<>> => Len(command.inputs) > 0)
      /\ (command.inputs = <<>> => Len(command.inputs) = 0)
      /\ command.trustedKeys \in Path \cup {"none"}
  BY <1>1 DEF CommandLines
<1>5. GoodRun(d, staging[p], FALSE)
  BY <1>1, <1>2, <1>4 DEF GoodRun, Before
<1> QED
  BY <1>2, <1>3, <1>5, RunGoesOn

(* Reading the trusted keys, or failing to, ends well or leads to inputs.  *)
LEMMA LoadTrustStep ==
    ASSUME Inv, NEW p \in Process, LoadTrust(p) PROVE Inv'
<1> DEFINE c == crctl[p]
           k == files[c.command.trustedKeys]
           d == AfterTrust([c EXCEPT !.trust = k.signer])
<1>1. c \in Run /\ GoodRun(c, staging[p], Published(p)) /\ c.step = "trust"
  BY DEF Inv, LoadTrust
<1>2. CASE parseTrustedKeys(k)
  <2>1. k \in Documents
    BY <1>1, <1>2, NoFileIsNone DEF GoodRun, Inv, FilesTypeOK, parseTrustedKeys
  <2>2. k.signer \in {"demo", "caller"}
    BY <2>1 DEF Documents
  <2>3. c.read = <<>> /\ c.exit = "none" /\ ~c.failed
    BY <1>1 DEF GoodRun, Before
  <2>4. d \in Run /\ d.command = c.command /\ d.read = <<>> /\ d.exit = "none" /\ ~d.failed
        /\ d.step \in {"read", "verify"} /\ (d.step = "read" <=> c.command.inputs # <<>>)
    BY <1>1, <2>2, <2>3 DEF AfterTrust, Run, Steps
  <2>5. Goes(p, d) /\ UNCHANGED <<placements, fvars>>
    BY <1>2 DEF LoadTrust
  <2> HIDE DEF d
  <2>6. Len(c.command.inputs) \in Nat /\ (c.command.inputs # <<>> => Len(c.command.inputs) > 0)
        /\ (c.command.inputs = <<>> => Len(c.command.inputs) = 0)
    BY <1>1 DEF Run, CommandLines
  <2>7. GoodRun(d, staging[p], FALSE)
    BY <1>1, <2>3, <2>4, <2>6 DEF GoodRun, Before
  <2> QED
    BY <1>1, <2>4, <2>5, <2>7, RunGoesOn DEF Before
<1>3. CASE ~parseTrustedKeys(k)
  BY <1>1, <1>3, RunEnds DEF LoadTrust, Before
<1> QED
  BY <1>2, <1>3

(* An input that was read and verified is added to those before it.        *)
LEMMA ReadInputStep ==
    ASSUME Inv, NEW p \in Process, ReadInput(p) PROVE Inv'
<1> DEFINE c == crctl[p]
           n == Len(c.read) + 1
           f == files[c.command.inputs[n]]
           d == [c EXCEPT !.read = Append(@, f),
                          !.step = IF n = Len(c.command.inputs) THEN "verify" ELSE "read"]
<1>1. c \in Run /\ GoodRun(c, staging[p], Published(p)) /\ c.step = "read"
  BY DEF Inv, ReadInput
<1>2. Len(c.read) \in Nat /\ Len(c.command.inputs) \in Nat /\ Len(c.read) < Len(c.command.inputs)
  BY <1>1 DEF GoodRun, Run, CommandLines
<1>3. c.command.inputs[n] \in Path
  BY <1>1, <1>2 DEF Run, CommandLines
<1>4. f \in Documents \cup {NoFile}
  BY <1>3 DEF Inv, FilesTypeOK
<1>5. CASE Batch(c.command) \/ (Loads(c.command.inputs[n]) /\ MatchesPin(f, c.command.pins[n]))
  <2>1. d \in Run /\ d.command = c.command /\ d.exit = c.exit /\ d.read = Append(c.read, f)
        /\ d.failed = c.failed
        /\ d.step = IF n = Len(c.command.inputs) THEN "verify" ELSE "read"
    <3>1. Append(c.read, f) \in Seq(Documents \cup {NoFile})
      BY <1>1, <1>4 DEF Run
    <3> DEFINE step == IF n = Len(c.command.inputs) THEN "verify" ELSE "read"
               read == Append(c.read, f)
    <3>2. step \in Steps
      BY DEF Steps
    <3> HIDE DEF step, read
    <3>3. d = [c EXCEPT !.read = read, !.step = step]
      BY DEF step, read
    <3> HIDE DEF c, d
    <3>4. d \in Run /\ d.command = c.command /\ d.exit = c.exit /\ d.read = read /\ d.step = step
          /\ d.failed = c.failed
      BY <1>1, <3>1, <3>2, <3>3 DEF Run, read
    <3> QED
      BY <3>4 DEF step, read
  <2>2. Goes(p, d) /\ UNCHANGED <<placements, fvars>>
    BY <1>5 DEF ReadInput
  <2> HIDE DEF d
  <2>3. Len(d.read) = n
    <3>1. c.read \in Seq(Documents \cup {NoFile})
      BY <1>1 DEF Run
    <3> HIDE DEF f, c
    <3> QED
      BY <1>4, <2>1, <3>1
  <2>4. c.command.name = "receipt" => n = 1 /\ d.read[1] = f
    BY <1>1, <1>2, <1>4, <2>1 DEF GoodRun, Run, Accepted
  <2>5. c.command.name = "receipt" => c.command.pins[1] \in {NoFile, f}
    BY <1>5, <2>4 DEF Batch, MatchesPin
  <2> HIDE DEF f
  <2>6. d.step \in {"verify", "read"} /\ d.exit = "none" /\ ~d.failed
    BY <1>1, <2>1 DEF GoodRun, Before
  <2>7. /\ d.step = "read" => Len(d.read) < Len(c.command.inputs)
        /\ d.step = "verify" => Len(d.read) = Len(c.command.inputs)
        /\ Len(d.read) <= Len(c.command.inputs)
    BY <1>2, <2>1, <2>3
  <2>8. GoodRun(d, staging[p], FALSE)
    BY <1>1, <2>1, <2>4, <2>5, <2>6, <2>7 DEF GoodRun, Before
  <2> QED
    BY <1>1, <2>1, <2>2, <2>8, RunGoesOn DEF Before
<1>6. CASE ~(Batch(c.command) \/ (Loads(c.command.inputs[n]) /\ MatchesPin(f, c.command.pins[n])))
  <2>1. Exits(p, c, "1") /\ UNCHANGED <<placements, fvars>>
    BY <1>6 DEF ReadInput
  <2> QED
    BY <1>1, <2>1, RunEnds DEF Before
<1> QED
  BY <1>5, <1>6

(* A verdict leads to a publication or to the print of its result.         *)
LEMMA ConcludeStep ==
    ASSUME Inv, NEW p \in Process, Conclude(p) PROVE Inv'
<1> DEFINE c == crctl[p]
           passes == Batch(c.command) \/ (ValidRows(c) = DOMAIN c.read /\ ExtendsCheckpoint(c))
           printing == [c EXCEPT !.step = "print"]
           staging1 == [c EXCEPT !.step = "stage", !.text = Output(c)]
<1>1. c \in Run /\ GoodRun(c, staging[p], Published(p)) /\ c.step = "verify"
  BY DEF Inv, Conclude
<1>2. UNCHANGED <<placements, fvars>> /\ c.exit = "none" /\ ~c.failed /\ Accepted(c.command)
  BY <1>1 DEF Conclude, GoodRun, Before
<1>3. CASE ~passes
  <2>1. Exits(p, c, "1")
    BY <1>3 DEF Conclude
  <2> QED
    BY <1>1, <1>2, <2>1, RunEnds DEF Before
<1>4. CASE passes /\ c.command.out = "none"
  <2>1. Goes(p, printing)
    BY <1>4 DEF Conclude
  <2>2. printing \in Run /\ printing.command = c.command /\ printing.read = c.read
        /\ printing.step = "print" /\ printing.exit = "none" /\ ~printing.failed
    BY <1>1, <1>2 DEF Run, Steps
  <2> HIDE DEF printing
  <2>3. GoodRun(printing, staging[p], FALSE)
    BY <1>1, <1>2, <1>4, <2>2 DEF GoodRun, Before
  <2> QED
    BY <1>1, <1>2, <2>1, <2>2, <2>3, RunGoesOn DEF Before
<1>5. CASE passes /\ c.command.out # "none"
  <2> DEFINE d == staging1
  <2>1. Goes(p, d)
    BY <1>5 DEF Conclude
  <2>2. /\ c.read \in Seq(Documents \cup {NoFile}) /\ c.command.inputs \in Seq(Path)
        /\ Len(c.read) = Len(c.command.inputs)
    BY <1>1 DEF GoodRun, Run, CommandLines
  <2>3. ASSUME c.command.name = "receipt"
        PROVE  /\ c.read # <<>> /\ c.read[1] \in Documents
               /\ c.read[1].signer = c.trust
               /\ ~c.read[1].sound => c.read[1].profile = "receipt"
               /\ c.command.checkpoint \in {"none", c.read[1].proof}
    <3>1. Len(c.read) = 1
      BY <1>2, <2>2, <2>3 DEF Accepted
    <3>2. c.read # <<>> /\ 1 \in DOMAIN c.read /\ c.read[1] \in Documents \cup {NoFile}
      <4> DEFINE read == c.read
      <4>1. read \in Seq(Documents \cup {NoFile}) /\ Len(read) = 1
        BY <2>2, <3>1
      <4> HIDE DEF read
      <4>2. read # <<>> /\ 1 \in DOMAIN read /\ read[1] \in Documents \cup {NoFile}
        BY <4>1
      <4> QED
        BY <4>2 DEF read
    <3>3. ValidRows(c) = DOMAIN c.read /\ ExtendsCheckpoint(c)
      BY <1>5, <2>3 DEF Batch
    <3>4. Verified(c, c.trust, 1)
      BY <3>2, <3>3 DEF ValidRows
    <3>5. reviewBundle(c.read[1], c.trust, FALSE)
      BY <2>3, <3>4 DEF Verified
    <3>6. c.read[1] \in Documents
      BY <3>2, <3>5, NoFileIsNone DEF reviewBundle, verifyBundle
    <3>7. c.command.checkpoint \in {"none", c.read[1].proof}
      BY <3>3 DEF ExtendsCheckpoint
    <3> QED
      BY <3>2, <3>5, <3>6, <3>7 DEF reviewBundle, verifyBundle, Documents
  <2>4. Output(c) \in Documents /\ Output(c) \notin {NoFile, Unreadable}
    BY <1>1, <2>3, OutputIsDocument
  <2>5. /\ d \in Run /\ d.command = c.command /\ d.read = c.read /\ d.trust = c.trust
        /\ d.step = "stage" /\ d.exit = "none" /\ d.text = Output(c) /\ ~d.failed
    <3> DEFINE text == Output(c)
    <3> HIDE DEF c, text
    <3>1. text \in Documents
      BY <2>4 DEF text
    <3>2. d = [c EXCEPT !.step = "stage", !.text = text]
      BY DEF text
    <3> HIDE DEF d
    <3>3. /\ d \in Run /\ d.command = c.command /\ d.read = c.read /\ d.trust = c.trust
          /\ d.step = "stage" /\ d.exit = "none" /\ d.text = text /\ ~d.failed
      BY <1>1, <1>2, <3>1, <3>2 DEF Run, Steps
    <3> QED
      BY <3>3 DEF text
  <2> HIDE DEF d
  <2>6. Exported(d)
    <3> SUFFICES ASSUME c.command.name = "receipt" PROVE Exported(d)
      BY <2>5 DEF Exported
    <3>1. d.text = [c.read[1] EXCEPT !.profile = "receipt"]
      BY <2>5 DEF Output, receiptBundle
    <3>2. d.text.sound = c.read[1].sound /\ d.text.signer = c.read[1].signer
          /\ d.text.proof = c.read[1].proof
      BY <2>3, <3>1 DEF Documents
    <3>3. c.command.pins[1] \in {NoFile, c.read[1]}
      BY <1>1, <2>3 DEF GoodRun
    <3> QED
      BY <2>3, <2>5, <3>1, <3>2, <3>3 DEF Exported
  <2>7. Publishes(d)
    <3>1. c.command.out \in Path
      BY <1>1, <1>5 DEF Run, CommandLines
    <3> QED
      BY <2>4, <2>5, <2>6, <3>1 DEF Publishes
  <2>8. GoodRun(d, staging[p], FALSE)
    BY <1>1, <1>2, <2>5, <2>7 DEF GoodRun, Before
  <2> QED
    BY <1>1, <1>2, <2>1, <2>5, <2>8, RunGoesOn DEF Before
<1> QED
  BY <1>3, <1>4, <1>5

-------------------------------------------------------------------------------
(* The steps of publication. *)

(* d differs from the run c in its step, its failure and its exit only.    *)
Alike(c, d) ==
    d.command = c.command /\ d.read = c.read /\ d.text = c.text /\ d.trust = c.trust

(* A run with the command, inputs and output of a publishing run publishes.*)
LEMMA AlikePublishes ==
    ASSUME NEW c, NEW d, Alike(c, d), Publishes(c) PROVE Publishes(d)
  BY DEF Alike, Publishes, Exported

(* A step of writeExclusiveArtifactText other than a successful link.      *)
LEMMA PublicationStep ==
    ASSUME Inv, NEW p \in Process, NEW d \in Run, NEW s \in StagingStates, Goes(p, d),
           staging' = [staging EXCEPT ![p] = s], UNCHANGED <<files, publisher, placements>>,
           Publishes(crctl[p]), Alike(crctl[p], d), crctl[p].step # "idle", d.step \notin {"idle", "trust", "read", "verify"},
           d.step = "ended" <=> d.exit # "none",
           d.step = "link" => s = "whole",
           d.step \in Before => ~Published(p) /\ ~d.failed,
           d.step = "clean" => (Published(p) <=> ~d.failed) /\ (Published(p) => s = "whole"),
           d.step = "print" \/ d.exit = "0" => Published(p) /\ s = "none",
           d.exit = "1" /\ Published(p) => s = "whole" \/ (d.failed /\ s = "none")
    PROVE  Inv'
<1> DEFINE c == crctl[p]
<1>1. GoodRun(c, staging[p], Published(p))
  BY DEF Inv
<1>2. Publishes(d)
  BY AlikePublishes
<1>3. GoodRun(d, s, Published(p))
  <2>1. Accepted(d.command) /\ Len(d.read) <= Len(d.command.inputs)
        /\ (d.command.name = "receipt" /\ d.read # <<>> =>
              d.command.pins[1] \in {NoFile, d.read[1]})
    BY <1>1 DEF GoodRun, Alike
  <2> QED
    BY <1>2, <2>1 DEF GoodRun
<1> QED
  BY <1>2, <1>3, OneRun DEF Goes, Alike

(* mkdtemp makes the staging directory or the command ends.                *)
LEMMA StageStep ==
    ASSUME Inv, NEW p \in Process, Stage(p) PROVE Inv'
<1> DEFINE c == crctl[p]
           d == [c EXCEPT !.step = "write"]
<1>1. c \in Run /\ GoodRun(c, staging[p], Published(p)) /\ c.step = "stage"
  BY DEF Inv, Stage
<1>2. CASE MakeStaging(p) /\ Goes(p, d)
  <2>1. d \in Run /\ Alike(c, d) /\ d.step = "write" /\ d.exit = "none" /\ ~d.failed
    BY <1>1 DEF Run, Steps, GoodRun, Alike, Before
  <2>2. Publishes(c) /\ ~Published(p)
    BY <1>1 DEF GoodRun, Before
  <2>3. staging' = [staging EXCEPT ![p] = "empty"] /\ UNCHANGED <<files, publisher, placements>>
    BY <1>2 DEF MakeStaging, Stage
  <2> HIDE DEF d
  <2> QED
    BY <1>1, <1>2, <2>1, <2>2, <2>3, PublicationStep DEF StagingStates
<1>3. CASE UNCHANGED fvars /\ Exits(p, c, "1")
  BY <1>1, <1>3, RunEnds DEF Stage, Before
<1> QED
  BY <1>2, <1>3 DEF Stage

(* The staged text is whole, or the command failed and cleans.             *)
LEMMA WriteStep ==
    ASSUME Inv, NEW p \in Process, Write(p) PROVE Inv'
<1> DEFINE c == crctl[p]
<1>1. c \in Run /\ GoodRun(c, staging[p], Published(p)) /\ c.step = "write"
  BY DEF Inv, Write
<1>2. Publishes(c) /\ ~Published(p)
  BY <1>1 DEF GoodRun, Before
<1>3. CASE WriteStaged(p, "whole") /\ Goes(p, [c EXCEPT !.step = "link"])
  <2> DEFINE d == [c EXCEPT !.step = "link"]
  <2>1. d \in Run /\ Alike(c, d) /\ d.step = "link" /\ d.exit = "none" /\ ~d.failed
    BY <1>1 DEF Run, Steps, GoodRun, Alike, Before
  <2>2. staging' = [staging EXCEPT ![p] = "whole"] /\ UNCHANGED <<files, publisher, placements>>
    BY <1>3 DEF WriteStaged, Write
  <2> HIDE DEF d
  <2> QED
    BY <1>1, <1>2, <1>3, <2>1, <2>2, PublicationStep DEF StagingStates, d
<1>4. CASE WriteStaged(p, "partial") /\ Goes(p, [c EXCEPT !.step = "clean", !.failed = TRUE])
  <2> DEFINE d == [c EXCEPT !.step = "clean", !.failed = TRUE]
  <2>1. d \in Run /\ Alike(c, d) /\ d.step = "clean" /\ d.exit = "none" /\ d.failed
    BY <1>1 DEF Run, Steps, GoodRun, Alike
  <2>2. staging' = [staging EXCEPT ![p] = "partial"] /\ UNCHANGED <<files, publisher, placements>>
    BY <1>4 DEF WriteStaged, Write
  <2>3. Goes(p, d)
    BY <1>4
  <2> HIDE DEF d
  <2> QED
    BY <1>1, <1>2, <2>1, <2>2, <2>3, PublicationStep DEF StagingStates, Before
<1> QED
  BY <1>3, <1>4 DEF Write

(* The staging directory is removed, or stays and the command says so.     *)
LEMMA CleanStep ==
    ASSUME Inv, NEW p \in Process, Clean(p) PROVE Inv'
<1> DEFINE c == crctl[p]
<1>1. c \in Run /\ GoodRun(c, staging[p], Published(p)) /\ c.step = "clean"
  BY DEF Inv, Clean
<1>2. Publishes(c) /\ (Published(p) <=> ~c.failed)
  BY <1>1 DEF GoodRun
<1>3. CASE RemoveStaging(p) /\ c.failed /\ Exits(p, c, "1")
  <2> DEFINE d == [c EXCEPT !.step = "ended", !.exit = "1"]
  <2>1. d \in Run /\ Alike(c, d) /\ d.step = "ended" /\ d.exit = "1"
    BY <1>1 DEF Run, Steps, GoodRun, Alike
  <2>2. staging' = [staging EXCEPT ![p] = "none"] /\ UNCHANGED <<files, publisher, placements>>
    BY <1>3 DEF RemoveStaging, Clean
  <2>3. Goes(p, d)
    BY <1>3 DEF Exits
  <2> HIDE DEF d
  <2> QED
    BY <1>1, <1>2, <1>3, <2>1, <2>2, <2>3, PublicationStep DEF StagingStates, Before
<1>4. CASE RemoveStaging(p) /\ ~c.failed /\ Goes(p, [c EXCEPT !.step = "print"])
  <2> DEFINE d == [c EXCEPT !.step = "print"]
  <2>1. d \in Run /\ Alike(c, d) /\ d.step = "print" /\ d.exit = "none"
    BY <1>1 DEF Run, Steps, GoodRun, Alike
  <2>2. staging' = [staging EXCEPT ![p] = "none"] /\ UNCHANGED <<files, publisher, placements>>
    BY <1>4 DEF RemoveStaging, Clean
  <2>3. Goes(p, d)
    BY <1>4
  <2> HIDE DEF d
  <2> QED
    BY <1>1, <1>2, <1>4, <2>1, <2>2, <2>3, PublicationStep DEF StagingStates, Before
<1>5. CASE UNCHANGED fvars /\ Exits(p, c, "1")
  BY <1>1, <1>5, RunEnds DEF Clean, Before
<1> QED
  BY <1>3, <1>4, <1>5 DEF Clean

(* A printing run ends: with its verdict's status once the result is       *)
(* written, and with 1 when standard output does not take it.              *)
LEMMA PrintResultStep ==
    ASSUME Inv, NEW p \in Process, PrintResult(p) PROVE Inv'
<1> DEFINE c == crctl[p]
           e == [c EXCEPT !.failed = TRUE]
           d == [c EXCEPT !.step = "ended", !.exit = ExitCode(c)]
           u == [e EXCEPT !.step = "ended", !.exit = "1"]
<1>1. c \in Run /\ GoodRun(c, staging[p], Published(p)) /\ c.step = "print"
  BY DEF Inv, PrintResult
<1>2. ExitCode(c) \in {"0", "1"}
  BY DEF ExitCode
<1>3. (Goes(p, d) \/ Goes(p, u)) /\ UNCHANGED <<placements, fvars>>
  BY DEF PrintResult, Exits
<1>4. d \in Run /\ Alike(c, d) /\ d.step = "ended" /\ d.exit = ExitCode(c)
  <2> DEFINE status == ExitCode(c)
  <2> HIDE DEF status
  <2>1. status \in {"0", "1"} /\ d = [c EXCEPT !.step = "ended", !.exit = status]
    BY <1>2 DEF status
  <2> HIDE DEF c, d
  <2>2. d \in Run /\ Alike(c, d) /\ d.step = "ended" /\ d.exit = status
    BY <1>1, <2>1 DEF Run, Steps, Alike
  <2> QED
    BY <2>2 DEF status
<1>10. u \in Run /\ Alike(c, u) /\ u.step = "ended" /\ u.exit = "1" /\ u.failed
  <2>1. e \in Run /\ Alike(c, e) /\ e.failed
    BY <1>1 DEF Run, Alike
  <2> HIDE DEF c, e
  <2> QED
    BY <2>1 DEF Run, Steps, Alike
<1> HIDE DEF d, u
<1>5. staging' = [staging EXCEPT ![p] = staging[p]] /\ staging[p] \in StagingStates
      /\ UNCHANGED <<files, publisher, placements>>
  BY <1>3 DEF fvars, Inv, FilesTypeOK, StagingStates
<1>6. Accepted(c.command)
  BY <1>1 DEF GoodRun
<1>7. c.command.out # "none" => ExitCode(c) = "0"
  <2>1. SUFFICES ASSUME c.command.out # "none" PROVE ExitCode(c) = "0"
    OBVIOUS
  <2>2. /\ c.command.name \in {"demo", "trust-demo", "receipt", "review", "recovery-review"}
        /\ c.command.required = "none"
    BY <1>6, <2>1 DEF Accepted, Batch
  <2>3. ~Batch(c.command) /\ c.command.name # "link" /\ ExpectationMet(c)
    BY <2>2 DEF Batch, ExpectationMet
  <2> QED
    BY <2>3 DEF ExitCode
<1>8. CASE c.command.out # "none"
  <2>1. Published(p) /\ staging[p] = "none"
    BY <1>1, <1>8 DEF GoodRun
  <2>2. Publishes(c)
    BY <2>1, PublishedRun
  <2>3. CASE Goes(p, d)
    BY <1>1, <1>4, <1>5, <1>7, <1>8, <2>1, <2>2, <2>3, PublicationStep DEF Before
  <2>4. CASE Goes(p, u)
    BY <1>1, <1>5, <1>8, <1>10, <2>1, <2>2, <2>4, PublicationStep DEF Before
  <2> QED
    BY <1>3, <2>3, <2>4
<1>9. CASE c.command.out = "none"
  <2>1. ~Published(p)
    BY <1>9, CommandAssumption, PublishedRun DEF Publishes
  <2>2. GoodRun(d, staging[p], Published(p))
    BY <1>1, <1>2, <1>4, <1>9, <2>1 DEF GoodRun, Alike, Before
  <2>3. GoodRun(u, staging[p], Published(p))
    BY <1>1, <1>9, <1>10, <2>1 DEF GoodRun, Alike, Before
  <2> QED
    BY <1>3, <1>4, <1>5, <1>10, <2>1, <2>2, <2>3, OneRun DEF Goes
<1> QED
  BY <1>8, <1>9

(* The hard link: it finds the destination vacant, so no process has       *)
(* published there, and it publishes the whole of the staged text.         *)
LEMMA LinkStep ==
    ASSUME Inv, NEW p \in Process, Link(p) PROVE Inv'
<1> DEFINE c == crctl[p]
           out == c.command.out
           d == [c EXCEPT !.step = "clean"]
<1>1. c \in Run /\ GoodRun(c, staging[p], Published(p)) /\ c.step = "link"
  BY DEF Inv, Link
<1>2. Publishes(c) /\ ~Published(p) /\ staging[p] = "whole" /\ c.exit = "none"
      /\ Accepted(c.command) /\ out \in Path
  BY <1>1 DEF GoodRun, Before, Publishes
<1>3. CASE Goes(p, [c EXCEPT !.step = "clean", !.failed = TRUE]) /\ UNCHANGED fvars
  <2> DEFINE e == [c EXCEPT !.step = "clean", !.failed = TRUE]
  <2>1. e \in Run /\ Alike(c, e) /\ e.step = "clean" /\ e.exit = "none" /\ e.failed
    BY <1>1, <1>2 DEF Run, Steps, Alike
  <2>2. Goes(p, e) /\ UNCHANGED <<files, publisher, placements>>
        /\ staging' = [staging EXCEPT ![p] = "whole"]
    BY <1>2, <1>3 DEF Link, fvars, Inv, FilesTypeOK
  <2> HIDE DEF e
  <2> QED
    BY <1>1, <1>2, <2>1, <2>2, PublicationStep DEF StagingStates, Before
<1>4. CASE LinkStaged(p, out, c.text) /\ Goes(p, d)
  <2>1. d \in Run /\ Alike(c, d) /\ d.step = "clean" /\ d.exit = "none" /\ d.failed = c.failed
    BY <1>1, <1>2 DEF Run, Steps, Alike
  <2>2. /\ files[out] = NoFile
        /\ files' = [files EXCEPT ![out] = c.text]
        /\ publisher' = [publisher EXCEPT ![out] = p]
        /\ crctl' = [crctl EXCEPT ![p] = d]
        /\ UNCHANGED <<staging, placements>>
    BY <1>2, <1>4 DEF Link, LinkStaged, Vacant, Staged, Goes
  <2> HIDE DEF d
  <2>3. publisher[out] = Nobody
    <3>1. GoodPath(out) /\ publisher[out] \in Process \cup {Nobody}
      BY <1>2 DEF Inv, FilesTypeOK
    <3> QED
      BY <2>2, <3>1 DEF GoodPath, Publishes
  <2>4. FilesTypeOK' /\ placements' \in 0 .. MaxPlacements /\ crctl' \in [Process -> Run]
    BY <1>1, <1>2, <2>1, <2>2 DEF Inv, FilesTypeOK, Run
  <2>5. Published(p)'
    BY <1>2, <2>2 DEF Published, Inv, FilesTypeOK
  <2>6. ASSUME NEW q \in Process, q # p PROVE Published(q)' <=> Published(q)
    BY <1>2, <2>2, <2>3, <2>6, ProcessAssumption DEF Published, Inv, FilesTypeOK
  <2>7. Publishes(d)
    BY <1>2, <2>1, AlikePublishes
  <2>8. ASSUME NEW q \in Process PROVE GoodRun(crctl[q], staging[q], Published(q))'
    <3>1. CASE q = p
      <4>1. crctl'[q] = d /\ staging'[q] = "whole"
        BY <1>2, <2>2, <3>1 DEF Inv
      <4>2. /\ ~c.failed
            /\ Len(d.read) <= Len(d.command.inputs) /\ Accepted(d.command)
            /\ d.command.name = "receipt" /\ d.read # <<>> =>
                  d.command.pins[1] \in {NoFile, d.read[1]}
        BY <1>1, <2>1 DEF GoodRun, Alike, Before
      <4> QED
        BY <2>1, <2>5, <2>7, <3>1, <4>1, <4>2 DEF GoodRun, Before
    <3>2. CASE q # p
      <4>1. crctl'[q] = crctl[q] /\ staging'[q] = staging[q]
        BY <2>2, <3>2 DEF Inv
      <4>2. GoodRun(crctl[q], staging[q], Published(q))
        BY DEF Inv
      <4> QED
        BY <2>6, <3>2, <4>1, <4>2 DEF GoodRun
    <3> QED
      BY <3>1, <3>2
  <2>9. ASSUME NEW path \in Path PROVE GoodPath(path)'
    <3>1. GoodPath(path) /\ publisher[path] \in Process \cup {Nobody}
      BY DEF Inv, FilesTypeOK
    <3>2. CASE path = out
      <4>1. publisher'[path] = p /\ crctl'[p] = d /\ files'[path] = c.text
        BY <1>2, <2>2, <3>2 DEF Inv, FilesTypeOK
      <4> QED
        BY <2>1, <2>7, <3>2, <4>1 DEF GoodPath, Alike
    <3>3. CASE path # out
      <4>1. publisher'[path] = publisher[path] /\ files'[path] = files[path]
        BY <2>2, <3>3 DEF Inv, FilesTypeOK
      <4>2. publisher[path] # p
        BY <1>2 DEF Published
      <4>3. publisher[path] # Nobody => crctl'[publisher[path]] = crctl[publisher[path]]
        BY <2>2, <3>1, <4>2 DEF Inv
      <4> QED
        BY <3>1, <4>1, <4>3 DEF GoodPath
    <3> QED
      BY <3>2, <3>3
  <2> QED
    BY <2>4, <2>8, <2>9 DEF Inv
<1> QED
  BY <1>3, <1>4 DEF Link

(* Others place documents only where no process has published.             *)
LEMMA OthersPlaceStep == ASSUME Inv, OthersPlace PROVE Inv'
<1>1. PICK path \in Path, d \in Placeable : Place(path, d)
  BY DEF OthersPlace
<1>2. d \in Documents
  BY CommandAssumption
<1>3. placements' \in 0 .. MaxPlacements /\ UNCHANGED <<crctl, staging, publisher>>
  BY <1>1, CommandAssumption DEF OthersPlace, Place, Inv
<1>4. files' = [files EXCEPT ![path] = d] /\ publisher[path] = Nobody
  BY <1>1 DEF Place
<1>5. FilesTypeOK' /\ crctl' \in [Process -> Run]
  BY <1>2, <1>3, <1>4 DEF Inv, FilesTypeOK
<1>6. ASSUME NEW p \in Process PROVE GoodRun(crctl[p], staging[p], Published(p))'
  <2>1. Published(p)' <=> Published(p)
    BY <1>3 DEF Published
  <2>2. GoodRun(crctl[p], staging[p], Published(p))
    BY DEF Inv
  <2> QED
    BY <1>3, <2>1, <2>2 DEF GoodRun
<1>7. ASSUME NEW q \in Path PROVE GoodPath(q)'
  <2>1. GoodPath(q)
    BY DEF Inv
  <2>2. publisher[q] # Nobody => files'[q] = files[q]
    BY <1>4 DEF Inv, FilesTypeOK
  <2> QED
    BY <1>3, <2>1, <2>2 DEF GoodPath
<1> QED
  BY <1>3, <1>5, <1>6, <1>7 DEF Inv

-------------------------------------------------------------------------------
(* The invariant. *)

(* At the start no process runs and no path is published.                  *)
LEMMA InitInv == CommandInit => Inv
<1> SUFFICES ASSUME CommandInit PROVE Inv
  OBVIOUS
<1>1. FilesTypeOK
  BY CommandAssumption DEF CommandInit, FilesTypeOK
<1>2. NotStarted \in Run /\ NotStarted.step = "idle" /\ NotStarted.exit = "none"
      /\ NotStarted.read = <<>> /\ NotStarted.command.name = "none"
      /\ NotStarted.command.inputs = <<>> /\ ~NotStarted.failed
  <2>1. <<>> \in Seq(Path) /\ <<>> \in Seq(Documents \cup {NoFile})
    OBVIOUS
  <2>2. [i \in DOMAIN <<>> |-> NoFile] = <<>>
    OBVIOUS
  <2>3. Command("none", <<>>, "none") \in CommandLines
        /\ Command("none", <<>>, "none").name = "none"
        /\ Command("none", <<>>, "none").inputs = <<>>
    <3> DEFINE pins == [i \in DOMAIN <<>> |-> NoFile]
    <3>1. Command("none", <<>>, "none") =
             [name |-> "none", inputs |-> <<>>, pins |-> pins, out |-> "none",
              trustedKeys |-> "none", allowReceipt |-> FALSE, required |-> "none",
              checkpoint |-> "none"]
      BY DEF Command
    <3>2. pins \in Seq(Documents \cup {NoFile})
      BY <2>1, <2>2
    <3> DEFINE none == Command("none", <<>>, "none")
               empty == <<>>
    <3>3. empty \in Seq(Path)
      BY <2>1
    <3> HIDE DEF pins, empty
    <3>4. [name |-> "none", inputs |-> empty, pins |-> pins, out |-> "none",
           trustedKeys |-> "none", allowReceipt |-> FALSE, required |-> "none",
           checkpoint |-> "none"] \in CommandLines
      BY <3>2, <3>3 DEF CommandLines
    <3>5. none \in CommandLines
      BY <3>1, <3>4 DEF empty
    <3>6. none.name = "none" /\ none.inputs = <<>>
      BY <3>1
    <3> QED
      BY <3>5, <3>6
  <2> QED
    BY <2>1, <2>3 DEF NotStarted, Run, Steps
<1>3. crctl \in [Process -> Run] /\ \A p \in Process : crctl[p] = NotStarted
  BY <1>2 DEF CommandInit
<1>4. \A p \in Process : ~Published(p)
  BY ProcessAssumption DEF Published, CommandInit
<1>5. GoodRun(NotStarted, "none", FALSE)
  BY <1>2 DEF GoodRun, Before
<1>6. ASSUME NEW p \in Process PROVE GoodRun(crctl[p], staging[p], Published(p))
  <2>1. crctl[p] = NotStarted /\ staging[p] = "none" /\ ~Published(p)
    BY <1>3, <1>4 DEF CommandInit
  <2> QED
    BY <1>5, <2>1 DEF GoodRun
<1>7. \A path \in Path : GoodPath(path)
  BY DEF GoodPath, CommandInit
<1>8. placements \in 0 .. MaxPlacements
  BY CommandAssumption DEF CommandInit
<1> QED
  BY <1>1, <1>3, <1>6, <1>7, <1>8 DEF Inv

(* Every step of a process and every placement keeps the invariant.        *)
LEMMA NextInv == Inv /\ [CommandNext]_cvars => Inv'
<1> SUFFICES ASSUME Inv, [CommandNext]_cvars PROVE Inv'
  OBVIOUS
<1>1. ASSUME NEW p \in Process, Runs(p) PROVE Inv'
  <2>1. CASE Crash(p)
    BY <2>1, RunEnds DEF Crash
  <2> QED
    BY <1>1, <2>1, StartStep, LoadTrustStep, ReadInputStep, ConcludeStep, StageStep,
       WriteStep, LinkStep, CleanStep, PrintResultStep DEF Runs
<1>2. CASE UNCHANGED cvars
  BY <1>2 DEF cvars, fvars, Inv, FilesTypeOK, GoodPath, Published
<1> QED
  BY <1>1, <1>2, OthersPlaceStep DEF CommandNext

(* The invariant holds in every behaviour of the command line.             *)
LEMMA Invariant == CommandSpec => []Inv
  BY InitInv, NextInv, PTL DEF CommandSpec

-------------------------------------------------------------------------------
(* Batches. *)

(* What a batch adds to the invariant: it never publishes and never ends   *)
(* early once it read a file, so it judges all its rows and exits with     *)
(* what ExitCode makes of them, if it could write its result.              *)
BatchRun(c) ==
    Batch(c.command) =>
        /\ c.step \notin {"stage", "write", "link", "clean"}
        /\ c.step = "print" => Len(c.read) = Len(c.command.inputs)
        /\ c.exit \in {"0", "1"} /\ c.read # <<>> /\ ~c.failed =>
              Len(c.read) = Len(c.command.inputs) /\ c.exit = ExitCode(c)

BatchInv == \A p \in Process : BatchRun(crctl[p])

(* The exit status depends on what a run read and for which command, not   *)
(* on how far it got.                                                      *)
LEMMA ExitCodeStays ==
    ASSUME NEW c, NEW d, d.command = c.command, d.read = c.read, d.trust = c.trust
    PROVE  ExitCode(d) = ExitCode(c)
<1>1. \A i : Verified(d, d.trust, i) <=> Verified(c, c.trust, i)
  BY DEF Verified
<1>2. ValidRows(d) = ValidRows(c)
  BY <1>1 DEF ValidRows
<1>3. review_required(d) <=> review_required(c)
  BY <1>2 DEF review_required
<1>4. (ExpectationMet(d) <=> ExpectationMet(c)) /\ (bindings_match(d) <=> bindings_match(c))
  BY <1>2 DEF ExpectationMet, bindings_match
<1> QED
  BY <1>2, <1>3, <1>4 DEF ExitCode

(* Only the run of one process changes.                                    *)
LEMMA OneBatch ==
    ASSUME Inv, BatchInv, NEW p \in Process, NEW d, Goes(p, d), BatchRun(d)
    PROVE  BatchInv'
<1>1. \A q \in Process : crctl'[q] = IF q = p THEN d ELSE crctl[q]
  BY DEF Goes, Inv
<1>2. ASSUME NEW q \in Process PROVE BatchRun(crctl'[q])
  BY <1>1 DEF BatchInv
<1> QED
  BY <1>2 DEF BatchInv, BatchRun

(* A run that ends for a reason of its own has read nothing yet, or is no  *)
(* batch; a batch that is killed has no verdict.                           *)
LEMMA BatchEnds ==
    ASSUME Inv, BatchInv, NEW p \in Process, NEW status, Exits(p, crctl[p], status),
           status = "killed" \/ ~Batch(crctl[p].command) \/ crctl[p].read = <<>>
    PROVE  BatchInv'
<1> DEFINE c == crctl[p]
           d == [c EXCEPT !.step = "ended", !.exit = status]
<1>1. c \in Run /\ Goes(p, d)
  BY DEF Inv, Exits
<1>2. d.step = "ended" /\ d.exit = status /\ d.command = c.command /\ d.read = c.read
  BY <1>1 DEF Run
<1> HIDE DEF d
<1>3. BatchRun(d)
  BY <1>2 DEF BatchRun
<1> QED
  BY <1>1, <1>3, OneBatch

(* Every step of a process keeps what a batch adds.                        *)
LEMMA BatchStep ==
    ASSUME Inv, BatchInv, NEW p \in Process, Runs(p) PROVE BatchInv'
<1> DEFINE c == crctl[p]
<1>1. c \in Run /\ GoodRun(c, staging[p], Published(p)) /\ BatchRun(c)
  BY DEF Inv, BatchInv
<1>2. ASSUME NEW command \in Commands[p], Start(p, command) PROVE BatchInv'
  <2> DEFINE n == [NotStarted EXCEPT !.command = command]
             d == IF command.trustedKeys = "none" THEN AfterTrust(n)
                  ELSE [n EXCEPT !.step = "trust"]
  <2>1. n.exit = "none"
    BY DEF NotStarted
  <2>2. d.step \in {"verify", "read", "trust"} /\ d.exit = "none"
    BY DEF AfterTrust, NotStarted
  <2>3. Goes(p, d)
    BY <1>2 DEF Start
  <2> HIDE DEF d
  <2>4. BatchRun(d)
    BY <2>2 DEF BatchRun
  <2> QED
    BY <2>3, <2>4, OneBatch
<1>3. CASE LoadTrust(p)
  <2> DEFINE k == files[c.command.trustedKeys]
             n == [c EXCEPT !.trust = k.signer]
             d == AfterTrust(n)
  <2>1. c.read = <<>> /\ c.exit = "none"
    BY <1>1, <1>3 DEF LoadTrust, GoodRun
  <2>2. d.step \in {"verify", "read"} /\ d.exit = "none"
    BY <1>1, <2>1 DEF AfterTrust, Run
  <2>3. Goes(p, d) \/ Exits(p, c, "1")
    BY <1>3 DEF LoadTrust
  <2> HIDE DEF d
  <2>4. BatchRun(d)
    BY <2>2 DEF BatchRun
  <2> QED
    BY <2>1, <2>3, <2>4, OneBatch, BatchEnds
<1>4. CASE ReadInput(p)
  <2> DEFINE n == Len(c.read) + 1
             f == files[c.command.inputs[n]]
             d == [c EXCEPT !.read = Append(@, f),
                            !.step = IF n = Len(c.command.inputs) THEN "verify" ELSE "read"]
  <2>1. d.step \in {"verify", "read"} /\ d.exit = c.exit /\ c.exit = "none"
    BY <1>1, <1>4 DEF ReadInput, GoodRun, Run
  <2>2. Goes(p, d) \/ (~Batch(c.command) /\ Exits(p, c, "1"))
    BY <1>4 DEF ReadInput
  <2> HIDE DEF d
  <2>3. BatchRun(d)
    BY <2>1 DEF BatchRun
  <2> QED
    BY <2>2, <2>3, OneBatch, BatchEnds
<1>5. CASE Conclude(p)
  <2>1. c.step = "verify" /\ c.exit = "none" /\ Len(c.read) = Len(c.command.inputs)
        /\ Accepted(c.command)
    BY <1>1, <1>5 DEF Conclude, GoodRun
  <2>2. CASE Batch(c.command)
    <3> DEFINE d == [c EXCEPT !.step = "print"]
    <3>1. c.command.out = "none"
      BY <2>1, <2>2 DEF Accepted, Batch
    <3>2. Goes(p, d)
      BY <1>5, <2>2, <3>1 DEF Conclude
    <3>3. d.step = "print" /\ d.exit = "none" /\ d.read = c.read /\ d.command = c.command
      BY <1>1, <2>1 DEF Run
    <3> HIDE DEF d
    <3>4. BatchRun(d)
      BY <2>1, <3>3 DEF BatchRun
    <3> QED
      BY <3>2, <3>4, OneBatch
  <2>3. CASE ~Batch(c.command)
    <3> DEFINE d == IF c.command.out = "none" THEN [c EXCEPT !.step = "print"]
                    ELSE [c EXCEPT !.step = "stage", !.text = Output(c)]
    <3>1. d.command = c.command
      BY <1>1 DEF Run
    <3>2. Goes(p, d) \/ Exits(p, c, "1")
      BY <1>5 DEF Conclude
    <3> HIDE DEF d
    <3>3. BatchRun(d)
      BY <2>3, <3>1 DEF BatchRun
    <3> QED
      BY <2>3, <3>2, <3>3, OneBatch, BatchEnds
  <2> QED
    BY <2>2, <2>3
<1>6. CASE Stage(p) \/ Write(p) \/ Link(p) \/ Clean(p)
  <2>1. ~Batch(c.command)
    BY <1>1, <1>6 DEF BatchRun, Stage, Write, Link, Clean
  <2>2. CASE Exits(p, c, "1")
    BY <2>1, <2>2, BatchEnds
  <2>3. CASE ~Exits(p, c, "1")
    <3>1. PICK d \in {[c EXCEPT !.step = "write"], [c EXCEPT !.step = "link"],
                      [c EXCEPT !.step = "clean", !.failed = TRUE],
                      [c EXCEPT !.step = "clean"], [c EXCEPT !.step = "print"]} : Goes(p, d)
      BY <1>6, <2>3 DEF Stage, Write, Link, Clean
    <3>2. d.command = c.command
      BY <1>1, <3>1 DEF Run
    <3>3. BatchRun(d)
      BY <2>1, <3>2 DEF BatchRun
    <3> QED
      BY <3>1, <3>3, OneBatch
  <2> QED
    BY <2>2, <2>3
<1>7. CASE PrintResult(p)
  <2> DEFINE status == ExitCode(c)
             d == [c EXCEPT !.step = "ended", !.exit = status]
             e == [c EXCEPT !.failed = TRUE]
             u == [e EXCEPT !.step = "ended", !.exit = "1"]
  <2>1. (Goes(p, d) \/ Goes(p, u)) /\ c.step = "print"
    BY <1>7 DEF PrintResult, Exits
  <2>5. u.step = "ended" /\ u.failed
    BY <1>1 DEF Run
  <2>2. d.step = "ended" /\ d.exit = status /\ d.command = c.command /\ d.read = c.read
        /\ d.trust = c.trust
    BY <1>1 DEF Run
  <2> HIDE DEF d, u
  <2>3. ExitCode(d) = status
    BY <2>2, ExitCodeStays
  <2>4. BatchRun(d)
    BY <1>1, <2>1, <2>2, <2>3 DEF BatchRun
  <2>6. BatchRun(u)
    BY <2>5 DEF BatchRun
  <2> QED
    BY <2>1, <2>4, <2>6, OneBatch
<1>8. CASE Crash(p)
  BY <1>8, BatchEnds DEF Crash
<1> QED
  BY <1>2, <1>3, <1>4, <1>5, <1>6, <1>7, <1>8 DEF Runs

(* Batches stay so in every behaviour of the command line.                 *)
LEMMA BatchInvariant == CommandSpec => []BatchInv
<1>1. CommandInit => BatchInv
  BY DEF CommandInit, BatchInv, BatchRun, NotStarted, Command, Batch
<1>2. Inv /\ BatchInv /\ [CommandNext]_cvars => BatchInv'
  <2> SUFFICES ASSUME Inv, BatchInv, [CommandNext]_cvars PROVE BatchInv'
    OBVIOUS
  <2>1. CASE UNCHANGED crctl
    BY <2>1 DEF BatchInv, BatchRun
  <2> QED
    BY <2>1, BatchStep DEF CommandNext, OthersPlace, cvars
<1> QED
  BY <1>1, <1>2, Invariant, PTL DEF CommandSpec

-------------------------------------------------------------------------------
(* The theorems. *)

(* Runs, files and staging directories keep their types.                   *)
THEOREM CommandTypeCorrect == CommandSpec => []CommandTypeOK
<1>1. Inv => CommandTypeOK
  BY DEF Inv, CommandTypeOK, GoodRun
<1> QED
  BY <1>1, Invariant, PTL

(* A destination holds the whole output of one process or nothing of it.   *)
THEOREM PublicationIsWhole == CommandSpec => []PublishedWhole
<1>1. Inv => PublishedWhole
  BY DEF Inv, GoodPath, Publishes, PublishedWhole
<1> QED
  BY <1>1, Invariant, PTL

(* The exit status tells whether the output was published.                 *)
THEOREM ExitIsTruthful == CommandSpec => []ExitTellsPublication
<1>1. Inv => ExitTellsPublication
  <2> SUFFICES ASSUME Inv, NEW p \in Process, crctl[p].command.out # "none"
               PROVE  /\ crctl[p].exit = "0" =>
                            publisher[crctl[p].command.out] = p /\ staging[p] = "none"
                      /\ crctl[p].exit = "1" /\ publisher[crctl[p].command.out] = p =>
                            staging[p] = "whole" \/ (crctl[p].failed /\ staging[p] = "none")
    BY DEF ExitTellsPublication
  <2>1. GoodRun(crctl[p], staging[p], Published(p)) /\ crctl[p] \in Run
    BY DEF Inv
  <2>2. crctl[p].command.out \in Path
    BY <2>1 DEF Run, CommandLines
  <2>3. ASSUME crctl[p].exit = "0"
        PROVE  publisher[crctl[p].command.out] = p /\ staging[p] = "none"
    <3>1. Published(p) /\ staging[p] = "none"
      BY <2>1, <2>3 DEF GoodRun
    <3>2. PICK path \in Path : publisher[path] = p
      BY <3>1 DEF Published
    <3>3. crctl[p].command.out = path
      BY <3>2, ProcessAssumption DEF Inv, GoodPath
    <3> QED
      BY <3>1, <3>2, <3>3
  <2>4. ASSUME crctl[p].exit = "1", publisher[crctl[p].command.out] = p
        PROVE  staging[p] = "whole" \/ (crctl[p].failed /\ staging[p] = "none")
    BY <2>1, <2>2, <2>4 DEF GoodRun, Published
  <2> QED
    BY <2>3, <2>4
<1> QED
  BY <1>1, Invariant, PTL

(* Every exported receipt is of the pinned, trusted, checkpointed document *)
(* that was verified, and never launders an audit bundle that is unsound.  *)
THEOREM ExportIsVerified == CommandSpec => []ExportsAreVerified
<1>1. Inv => ExportsAreVerified
  <2> SUFFICES ASSUME Inv, NEW path \in Path, NEW p, p = publisher[path], p # Nobody,
                      crctl[p].command.name = "receipt"
               PROVE  /\ files[path] = [crctl[p].read[1] EXCEPT !.profile = "receipt"]
                      /\ ~files[path].sound => crctl[p].read[1].profile = "receipt"
                      /\ files[path].signer = crctl[p].trust
                      /\ crctl[p].command.pins[1] \in {NoFile, crctl[p].read[1]}
                      /\ crctl[p].command.checkpoint \in {"none", files[path].proof}
    BY DEF ExportsAreVerified
  <2>1. Publishes(crctl[p]) /\ files[path] = crctl[p].text
    BY DEF Inv, GoodPath
  <2> QED
    BY <2>1 DEF Publishes, Exported
<1> QED
  BY <1>1, Invariant, PTL

(* A finite set has more than one element just if two of them differ.      *)
LEMMA MoreThanOne ==
    ASSUME NEW S, IsFiniteSet(S)
    PROVE  Cardinality(S) > 1 <=> \E x, y \in S : x # y
<1>1. Cardinality(S) \in Nat
  BY FS_CardinalityType
<1>2. Cardinality(S) = 0 <=> S = {}
  BY FS_EmptySet
<1>3. Cardinality(S) = 1 <=> \E x : S = {x}
  BY FS_Singleton
<1>4. CASE S = {}
  BY <1>2, <1>4
<1>5. CASE S # {}
  <2>1. PICK x \in S : TRUE
    BY <1>5
  <2>2. Cardinality(S) > 1 <=> ~(\E z : S = {z})
    BY <1>1, <1>2, <1>3, <1>5
  <2>3. CASE \E z : S = {z}
    BY <2>2, <2>3
  <2>4. CASE ~(\E z : S = {z})
    <3>1. S # {x}
      BY <2>4
    <3>2. PICK y \in S : y # x
      BY <2>1, <3>1
    <3> QED
      BY <2>1, <2>2, <2>4, <3>2
  <2> QED
    BY <2>3, <2>4
<1> QED
  BY <1>4, <1>5

(* When all rows are valid, a review is required just if two of them are   *)
(* of one action and differ in their proof.                                *)
LEMMA ReviewRequired ==
    ASSUME NEW c \in Run, ValidRows(c) = DOMAIN c.read
    PROVE  review_required(c) <=>
              \E i, j \in DOMAIN c.read :
                 c.read[i].action = c.read[j].action /\ c.read[i].proof # c.read[j].proof
<1> DEFINE rows == DOMAIN c.read
           Proofs(action) == {c.read[i].proof : i \in {j \in rows : c.read[j].action = action}}
<1>1. \A i \in rows : c.read[i].proof \in {"first", "second"}
  BY DEF Run, Documents, NoFile, Plain, Document
<1>2. ASSUME NEW action PROVE Cardinality(Proofs(action)) > 1 <=> \E x, y \in Proofs(action) : x # y
  <2>1. IsFiniteSet({"first"} \cup {"second"})
    BY FS_Singleton, FS_Union
  <2>2. Proofs(action) \subseteq {"first"} \cup {"second"}
    BY <1>1
  <2> HIDE DEF Proofs
  <2>3. IsFiniteSet(Proofs(action))
    BY <2>1, <2>2, FS_Subset
  <2> QED
    BY <2>3, MoreThanOne
<1>3. review_required(c) <=>
         \E action \in {c.read[i].action : i \in rows} : Cardinality(Proofs(action)) > 1
  BY DEF review_required
<1>4. review_required(c) <=>
         \E action \in {c.read[i].action : i \in rows} : \E x, y \in Proofs(action) : x # y
  BY <1>2, <1>3
<1> QED
  BY <1>4

(* A batch judges a file by a function of its own, which comes to the      *)
(* verdict of the command for one file.                                    *)
LEMMA RowsAreJudgedAlone ==
    ASSUME NEW c \in Run, Batch(c.command), NEW i \in DOMAIN c.read
    PROVE  Verified(c, c.trust, i) <=>
              IF c.command.name = "verify-many"
              THEN verifySettlementArtifact(c.read[i], c.trust, c.command.allowReceipt)
              ELSE verifyRecoveryPreflight(c.read[i], c.trust)
<1>1. CASE c.command.name = "verify-many"
  BY <1>1 DEF Verified, reviewBundle, verifySettlementArtifact, verifyBundle
<1>2. CASE c.command.name = "recovery-verify-many"
  BY <1>2 DEF Verified
<1> QED
  BY <1>1, <1>2 DEF Batch

(* A batch judges every file as it would be judged alone and succeeds just *)
(* if all pass, meet the expectation and contradict nothing.               *)
THEOREM BatchIsFair == CommandSpec => []BatchVerdict
<1>1. Inv /\ BatchInv => BatchVerdict
  <2> SUFFICES ASSUME Inv, BatchInv, NEW p \in Process,
                      Batch(crctl[p].command), crctl[p].read # <<>>,
                      crctl[p].exit \in {"0", "1"}, ~crctl[p].failed
               PROVE
        LET c == crctl[p]
            Alone(d) == IF c.command.name = "verify-many"
                        THEN verifySettlementArtifact(d, c.trust, c.command.allowReceipt)
                        ELSE verifyRecoveryPreflight(d, c.trust)
            rows == DOMAIN c.command.inputs
        IN  /\ DOMAIN c.read = rows
            /\ c.exit = "0" <=>
                  /\ \A i \in rows : Alone(c.read[i])
                  /\ \A i, j \in rows :
                        c.read[i].action = c.read[j].action => c.read[i].proof = c.read[j].proof
                  /\ c.command.required # "none" =>
                        \A i \in rows : c.read[i].proof = c.command.required
            /\ ValidRows(c) = {i \in rows : Alone(c.read[i])}
    BY DEF BatchVerdict
  <2> DEFINE c == crctl[p]
             Alone(d) == IF c.command.name = "verify-many"
                         THEN verifySettlementArtifact(d, c.trust, c.command.allowReceipt)
                         ELSE verifyRecoveryPreflight(d, c.trust)
             rows == DOMAIN c.command.inputs
  <2>1. c \in Run /\ Len(c.read) = Len(c.command.inputs) /\ c.exit = ExitCode(c)
    BY DEF Inv, BatchInv, BatchRun
  <2>2. DOMAIN c.read = rows
    <3>1. c.read \in Seq(Documents \cup {NoFile}) /\ c.command.inputs \in Seq(Path)
      BY <2>1 DEF Run, CommandLines
    <3>2. DOMAIN c.read = 1 .. Len(c.read) /\ rows = 1 .. Len(c.command.inputs)
      BY <3>1
    <3> QED
      BY <2>1, <3>2
  <2>3. \A i \in rows : Verified(c, c.trust, i) <=> Alone(c.read[i])
    BY <2>1, <2>2, RowsAreJudgedAlone
  <2>4. ValidRows(c) = {i \in rows : Alone(c.read[i])}
    BY <2>2, <2>3 DEF ValidRows
  <2>5. c.exit = "0" <=> ExpectationMet(c) /\ ValidRows(c) = rows /\ ~review_required(c)
    BY <2>1, <2>2 DEF ExitCode, Batch
  <2> HIDE DEF c, Alone
  <2>6. ValidRows(c) = rows =>
          (review_required(c) <=>
              \E i, j \in rows :
                 c.read[i].action = c.read[j].action /\ c.read[i].proof # c.read[j].proof)
    BY <2>1, <2>2, ReviewRequired
  <2>7. ValidRows(c) = rows =>
          (ExpectationMet(c) <=>
              (c.command.required # "none" => \A i \in rows : c.read[i].proof = c.command.required))
    BY <2>2 DEF ExpectationMet
  <2>8. ValidRows(c) = rows <=> \A i \in rows : Alone(c.read[i])
    BY <2>4
  <2>9. c.exit = "0" <=>
           /\ \A i \in rows : Alone(c.read[i])
           /\ \A i, j \in rows :
                 c.read[i].action = c.read[j].action => c.read[i].proof = c.read[j].proof
           /\ c.command.required # "none" =>
                 \A i \in rows : c.read[i].proof = c.command.required
    BY <2>5, <2>6, <2>7, <2>8
  <2> QED
    BY <2>2, <2>4, <2>9 DEF c, Alone
<1> QED
  BY <1>1, Invariant, BatchInvariant, PTL

(* No step replaces or alters what a path holds, but for others writing    *)
(* where no process has published.                                         *)
THEOREM NothingIsReplaced == CommandSpec => NothingReplaced
<1> DEFINE Keeps == \A path \in Path :
              files'[path] # files[path] =>
                 publisher[path] = Nobody /\ (publisher'[path] # Nobody => files[path] = NoFile)
<1>1. Inv /\ [CommandNext]_cvars => [Keeps]_cvars
  <2> SUFFICES ASSUME Inv, CommandNext, NEW path \in Path, files'[path] # files[path]
               PROVE  publisher[path] = Nobody /\ (publisher'[path] # Nobody => files[path] = NoFile)
    BY DEF Keeps
  <2>1. CASE OthersPlace
    <3>1. PICK q \in Path, d \in Placeable : Place(q, d)
      BY <2>1 DEF OthersPlace
    <3>2. q = path
      BY <3>1 DEF Place, Inv, FilesTypeOK
    <3> QED
      BY <3>1, <3>2 DEF Place
  <2>2. CASE ~OthersPlace
    <3>1. PICK p \in Process : Runs(p)
      BY <2>2 DEF CommandNext
    <3>2. LinkStaged(p, crctl[p].command.out, crctl[p].text)
      BY <3>1 DEF Runs, Start, LoadTrust, ReadInput, Conclude, Stage, Write, Link, Clean,
                  PrintResult, Crash, fvars, MakeStaging, WriteStaged, RemoveStaging
    <3>3. crctl[p].command.out = path
      BY <3>2 DEF LinkStaged, Inv, FilesTypeOK
    <3>4. files[path] = NoFile
      BY <3>2, <3>3 DEF LinkStaged, Vacant
    <3>5. GoodPath(path)
      BY DEF Inv
    <3> QED
      BY <3>4, <3>5 DEF GoodPath, Publishes
  <2> QED
    BY <2>1, <2>2
<1> QED
  BY <1>1, Invariant, PTL DEF CommandSpec, NothingReplaced
===============================================================================
