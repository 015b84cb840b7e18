-------------------------------- MODULE Boundary --------------------------------
(***************************************************************************)
(* The two ways into the rail from outside a process - the loopback        *)
(* sidecar, and the command line with its files - checked in one run.      *)
(*                                                                         *)
(* They share no variable: every behaviour of both is an interleaving of   *)
(* one of each, and every property speaks of one side only.  So the run    *)
(* takes the sum of the two and not their product: a behaviour begins on   *)
(* one side and stays there, and the other side never leaves its Init.     *)
(***************************************************************************)
EXTENDS HttpServerProperties, CommandProperties

VARIABLE side      \* the side this behaviour is about

bvars == <<side, hvars, cvars>>

audit == Document("audit", "a", "first", "demo", TRUE)
drill == Document("drill", "a", "first", "demo", TRUE)
callersKeys == Document("trust", "a", "first", "caller", TRUE)

(* What others put into the directory: a bundle of an action, one with a   *)
(* history that does not replay, another receipt for the same action, one  *)
(* signed by the caller's own rail, a drill, keys, and no JSON at all.     *)
SomePlaceable ==
    {audit, [audit EXCEPT !.sound = FALSE], [audit EXCEPT !.profile = "receipt", !.proof = "second"],
     [audit EXCEPT !.signer = "caller"], drill, callersKeys, Unreadable}

(* One process publishes to out; the other competes for it, exports or     *)
(* judges what it published, or works on files that change under it.       *)
Receipt == Command("receipt", <<"in">>, "out")
SomeCommands ==
    [p1 |-> {Command("demo", <<>>, "out"),
             [Receipt EXCEPT !.pins = <<audit>>],
             Command("recovery-review", <<"in">>, "out")},
     p2 |-> {[Receipt EXCEPT !.checkpoint = "first", !.trustedKeys = "keys"],
             Command("receipt", <<"out">>, "keys"),
             [Command("verify", <<"in">>, "none") EXCEPT !.required = "first"],
             [Command("verify-many", <<"in", "out">>, "none") EXCEPT !.allowReceipt = TRUE],
             [Command("recovery-verify-many", <<"in", "out">>, "none") EXCEPT !.required = "first"],
             Command("link", <<"in", "out">>, "none")}]

\* No file is at out yet, and keys holds trusted keys or nothing.
BoundaryInit ==
    /\ side \in {"sidecar", "files"}
    /\ HttpInit
    /\ CommandInit
    /\ files["out"] = NoFile /\ files["keys"] \in {NoFile, callersKeys}
    /\ side = "sidecar" => \A path \in Path : files[path] = NoFile

BoundaryNext ==
    \/ side = "sidecar" /\ HttpNext /\ UNCHANGED <<side, cvars>>
    \/ side = "files" /\ CommandNext /\ UNCHANGED <<side, hvars>>

(* HttpFairness, of the sidecar's steps: nothing is required of the other  *)
(* side's behaviours.                                                      *)
OnSidecar(A) == side = "sidecar" /\ A /\ UNCHANGED <<side, cvars>>
BoundaryFairness ==
    \A c \in Connection :
        /\ WF_bvars(OnSidecar(body[c] = "none" /\ ReadWhole(c)))
        /\ WF_bvars(OnSidecar(ReadAborted(c)))
        /\ WF_bvars(OnSidecar(RailAnswers(c)))
        /\ WF_bvars(OnSidecar(TimeOut(c)))

BoundarySpec == BoundaryInit /\ [][BoundaryNext]_bvars /\ BoundaryFairness
=================================================================================
