----------------------------- MODULE WireAttach -----------------------------
(***************************************************************************)
(* How the wire runtime (internal/wire/runtime.go) attaches its probes to  *)
(* PostgreSQL executables: Open scans once, the attach loop of             *)
(* -wait-for-postgres scans again at every tick, Close takes all down.     *)
(* Main (Open, Close) and the attach loop are two goroutines; the mutex    *)
(* covers single reads and writes of `attached', not a whole scan.         *)
(*                                                                         *)
(* Executables come and go in /proc as they like; the scan sees a list of  *)
(* them that may be stale when an executable is attached.                  *)
(***************************************************************************)
EXTENDS Integers, FiniteSets

CONSTANTS
    Executable,         \* executable files, by device and inode
    SymbolsOf           \* the sets of symbols an executable has

ASSUME SymbolsAssumption ==
    SymbolsOf \in [Executable -> SUBSET {"secure", "be_tls"}]

VARIABLES
    waitForPostgres,    \* -wait-for-postgres, fixed at the start
    mayFail,    \* whether attaching may fail though the symbols exist, fixed too
    present,    \* executables that a scan would find now
    main,       \* "open", "running", "close", "cancel", "closed" or "failed"
    scanner,    \* "none", "open" or "loop": who is in refreshAttachments
    looping,    \* whether the attach loop has been started and not stopped
    todo,       \* executables of the scan not looked at yet
    failed,     \* whether an attach of the scan failed
    current,    \* executables attached and not recorded yet: none or one
    attached,   \* the keys of rt.attached
    attachedAs, \* the mode an executable was attached with, the last time
    mode,       \* rt.attachMode
    links,      \* how many sets of links each executable has in the kernel
    loaded,     \* whether the BPF programs are loaded
    ctxDone     \* whether the context is cancelled

options == <<waitForPostgres, mayFail>>
scanVars == <<scanner, todo, failed, current>>
vars == <<options, present, main, scanVars, looping, attached, attachedAs, mode, links, loaded,
          ctxDone>>

\* attachExecutable tries the secure symbols first, and the others when that fails.
CanAttachAs(e, m) ==
    /\ m \in SymbolsOf[e]
    /\ m = "be_tls" /\ "secure" \in SymbolsOf[e] => mayFail

\* recomputeAttachModeLocked
Recomputed(set) ==
    LET modes == {attachedAs[e] : e \in set} \ {"none"}
    IN  CASE modes = {} -> "none"
          [] modes = {"secure", "be_tls"} -> "mixed"
          [] OTHER -> CHOOSE m \in modes : modes = {m}

-----------------------------------------------------------------------------
Appear(e) ==
    /\ e \notin present
    /\ present' = present \union {e}
    /\ UNCHANGED <<options, main, scanVars, looping, attached, attachedAs, mode, links,
                   loaded, ctxDone>>

Vanish(e) ==
    /\ e \in present
    /\ present' = present \ {e}
    /\ UNCHANGED <<options, main, scanVars, looping, attached, attachedAs, mode, links,
                   loaded, ctxDone>>

-----------------------------------------------------------------------------
(* refreshAttachments                                                      *)

BeginScan(who) ==
    /\ scanner' = who
    /\ todo' = present
    /\ failed' = FALSE
    /\ current' = {}

\* Mutant: once something is attached the loop scans no more.
TickUntilAttached ==
    /\ looping /\ scanner = "none" /\ ~ ctxDone
    /\ attached = {}
    /\ BeginScan("loop")
    /\ UNCHANGED <<options, present, main, looping, attached, attachedAs, mode, links,
                   loaded, ctxDone>>

(* The loop's ticker.                                                      *)
Tick ==
    /\ looping /\ scanner = "none" /\ ~ ctxDone
    /\ BeginScan("loop")
    /\ UNCHANGED <<options, present, main, looping, attached, attachedAs, mode, links,
                   loaded, ctxDone>>

(* An executable that is attached already.                                 *)
SkipTarget(e) ==
    /\ scanner # "none" /\ current = {}
    /\ e \in todo /\ e \in attached
    /\ todo' = todo \ {e}
    /\ UNCHANGED <<options, present, main, scanner, failed, current, looping, attached,
                   attachedAs, mode, links, loaded, ctxDone>>

\* Mutant: the executable is attached whether it is or not.
AttachAgain(e) ==
    /\ scanner # "none" /\ current = {}
    /\ e \in todo
    /\ loaded
    /\ \E m \in SymbolsOf[e] :
          CanAttachAs(e, m) /\ attachedAs' = [attachedAs EXCEPT ![e] = m]
    /\ current' = {e}
    /\ links' = [links EXCEPT ![e] = @ + 1]
    /\ todo' = todo \ {e}
    /\ UNCHANGED <<options, present, main, scanner, failed, looping, attached, mode,
                   loaded, ctxDone>>

(* attachExecutable succeeds: the four links are in the kernel.            *)
Attach(e) ==
    /\ scanner # "none" /\ current = {}
    /\ e \in todo /\ e \notin attached
    /\ loaded
    /\ \E m \in SymbolsOf[e] :
          CanAttachAs(e, m) /\ attachedAs' = [attachedAs EXCEPT ![e] = m]
    /\ current' = {e}
    /\ links' = [links EXCEPT ![e] = @ + 1]
    /\ todo' = todo \ {e}
    /\ UNCHANGED <<options, present, main, scanner, failed, looping, attached, mode,
                   loaded, ctxDone>>

(* attachExecutable fails and closes what it opened: no symbols, programs  *)
(* closed, the process gone since the scan, or anything else.              *)
AttachFails(e) ==
    /\ scanner # "none" /\ current = {}
    /\ e \in todo /\ e \notin attached
    /\ SymbolsOf[e] = {} \/ ~ loaded \/ e \notin present \/ mayFail
    /\ failed' = TRUE
    /\ todo' = todo \ {e}
    /\ UNCHANGED <<options, present, main, scanner, current, looping, attached, attachedAs,
                   mode, links, loaded, ctxDone>>

\* Mutant: the mode is that of the executable attached last.
RecordLast(e) ==
    /\ e \in current
    /\ attached' = attached \union {e}
    /\ mode' = attachedAs[e]
    /\ current' = {}
    /\ UNCHANGED <<options, present, main, scanner, todo, failed, looping, attachedAs, links,
                   loaded, ctxDone>>

(* Under the mutex the executable is recorded and the mode recomputed.     *)
Record(e) ==
    /\ e \in current
    /\ attached' = attached \union {e}
    /\ mode' = Recomputed(attached')
    /\ current' = {}
    /\ UNCHANGED <<options, present, main, scanner, todo, failed, looping, attachedAs, links,
                   loaded, ctxDone>>

ScanOver == scanner # "none" /\ todo = {} /\ current = {}

EndScan ==
    /\ scanner' = "none"
    /\ UNCHANGED <<todo, failed, current>>

(* The loop ignores the result.                                            *)
LoopScanEnds ==
    /\ ScanOver /\ scanner = "loop"
    /\ EndScan
    /\ UNCHANGED <<options, present, main, looping, attached, attachedAs, mode, links,
                   loaded, ctxDone>>

(* The context is done; the loop looks between scans only.                 *)
LoopStops ==
    /\ looping /\ scanner = "none" /\ ctxDone
    /\ looping' = FALSE
    /\ UNCHANGED <<options, present, main, scanVars, attached, attachedAs, mode, links, loaded,
                   ctxDone>>

-----------------------------------------------------------------------------
(* Open and Close                                                          *)

OpenResult == IF attached # {} THEN "ok"
              ELSE IF failed THEN "attach error"
              ELSE "no executables"

(* The scan of Open is enough to run; RunEventLoop then starts the attach  *)
(* loop if asked to wait.                                                  *)
Opened ==
    /\ main = "open" /\ ScanOver
    /\ OpenResult = "ok" \/ (OpenResult = "no executables" /\ waitForPostgres)
    /\ EndScan
    /\ main' = "running"
    /\ looping' = waitForPostgres
    /\ UNCHANGED <<options, present, attached, attachedAs, mode, links, loaded, ctxDone>>

OpenFails ==
    /\ main = "open" /\ ScanOver
    /\ \/ OpenResult = "attach error"
       \/ OpenResult = "no executables" /\ ~ waitForPostgres
    /\ EndScan
    /\ main' = "failed"
    /\ loaded' = FALSE
    /\ UNCHANGED <<options, present, looping, attached, attachedAs, mode, links, ctxDone>>

(* Close, under the mutex.                                                 *)
Close ==
    /\ main = "running"
    /\ links' = [e \in Executable |-> links[e] - (IF e \in attached THEN 1 ELSE 0)]
    /\ attached' = {}
    /\ main' = "close"
    /\ UNCHANGED <<options, present, scanVars, looping, attachedAs, mode, loaded, ctxDone>>

(* The rest of Close.                                                      *)
CloseObjects ==
    /\ main = "close"
    /\ loaded' = FALSE
    /\ main' = "cancel"
    /\ UNCHANGED <<options, present, scanVars, looping, attached, attachedAs, mode, links,
                   ctxDone>>

(* The deferred cancel, which runs after Close.                            *)
Cancel ==
    /\ main = "cancel"
    /\ ctxDone' = TRUE
    /\ main' = "closed"
    /\ UNCHANGED <<options, present, scanVars, looping, attached, attachedAs, mode, links,
                   loaded>>

(* A signal, at any time while the program runs.                           *)
Signal ==
    /\ main = "running" /\ ~ ctxDone
    /\ ctxDone' = TRUE
    /\ UNCHANGED <<options, present, main, scanVars, looping, attached, attachedAs, mode, links,
                   loaded>>

-----------------------------------------------------------------------------
Init ==
    /\ waitForPostgres \in BOOLEAN /\ mayFail \in BOOLEAN
    /\ present \in SUBSET Executable
    /\ main = "open"
    /\ scanner = "open" /\ todo = present /\ failed = FALSE /\ current = {}
    /\ looping = FALSE
    /\ attached = {} /\ attachedAs = [e \in Executable |-> "none"] /\ mode = "none"
    /\ links = [e \in Executable |-> 0]
    /\ loaded = TRUE
    /\ ctxDone = FALSE

ScanStep ==
    \/ \E e \in Executable :
          SkipTarget(e) \/ Attach(e) \/ AttachFails(e) \/ Record(e)
    \/ LoopScanEnds

Next ==
    \/ \E e \in Executable : Appear(e) \/ Vanish(e)
    \/ Tick \/ LoopStops \/ ScanStep
    \/ Opened \/ OpenFails \/ Close \/ CloseObjects \/ Cancel \/ Signal

Spec == Init /\ [][Next]_vars

\* The loop keeps ticking and a scan keeps moving.
FairSpec ==
    /\ Spec
    /\ WF_vars(Tick) /\ WF_vars(LoopStops) /\ WF_vars(ScanStep) /\ WF_vars(Opened)
    /\ WF_vars(CloseObjects) /\ WF_vars(Cancel)

-----------------------------------------------------------------------------
(* Properties                                                              *)

\* While the program runs the mode on display is that of what is attached.
ModeMatches == main \in {"open", "running"} => mode = Recomputed(attached)

\* The variables have their types, one executable is in hand at a time, and the
\* mode on display is that of what is attached.
TypeOK ==
    /\ waitForPostgres \in BOOLEAN /\ mayFail \in BOOLEAN
    /\ present \subseteq Executable
    /\ main \in {"open", "running", "close", "cancel", "closed", "failed"}
    /\ scanner \in {"none", "open", "loop"}
    /\ looping \in BOOLEAN
    /\ todo \subseteq Executable
    /\ failed \in BOOLEAN
    /\ current \subseteq Executable /\ Cardinality(current) <= 1
    /\ attached \subseteq Executable
    /\ attachedAs \in [Executable -> {"secure", "be_tls", "none"}]
    /\ mode \in {"secure", "be_tls", "mixed", "none"}
    /\ links \in [Executable -> Nat]
    /\ ModeMatches
    /\ loaded \in BOOLEAN /\ ctxDone \in BOOLEAN

\* The links in the kernel are those of the executables on record, one set each,
\* and of the one about to be recorded: no executable is probed twice, which
\* would report every chunk twice, and none is recorded without probes.  It
\* holds across Close too, though the loop may be in the middle of a scan.
LinksAreKnown ==
    \A e \in Executable :
        links[e] = Cardinality(attached \intersect {e})
                      + Cardinality(current \intersect {e})

\* -wait-for-postgres "keep running and attach when PostgreSQL processes appear"
\* (cmd/nahuel/main.go): an executable that can be attached and stays is attached
\* while the program runs, unless attaching fails for reasons of its own.
AttachedInTheEnd ==
    \A e \in Executable :
        /\ <>[](main = "running" /\ ~ ctxDone /\ e \in present)
        /\ waitForPostgres /\ ~ mayFail /\ SymbolsOf[e] # {}
        => <>(e \in attached)

\* -wait-for-postgres "keep running and attach when PostgreSQL processes appear":
\* waiting was asked for, so the program does not give up at the start because
\* what it found is no PostgreSQL with symbols or has gone since.
KeepsRunning == waitForPostgres /\ ~ mayFail => main # "failed"

=============================================================================
