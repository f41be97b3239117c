---------------------------- MODULE WireCommand -----------------------------
(***************************************************************************)
(* `nahuel wire' (cmd/nahuel/main.go, runWireCommand) with the event loop  *)
(* of internal/wire/runtime.go (RunEventLoop, Close).  Two goroutines:     *)
(* `loop' reads chunks from the kernel's ring buffer and hands them over a *)
(* bounded channel, `main' selects between the channel, the loop's result, *)
(* the context and a ticker, parses and prints.  A signal may cancel the   *)
(* context at any time.                                                    *)
(*                                                                         *)
(* A select with several ready cases picks any: each case is an action.    *)
(***************************************************************************)
EXTENDS Integers, Sequences

CONSTANTS
    ChanCap,        \* 256, the capacity of chunksCh
    RingCap,        \* chunks that fit the ring buffer
    Limit,          \* -limit, 0 when there is none
    MaxChunks,      \* bound on the chunks the kernel submits
    MaxMatches      \* bound on the matching events of a chunk

ASSUME CapAssumption == ChanCap \in Nat \ {0} /\ RingCap \in Nat \ {0}
ASSUME BoundAssumption ==
    /\ Limit \in Nat
    /\ MaxChunks \in Nat
    /\ MaxMatches \in Nat

VARIABLES
    ring,       \* chunks in the ring buffer
    submitted,  \* chunks submitted so far; they are numbered from 1
    reader,     \* "open" or "closed"
    loop,       \* "read", "hand", "report", "close" or "ended"
    held,       \* the chunk the loop is handing over, 0 when none
    failure,    \* what RunEventLoop returned, "none" before
    errCh,      \* loopErrCh, of capacity 1
    chunksCh,   \* chunksCh
    chClosed,   \* whether chunksCh is closed
    ctxDone,    \* whether the context is cancelled
    main,       \* "select", "print", "close", "cancel" or "exited"
    left,       \* matching events of the current chunk not printed yet
    printed,    \* printed
    result,     \* what runWireCommand returns, "none" before
    taken       \* history: the chunks main took, in order

kernelVars == <<ring, submitted>>
loopVars == <<loop, held, failure>>
mainVars == <<main, left, printed, result, taken>>
vars == <<kernelVars, reader, loopVars, errCh, chunksCh, chClosed, ctxDone,
          mainVars>>

-----------------------------------------------------------------------------
(* The environment                                                         *)

(* A probe submits a chunk; without room it is dropped in the kernel.      *)
Submit ==
    /\ submitted < MaxChunks
    /\ Len(ring) < RingCap
    /\ submitted' = submitted + 1
    /\ ring' = Append(ring, submitted + 1)
    /\ UNCHANGED <<reader, loopVars, errCh, chunksCh, chClosed, ctxDone, mainVars>>

(* SIGINT or SIGTERM.                                                      *)
Signal ==
    /\ ctxDone' = TRUE
    /\ UNCHANGED <<kernelVars, reader, loopVars, errCh, chunksCh, chClosed, mainVars>>

-----------------------------------------------------------------------------
(* The goroutine of RunEventLoop                                           *)

Read ==
    /\ loop = "read" /\ reader = "open" /\ ring # <<>>
    /\ held' = Head(ring)
    /\ ring' = Tail(ring)
    /\ loop' = "hand"
    /\ UNCHANGED <<submitted, reader, failure, errCh, chunksCh, chClosed,
                   ctxDone, mainVars>>

ReadClosed ==
    /\ loop = "read" /\ reader = "closed"
    /\ failure' = "nil"
    /\ loop' = "report"
    /\ UNCHANGED <<kernelVars, reader, held, errCh, chunksCh, chClosed, ctxDone,
                   mainVars>>

(* Read fails: forgiven when the context is done.                          *)
ReadFails ==
    /\ loop = "read" /\ reader = "open"
    /\ failure' = IF ctxDone THEN "nil" ELSE "error"
    /\ loop' = "report"
    /\ UNCHANGED <<kernelVars, reader, held, errCh, chunksCh, chClosed, ctxDone,
                   mainVars>>

(* A record that does not decode ends the loop, done context or not.       *)
DecodeFails ==
    /\ loop = "read" /\ reader = "open" /\ ring # <<>>
    /\ ring' = Tail(ring)
    /\ failure' = "error"
    /\ loop' = "report"
    /\ UNCHANGED <<submitted, reader, held, errCh, chunksCh, chClosed, ctxDone,
                   mainVars>>

\* Mutant: a full channel does not hold the loop up.
HandOverDrops ==
    /\ loop = "hand"
    /\ chunksCh' = IF Len(chunksCh) < ChanCap THEN Append(chunksCh, held)
                                              ELSE chunksCh
    /\ held' = 0
    /\ loop' = "read"
    /\ UNCHANGED <<kernelVars, reader, failure, errCh, chClosed, ctxDone, mainVars>>

HandOver ==
    /\ loop = "hand"
    /\ Len(chunksCh) < ChanCap
    /\ chunksCh' = Append(chunksCh, held)
    /\ held' = 0
    /\ loop' = "read"
    /\ UNCHANGED <<kernelVars, reader, failure, errCh, chClosed, ctxDone, mainVars>>

\* Mutant: the handler waits for room only.
GiveUpNever ==
    /\ FALSE
    /\ UNCHANGED vars

(* The context is done: the chunk is dropped.                              *)
GiveUp ==
    /\ loop = "hand"
    /\ ctxDone
    /\ held' = 0
    /\ loop' = "read"
    /\ UNCHANGED <<kernelVars, reader, failure, errCh, chunksCh, chClosed,
                   ctxDone, mainVars>>

Report ==
    /\ loop = "report"
    /\ errCh = <<>>
    /\ errCh' = <<failure>>
    /\ loop' = "close"
    /\ UNCHANGED <<kernelVars, reader, held, failure, chunksCh, chClosed,
                   ctxDone, mainVars>>

CloseChannel ==
    /\ loop = "close"
    /\ chClosed' = TRUE
    /\ loop' = "ended"
    /\ UNCHANGED <<kernelVars, reader, held, failure, errCh, chunksCh, ctxDone,
                   mainVars>>

-----------------------------------------------------------------------------
(* The goroutine of runWireCommand                                         *)

Leave(res) == main' = "close" /\ result' = res

SelectDone ==
    /\ main = "select"
    /\ ctxDone
    /\ Leave("nil")
    /\ UNCHANGED <<kernelVars, reader, loopVars, errCh, chunksCh, chClosed,
                   ctxDone, left, printed, taken>>

SelectLoopResult ==
    /\ main = "select"
    /\ errCh # <<>>
    /\ Leave(Head(errCh))
    /\ errCh' = <<>>
    /\ UNCHANGED <<kernelVars, reader, loopVars, chunksCh, chClosed, ctxDone,
                   left, printed, taken>>

(* A chunk: the parser and the query decide how many events it prints.     *)
SelectChunk ==
    /\ main = "select"
    /\ chunksCh # <<>>
    /\ taken' = Append(taken, Head(chunksCh))
    /\ chunksCh' = Tail(chunksCh)
    /\ left' \in 0..MaxMatches
    /\ main' = "print"
    /\ UNCHANGED <<kernelVars, reader, loopVars, errCh, chClosed, ctxDone,
                   printed, result>>

SelectClosed ==
    /\ main = "select"
    /\ chunksCh = <<>> /\ chClosed
    /\ Leave("nil")
    /\ UNCHANGED <<kernelVars, reader, loopVars, errCh, chunksCh, chClosed,
                   ctxDone, left, printed, taken>>

\* Mutant: the limit is tested between chunks, not between events.
PrintUnlimited ==
    /\ main = "print" /\ left > 0
    /\ printed' = printed + 1
    /\ left' = left - 1
    /\ IF left = 1 /\ Limit > 0 /\ printed' >= Limit
       THEN /\ ctxDone' = TRUE
            /\ Leave("nil")
       ELSE UNCHANGED <<ctxDone, main, result>>
    /\ UNCHANGED <<kernelVars, reader, loopVars, errCh, chunksCh, chClosed, taken>>

(* Writing the status or an event fails.                                   *)
RenderFails ==
    /\ main = "select" \/ (main = "print" /\ left > 0)
    /\ Leave("error")
    /\ UNCHANGED <<kernelVars, reader, loopVars, errCh, chunksCh, chClosed,
                   ctxDone, left, printed, taken>>

PrintEvent ==
    /\ main = "print" /\ left > 0
    /\ printed' = printed + 1
    /\ left' = left - 1
    /\ IF Limit > 0 /\ printed' >= Limit
       THEN /\ ctxDone' = TRUE
            /\ Leave("nil")
       ELSE UNCHANGED <<ctxDone, main, result>>
    /\ UNCHANGED <<kernelVars, reader, loopVars, errCh, chunksCh, chClosed, taken>>

PrintedAll ==
    /\ main = "print" /\ left = 0
    /\ main' = "select"
    /\ UNCHANGED <<kernelVars, reader, loopVars, errCh, chunksCh, chClosed,
                   ctxDone, left, printed, result, taken>>

(* The deferred calls: runtime.Close, then cancel.                         *)
CloseRuntime ==
    /\ main = "close"
    /\ reader' = "closed"
    /\ main' = "cancel"
    /\ UNCHANGED <<kernelVars, loopVars, errCh, chunksCh, chClosed, ctxDone,
                   left, printed, result, taken>>

Cancel ==
    /\ main = "cancel"
    /\ ctxDone' = TRUE
    /\ main' = "exited"
    /\ UNCHANGED <<kernelVars, reader, loopVars, errCh, chunksCh, chClosed,
                   left, printed, result, taken>>

-----------------------------------------------------------------------------
Init ==
    /\ ring = <<>> /\ submitted = 0
    /\ reader = "open"
    /\ loop = "read" /\ held = 0 /\ failure = "none"
    /\ errCh = <<>> /\ chunksCh = <<>> /\ chClosed = FALSE
    /\ ctxDone = FALSE
    /\ main = "select" /\ left = 0 /\ printed = 0 /\ result = "none"
    /\ taken = <<>>

LoopStep == Read \/ ReadClosed \/ HandOver \/ GiveUp \/ Report \/ CloseChannel

MainStep ==
    \/ SelectDone \/ SelectLoopResult \/ SelectChunk \/ SelectClosed
    \/ PrintEvent \/ PrintedAll \/ CloseRuntime \/ Cancel

Next ==
    \/ Submit \/ Signal
    \/ LoopStep \/ ReadFails \/ DecodeFails
    \/ MainStep \/ RenderFails

Spec == Init /\ [][Next]_vars

\* Both goroutines keep running: the Go scheduler starves none, and neither
\* blocks but where its action is disabled.  Nothing obliges the kernel, the
\* user or a failure.
FairSpec == Spec /\ WF_vars(LoopStep) /\ WF_vars(MainStep)

-----------------------------------------------------------------------------
(* Properties                                                              *)

\* The variables have their types, no buffer holds more than fits, and -limit is
\* kept: no event beyond it is printed, though a chunk may hold several.
TypeOK ==
    /\ ring \in Seq(1..submitted) /\ Len(ring) <= RingCap
    /\ submitted \in 0..MaxChunks
    /\ reader \in {"open", "closed"}
    /\ loop \in {"read", "hand", "report", "close", "ended"}
    /\ held \in 0..submitted
    /\ failure \in {"none", "nil", "error"}
    /\ errCh \in Seq({"nil", "error"}) /\ Len(errCh) <= 1
    /\ chunksCh \in Seq(1..submitted) /\ Len(chunksCh) <= ChanCap
    /\ chClosed \in BOOLEAN /\ ctxDone \in BOOLEAN
    /\ main \in {"select", "print", "close", "cancel", "exited"}
    /\ left \in 0..MaxMatches
    /\ printed \in Nat /\ (Limit > 0 => printed <= Limit)
    /\ result \in {"none", "nil", "error"}
    /\ taken \in Seq(1..submitted)

\* Chunks on their way to the screen, oldest first.
Way == taken \o chunksCh \o (IF held = 0 THEN <<>> ELSE <<held>>) \o ring

\* No chunk overtakes another or is parsed twice, and as long as the context
\* lives and the loop has not failed the parser gets every chunk of the ring
\* buffer: the byte stream that it reassembles has no hole made in user space,
\* full channel or not.
NothingSkipped ==
    /\ \A i, j \in DOMAIN Way : i < j => Way[i] < Way[j]
    /\ (~ ctxDone /\ failure = "none") => Way = [i \in 1..submitted |-> i]

\* A signal, the limit or the end of the event loop ends the command, whatever
\* the two goroutines are doing and however full the channel is, and the event
\* loop does not outlive it: it is neither stuck on the full channel nor on the
\* result nobody waits for.
CommandEnds ==
    /\ (ctxDone \/ loop = "ended") ~> main = "exited"
    /\ main = "exited" ~> loop = "ended"

=============================================================================
