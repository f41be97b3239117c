-------------------------- MODULE WireAttachProofs --------------------------
(***************************************************************************)
(* For any set of executables, whatever symbols they have, the links in the*)
(* kernel are the ones on record (WireAttach, LinksAreKnown).  What makes  *)
(* that inductive: one executable at most is in hand, attached and not     *)
(* recorded yet; it is not on record already; and there is none between    *)
(* two scans.  The mutex of the code gives none of this, as it is released *)
(* between the look at the record and the change of it; that one goroutine *)
(* at a time scans does.                                                   *)
(***************************************************************************)
EXTENDS WireAttach, FiniteSetTheorems, TLAPS

\* 1 when e is in the set, else 0.
Member(e, set) == IF e \in set THEN 1 ELSE 0

\* LinksAreKnown without cardinalities, and what makes it inductive.
LinksInv ==
    /\ links \in [Executable -> Nat]
    /\ current \subseteq Executable /\ attached \subseteq Executable
    /\ current \intersect attached = {}
    /\ \A x, y \in current : x = y
    /\ scanner = "none" => current = {}
    /\ \A e \in Executable : links[e] = Member(e, attached) + Member(e, current)

\* How many of {e} are in a set.
LEMMA MemberIsCardinality ==
    ASSUME NEW set, NEW e
    PROVE  Cardinality(set \intersect {e}) = Member(e, set)
  <1>1. CASE e \in set
    <2>1. set \intersect {e} = {e}
      BY <1>1
    <2> QED
      BY <1>1, <2>1, FS_Singleton DEF Member
  <1>2. CASE e \notin set
    <2>1. set \intersect {e} = {}
      BY <1>2
    <2> QED
      BY <1>2, <2>1, FS_EmptySet DEF Member
  <1> QED
    BY <1>1, <1>2

\* A step that leaves links, record and hand alone, and begins or ends no scan
\* with an executable in hand.
LEMMA SameLinks ==
    ASSUME LinksInv, UNCHANGED <<links, attached, current>>,
           scanner' = scanner \/ current = {}
    PROVE  LinksInv'
  BY DEF LinksInv, Member

\* An attach puts the executable in hand and one set of links in the kernel.
LEMMA AttachKeepsLinks ==
    ASSUME LinksInv, NEW x \in Executable, Attach(x)
    PROVE  LinksInv'
  <1> USE DEF LinksInv, Attach
  <1>1. links' \in [Executable -> Nat]
    OBVIOUS
  <1>2. ASSUME NEW e \in Executable
        PROVE  links'[e] = Member(e, attached') + Member(e, current')
    <2>1. CASE e = x
      <3>1. links'[e] = links[e] + 1 /\ links[e] = Member(e, attached) + Member(e, current)
        BY <2>1
      <3>2. Member(e, attached) = 0 /\ Member(e, current) = 0 /\ Member(e, current') = 1
        BY <2>1 DEF Member
      <3> QED
        BY <3>1, <3>2
    <2>2. CASE e # x
      <3>1. links'[e] = links[e]
        BY <2>2
      <3>2. Member(e, current') = Member(e, current)
        BY <2>2 DEF Member
      <3> QED
        BY <3>1, <3>2
    <2> QED
      BY <2>1, <2>2
  <1> QED
    BY <1>1, <1>2

\* The record takes the executable out of hand.
LEMMA RecordKeepsLinks ==
    ASSUME LinksInv, NEW x \in Executable, Record(x)
    PROVE  LinksInv'
  <1> USE DEF LinksInv, Record
  <1>1. ASSUME NEW e \in Executable
        PROVE  Member(e, attached') + Member(e, current')
                  = Member(e, attached) + Member(e, current)
    BY DEF Member
  <1> QED
    BY <1>1

\* Close closes the links of what is on record; the executable a scan has in
\* hand keeps its own.
LEMMA CloseKeepsLinks ==
    ASSUME LinksInv, Close
    PROVE  LinksInv'
  <1>1. /\ links' = [e \in Executable |-> links[e] - Member(e, attached)]
        /\ attached' = {} /\ current' = current /\ scanner' = scanner
    BY DEF Close, scanVars, Member
  <1>2. ASSUME NEW e \in Executable
        PROVE  /\ links'[e] \in Nat
               /\ links'[e] = Member(e, attached') + Member(e, current')
    <2>1. /\ links[e] = Member(e, attached) + Member(e, current)
          /\ links'[e] = links[e] - Member(e, attached)
      BY <1>1 DEF LinksInv
    <2>2. Member(e, attached') = 0 /\ Member(e, current') = Member(e, current)
      BY <1>1 DEF Member
    <2>3. Member(e, attached) \in {0, 1} /\ Member(e, current) \in {0, 1}
      BY DEF Member
    <2> QED
      BY <2>1, <2>2, <2>3
  <1>3. links' \in [Executable -> Nat]
    BY <1>1, <1>2
  <1> QED
    BY <1>1, <1>2, <1>3 DEF LinksInv

\* Every step keeps the invariant.
LEMMA NextKeepsLinks ==
    ASSUME LinksInv, [Next]_vars
    PROVE  LinksInv'
  <1>1. ASSUME NEW e \in Executable, Attach(e)
        PROVE  LinksInv'
    BY <1>1, AttachKeepsLinks
  <1>2. ASSUME NEW e \in Executable, Record(e)
        PROVE  LinksInv'
    BY <1>2, RecordKeepsLinks
  <1>3. CASE Close
    BY <1>3, CloseKeepsLinks
  \* A scan begins when none is under way, with no executable in hand.
  <1>4. CASE Tick
    <2>1. current = {}
      BY <1>4 DEF Tick, LinksInv
    <2> QED
      BY <1>4, <2>1, SameLinks DEF Tick, BeginScan
  \* A scan ends with no executable in hand.
  <1>5. CASE LoopScanEnds \/ Opened \/ OpenFails
    BY <1>5, SameLinks DEF LoopScanEnds, Opened, OpenFails, ScanOver, EndScan
  <1>6. ASSUME NEW e \in Executable,
               Appear(e) \/ Vanish(e) \/ SkipTarget(e) \/ AttachFails(e)
        PROVE  LinksInv'
    BY <1>6, SameLinks DEF Appear, Vanish, SkipTarget, AttachFails, scanVars, LinksInv
  <1>7. CASE LoopStops \/ CloseObjects \/ Cancel \/ Signal \/ UNCHANGED vars
    BY <1>7, SameLinks DEF LoopStops, CloseObjects, Cancel, Signal, scanVars, vars, LinksInv
  <1> QED
    BY <1>1, <1>2, <1>3, <1>4, <1>5, <1>6, <1>7 DEF Next, ScanStep

\* The links in the kernel are those of the executables on record, one set
\* each, and of the one in hand, for any number of executables, however attach
\* loop, Close and the system interleave (runtime.go, refreshAttachments).
THEOREM LinksAreKnownAlways == Spec => []LinksAreKnown
  <1>1. Init => LinksInv
    BY DEF Init, LinksInv, Member
  <1>2. LinksInv /\ [Next]_vars => LinksInv'
    BY NextKeepsLinks
  <1>3. LinksInv => LinksAreKnown
    BY MemberIsCardinality DEF LinksInv, LinksAreKnown
  <1> QED
    BY <1>1, <1>2, <1>3, PTL DEF Spec

-----------------------------------------------------------------------------
(* The types and the mode on display                                       *)

\* What is attached has one of four modes, and nothing attached has none.
LEMMA RecomputedFacts ==
    ASSUME NEW set \in SUBSET Executable,
           attachedAs \in [Executable -> {"secure", "be_tls", "none"}]
    PROVE  /\ Recomputed(set) \in {"secure", "be_tls", "mixed", "none"}
           /\ set = {} => Recomputed(set) = "none"
  <1> DEFINE modes == {attachedAs[e] : e \in set} \ {"none"}
  <1>1. modes \subseteq {"secure", "be_tls"}
    OBVIOUS
  <1>2. Recomputed(set) =
          CASE modes = {} -> "none"
            [] modes = {"secure", "be_tls"} -> "mixed"
            [] OTHER -> CHOOSE m \in modes : modes = {m}
    BY DEF Recomputed
  <1>3. set = {} => modes = {}
    OBVIOUS
  <1> HIDE DEF modes
  <1>4. \/ modes = {}
        \/ modes = {"secure", "be_tls"}
        \/ modes = {"secure"}
        \/ modes = {"be_tls"}
    BY <1>1
  <1>5. ASSUME NEW m, modes = {m}, m \in {"secure", "be_tls"}
        PROVE  Recomputed(set) = m
    <2>1. modes # {} /\ modes # {"secure", "be_tls"}
      BY <1>5
    <2>2. (CHOOSE x \in modes : modes = {x}) = m
      BY <1>5
    <2> QED
      BY <1>2, <2>1, <2>2
  <1>6. modes = {} => Recomputed(set) = "none"
    BY <1>2
  <1>7. modes = {"secure", "be_tls"} => Recomputed(set) = "mixed"
    BY <1>2
  <1> QED
    BY <1>3, <1>4, <1>5, <1>6, <1>7

\* The mode depends on how what is on record was attached, and on nothing else.
LEMMA SameMode ==
    ASSUME attached' = attached, \A e \in attached : attachedAs'[e] = attachedAs[e]
    PROVE  Recomputed(attached)' = Recomputed(attached)
  <1>1. {attachedAs'[e] : e \in attached} = {attachedAs[e] : e \in attached}
    OBVIOUS
  <1> QED
    BY <1>1 DEF Recomputed

\* The types without the cardinality, which LinksInv gives.
AttachInv ==
    /\ waitForPostgres \in BOOLEAN /\ mayFail \in BOOLEAN
    /\ present \subseteq Executable
    /\ main \in {"open", "running", "close", "cancel", "closed", "failed"}
    /\ scanner \in {"none", "open", "loop"}
    /\ looping \in BOOLEAN
    /\ todo \subseteq Executable
    /\ failed \in BOOLEAN
    /\ attachedAs \in [Executable -> {"secure", "be_tls", "none"}]
    /\ mode \in {"secure", "be_tls", "mixed", "none"}
    /\ ModeMatches
    /\ loaded \in BOOLEAN /\ ctxDone \in BOOLEAN

\* The variables keep their types, one executable at most is in hand, and the
\* mode on display is that of what is attached: the record and the mode change
\* together, under the mutex (refreshAttachments, recomputeAttachModeLocked), and
\* Close, which leaves the mode behind, comes after the program has run.
THEOREM TypeCorrect == Spec => []TypeOK
  <1>1. Init => LinksInv /\ AttachInv
    <2> SUFFICES ASSUME Init PROVE LinksInv /\ AttachInv
      OBVIOUS
    <2>1. LinksInv
      BY DEF Init, LinksInv, Member
    <2>2. /\ attachedAs \in [Executable -> {"secure", "be_tls", "none"}]
          /\ mode = Recomputed(attached)
      <3>1. attachedAs \in [Executable -> {"secure", "be_tls", "none"}]
        BY DEF Init
      <3> QED
        BY <3>1, RecomputedFacts DEF Init
    <2>3. /\ waitForPostgres \in BOOLEAN /\ mayFail \in BOOLEAN
          /\ looping \in BOOLEAN /\ failed \in BOOLEAN
          /\ loaded \in BOOLEAN /\ ctxDone \in BOOLEAN
      BY DEF Init
    <2>4. /\ present \subseteq Executable /\ todo \subseteq Executable
          /\ main = "open" /\ scanner = "open" /\ mode = "none"
      BY DEF Init
    <2> QED
      BY <2>1, <2>2, <2>3, <2>4 DEF AttachInv, ModeMatches
  <1>2. LinksInv /\ AttachInv /\ [Next]_vars => LinksInv' /\ AttachInv'
    <2> SUFFICES ASSUME LinksInv, AttachInv, [Next]_vars
                 PROVE  AttachInv'
      BY NextKeepsLinks
    <2> USE DEF AttachInv, ModeMatches, options, scanVars
    <2>1. ASSUME NEW e \in Executable, Record(e)
          PROVE  AttachInv'
      <3>1. attached' \in SUBSET Executable /\ mode' = Recomputed(attached')
        BY <2>1 DEF Record, LinksInv
      <3>2. mode' \in {"secure", "be_tls", "mixed", "none"}
        BY <3>1, RecomputedFacts
      <3>3. mode' = Recomputed(attached)'
        BY <2>1, <3>1 DEF Record, Recomputed
      <3> QED
        BY <2>1, <3>2, <3>3 DEF Record
    <2>2. ASSUME NEW e \in Executable,
                 Appear(e) \/ Vanish(e) \/ SkipTarget(e)
          PROVE  AttachInv'
      BY <2>2, SameMode DEF Appear, Vanish, SkipTarget
    \* The mode of what is on record stays: the executable in hand is not there yet.
    <2>10. ASSUME NEW e \in Executable, Attach(e)
           PROVE  AttachInv'
      <3>1. PICK m \in SymbolsOf[e] : attachedAs' = [attachedAs EXCEPT ![e] = m]
        BY <2>10 DEF Attach
      <3>2. m \in {"secure", "be_tls"}
        BY <3>1, SymbolsAssumption
      <3>3. attachedAs' \in [Executable -> {"secure", "be_tls", "none"}]
        BY <3>1, <3>2
      <3>4. \A x \in attached : attachedAs'[x] = attachedAs[x]
        BY <2>10, <3>1 DEF Attach, LinksInv
      <3>5. attached' = attached /\ mode' = mode /\ main' = main
        BY <2>10 DEF Attach
      <3>6. Recomputed(attached)' = Recomputed(attached)
        BY <3>4, <3>5, SameMode
      <3> QED
        BY <2>10, <3>3, <3>5, <3>6 DEF Attach
    <2>3. ASSUME NEW e \in Executable, AttachFails(e)
          PROVE  AttachInv'
      <3>1. failed' \in BOOLEAN
        BY <2>3 DEF AttachFails
      <3>2. /\ todo' \subseteq Executable
            /\ UNCHANGED <<waitForPostgres, mayFail, present, main, scanner,
                           looping, attached, attachedAs, mode, loaded, ctxDone>>
        BY <2>3 DEF AttachFails
      <3> QED
        BY <3>1, <3>2, SameMode
    <2>4. CASE Tick
      <3>1. failed' \in BOOLEAN
        BY <2>4 DEF Tick, BeginScan
      <3>2. /\ scanner' = "loop" /\ todo' \subseteq Executable
            /\ UNCHANGED <<options, present, main, looping, attached, attachedAs, mode,
                           loaded, ctxDone>>
        BY <2>4 DEF Tick, BeginScan
      <3> QED
        BY <3>1, <3>2, SameMode
    <2>5. CASE LoopStops
      <3>1. looping' \in BOOLEAN
        BY <2>5 DEF LoopStops
      <3>2. UNCHANGED <<waitForPostgres, mayFail, present, main, scanner, todo,
                        failed, attached, attachedAs, mode, loaded, ctxDone>>
        BY <2>5 DEF LoopStops
      <3> QED
        BY <3>1, <3>2, SameMode
    <2>6. CASE LoopScanEnds
      BY <2>6, SameMode DEF LoopScanEnds, EndScan
    <2>7. CASE Opened \/ OpenFails
      BY <2>7, SameMode DEF Opened, OpenFails, EndScan
    <2>8. CASE Close \/ CloseObjects \/ Cancel \/ Signal
      BY ZenonT(60), <2>8, SameMode DEF Close, CloseObjects, Cancel, Signal
    <2>9. CASE UNCHANGED vars
      BY <2>9, SameMode DEF vars
    <2> QED
      BY <2>1, <2>2, <2>4, <2>5, <2>6, <2>7, <2>8, <2>9, <2>3, <2>10
         DEF Next, ScanStep
  <1>3. LinksInv /\ AttachInv => TypeOK
    <2> SUFFICES ASSUME LinksInv, AttachInv
                 PROVE  Cardinality(current) <= 1
      BY DEF LinksInv, AttachInv, TypeOK
    <2>1. CASE current = {}
      BY <2>1, FS_EmptySet
    <2>2. CASE current # {}
      <3>1. PICK e : current = {e}
        BY <2>2 DEF LinksInv
      <3> QED
        BY <3>1, FS_Singleton
    <2> QED
      BY <2>1, <2>2
  <1> QED
    BY <1>1, <1>2, <1>3, PTL DEF Spec
=============================================================================
