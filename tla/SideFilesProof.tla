---------------------------- MODULE SideFilesProof ----------------------------
(***************************************************************************)
(* The files kept beside the segments.                                     *)
(*                                                                         *)
(* The payload files: no visible reference loses its file, for any         *)
(* contents, any number of clients and any windows of time with            *)
(* Immunity > 2 * Window: the sweep may gather in any order among the      *)
(* ingests, promotions and seals.                                          *)
(*                                                                         *)
(* The logs of annotations and evaluations: no id is answered twice, what  *)
(* was answered survives, nothing dangles and what was erased stays so,    *)
(* for any tenants and bodies, any number of operations, deaths and        *)
(* erasures, and whatever of each file a loss of power keeps.              *)
(***************************************************************************)
EXTENDS Payloads, Evals, TLAPS, FiniteSetTheorems, FunctionTheorems, WellFoundedInduction

\* What stands for no file and no touch is not an age.
NoneIsNoAge == None \notin Nat

Calls == {"idle", "touched", "writing", "stored", "asked", "verified"}
Stages == {"idle", "prune", "buffer", "examples", "segments", "list", "files"}

CallType == [at : Calls, content : Contents \cup {None}, age : 0 .. Window]
SweepType == [at : Stages, age : 0 .. Window, refs : SUBSET Contents, left : SUBSET Contents,
              temps : SUBSET Clients]

Typed ==
    /\ files \in [Contents -> 0 .. Old \cup {None}]
    /\ touched \in [Contents -> 0 .. Immunity \cup {None}]
    /\ buffer \subseteq Span
    /\ segments \subseteq Span
    /\ seal \subseteq Span
    /\ examples \subseteq Contents
    /\ op \in [Clients -> CallType]
    /\ \A p \in Clients : ~At(p, "idle") => op[p].content \in Contents
    /\ sweep \in SweepType

\* A call touched its content when it began, and nobody has pruned it since.
CallsTouch ==
    \A p \in Clients : ~At(p, "idle") =>
        /\ touched[op[p].content] # None
        /\ touched[op[p].content] <= op[p].age

\* A call that has seen or made its file still has it.
CallsStore == \A p \in Clients : op[p].at \in {"stored", "verified"} => Stored(op[p].content)

\* A drain is a copy.
SealIsBuffered == ContentsOf(seal) \subseteq ContentsOf(buffer)

\* What a sweep that has looked there will spare: the gathered, and what a call
\* that was under way, or has begun since, may have put there.
Fresh(c) == touched[c] # None /\ touched[c] <= sweep.age + Window
Spared(c) == c \in sweep.refs \/ Fresh(c)

SweepSpares ==
    /\ sweep.at \in {"examples", "segments", "list", "files"} =>
           \A c \in ContentsOf(buffer) : Spared(c)
    /\ sweep.at \in {"segments", "list", "files"} => \A c \in examples : Spared(c)
    /\ sweep.at \in {"list", "files"} => \A c \in ContentsOf(segments) : Spared(c)

Inv ==
    /\ Typed
    /\ CallsTouch
    /\ CallsStore
    /\ SealIsBuffered
    /\ SweepSpares
    /\ BodiesAreKept

----------------------------------------------------------------------------

(* Ages grow to their bound and what is missing stays missing (Later).     *)
LEMMA LaterAge ==
    ASSUME NoneIsNoAge, NEW bound \in Nat, NEW age \in 0 .. bound \cup {None}
    PROVE  /\ Later(age, bound) \in 0 .. bound \cup {None}
           /\ Later(age, bound) = None <=> age = None
           /\ age # None /\ age < bound => Later(age, bound) = age + 1
BY DEF NoneIsNoAge, Later

(* Time does not change what spans refer to (Aged).                        *)
LEMMA AgedRefersAlike ==
    ASSUME NoneIsNoAge, NEW some \in SUBSET Span
    PROVE  /\ Aged(some) \in SUBSET Span
           /\ ContentsOf(Aged(some)) = ContentsOf(some)
<1>1. Old \in Nat
  BY PayloadsAssumption DEF Old
<1>2. ASSUME NEW s \in some
      PROVE  /\ [s EXCEPT !.age = Later(@, Old)] \in Span
             /\ [s EXCEPT !.age = Later(@, Old)].content = s.content
  <2>1. Later(s.age, Old) \in 0 .. Old
    BY <1>1, LaterAge DEF Span, NoneIsNoAge
  <2> QED
    BY <2>1 DEF Span
<1>3. Aged(some) \in SUBSET Span
  BY <1>2 DEF Aged
<1>4. ContentsOf(Aged(some)) = ContentsOf(some)
  BY <1>2 DEF Aged, ContentsOf
<1> QED
  BY <1>3, <1>4

(* A prune keeps whatever a call may still rely on, and what a sweep that  *)
(* is not over has missed: 2 * Window is short of Immunity.                *)
LEMMA PrunedKeeps ==
    ASSUME Typed, NoneIsNoAge, NEW c \in Contents, touched[c] # None,
           touched[c] <= 2 * Window
    PROVE  Pruned[c] = touched[c]
BY PayloadsAssumption DEF Typed, Pruned, NoneIsNoAge

(* A directory starts with no files and nobody at work.                    *)
LEMMA InvInit == Init => Inv
<1> SUFFICES ASSUME Init PROVE Inv
  OBVIOUS
<1> USE PayloadsAssumption DEF Init
<1>1. Typed
  <2>1. Idle \in CallType /\ Idle.at = "idle"
    BY DEF Idle, CallType, Calls
  <2>2. NotSweeping \in SweepType
    BY DEF NotSweeping, SweepType, Stages
  <2> QED
    BY <2>1, <2>2 DEF Typed, At
<1>2. CallsTouch /\ CallsStore
  BY DEF CallsTouch, CallsStore, At, Idle
<1>3. SealIsBuffered /\ SweepSpares /\ BodiesAreKept
  BY DEF SealIsBuffered, SweepSpares, BodiesAreKept, ContentsOf, NotSweeping
<1> QED
  BY <1>1, <1>2, <1>3 DEF Inv

(* Every action keeps the types.                                           *)
LEMMA TypedStep ==
    ASSUME Typed, NoneIsNoAge, [Next]_vars
    PROVE  Typed'
<1>0. Old \in Nat /\ 0 \in 0 .. Window /\ 0 \in 0 .. Old /\ 0 \in 0 .. Immunity
  BY PayloadsAssumption DEF Old
<1>a. Idle \in CallType /\ Idle.at = "idle" /\ NotSweeping \in SweepType
  BY <1>0 DEF Idle, CallType, Calls, NotSweeping, SweepType, Stages
<1>b. \A p \in Clients : op[p] \in CallType
  BY DEF Typed
<1>c. Pruned \in [Contents -> 0 .. Immunity \cup {None}]
  BY DEF Typed, Pruned
<1>1. CASE UNCHANGED vars
  BY <1>1 DEF vars, spans, Typed, At
<1>2. ASSUME NEW p \in Clients, NEW c \in Contents, NEW place \in {"touched", "asked"},
             Begin(p, c, place)
      PROVE  Typed'
  <2>1. [at |-> place, content |-> c, age |-> 0] \in CallType
    BY <1>0 DEF CallType, Calls
  <2> QED
    BY <1>2, <1>0, <2>1 DEF Begin, Touch, spans, Typed, At
<1>3. ASSUME NEW p \in Clients, NEW place \in Calls \ {"idle"}, Goto(p, place),
             ~At(p, "idle"), UNCHANGED <<touched, spans, sweep>>,
             files' \in [Contents -> 0 .. Old \cup {None}]
      PROVE  Typed'
  BY <1>3, <1>b DEF Goto, At, spans, Typed, CallType
<1>4. ASSUME NEW p \in Clients, CheckFile(p) PROVE Typed'
  BY <1>4, <1>3 DEF CheckFile, At, Typed, Calls
<1>5. ASSUME NEW p \in Clients, RenameFile(p) PROVE Typed'
  <2>1. op[p].age <= Old /\ op[p].age \in Nat /\ op[p].content \in Contents
    BY <1>5, <1>b, PayloadsAssumption DEF CallType, Old, RenameFile, At, Typed
  <2>2. files' \in [Contents -> 0 .. Old \cup {None}]
    BY <1>5, <1>0, <2>1 DEF RenameFile, Typed
  <2> QED
    BY <1>5, <1>3, <2>2 DEF RenameFile, At, Calls
<1>6. ASSUME NEW p \in Clients, op' = [op EXCEPT ![p] = Idle],
             UNCHANGED <<files, touched, segments, seal, sweep>>,
             buffer' \subseteq Span, examples' \subseteq Contents
      PROVE  Typed'
  BY <1>6, <1>a DEF At, Typed
<1>7. ASSUME NEW p \in Clients, Admit(p) PROVE Typed'
  <2>1. ASSUME NEW a \in 0 .. Ttl
        PROVE  [content |-> op[p].content, age |-> a] \in Span
    BY <1>7, PayloadsAssumption DEF Span, Old, Admit, At, Typed
  <2> QED
    BY <1>7, <1>6, <2>1 DEF Admit, Typed
<1>8. ASSUME NEW p \in Clients, Refuse(p) PROVE Typed'
  BY <1>8, <1>6 DEF Refuse, Typed, spans
<1>9. ASSUME NEW p \in Clients, VerifyRef(p) PROVE Typed'
  <2>1. CASE Stored(op[p].content)
    <3>1. Goto(p, "verified")
      BY <1>9, <2>1 DEF VerifyRef, Goto
    <3> QED
      BY <1>9, <1>3, <3>1 DEF VerifyRef, Calls, At, Typed
  <2>2. CASE ~Stored(op[p].content)
    BY <1>9, <1>6, <2>2 DEF VerifyRef, Typed, spans
  <2> QED
    BY <2>1, <2>2
<1>10. ASSUME NEW p \in Clients, CreateDatasetVersion(p) PROVE Typed'
  BY <1>10, <1>6 DEF CreateDatasetVersion, Typed, At
<1>11. ASSUME Drain \/ Publish \/ Evict PROVE Typed'
  BY <1>11 DEF Drain, Publish, Evict, Typed, At
<1>12. ASSUME Sweep PROVE Typed'
  <2>1. ASSUME sweep' \in SweepType, UNCHANGED <<examples, seal, op>>,
               buffer' \subseteq Span, segments' \subseteq Span,
               files' \in [Contents -> 0 .. Old \cup {None}],
               touched' \in [Contents -> 0 .. Immunity \cup {None}]
        PROVE  Typed'
    BY <2>1 DEF Typed, At
  <2>2. CASE Expire
    BY <2>1, <2>2, <1>0 DEF Expire, Step, Typed, NotSweeping, SweepType, Stages
  <2>3. CASE Prune
    BY <2>1, <2>3, <1>c DEF Prune, Step, Typed, SweepType, Stages, spans
  <2>4. ASSUME NEW from \in Stages, NEW to \in Stages, NEW some \in SUBSET Contents,
               Gather(from, to, some)
        PROVE  Typed'
    BY <2>1, <2>4 DEF Gather, Step, Typed, SweepType, spans
  <2>5. CASE GatherBuffer \/ GatherExamples \/ GatherSegments
    <3>1. ContentsOf(buffer) \in SUBSET Contents /\ ContentsOf(segments) \in SUBSET Contents
      BY DEF Typed, ContentsOf, Span
    <3> QED
      BY <2>5, <2>4, <3>1 DEF GatherBuffer, GatherExamples, GatherSegments, Stages, Typed
  <2>6. CASE ListFiles
    BY <2>1, <2>6, <1>c DEF ListFiles, Step, Typed, SweepType, Stages, spans
  <2>7. ASSUME NEW c \in Contents, SweepFile(c) PROVE Typed'
    BY <2>1, <2>7 DEF SweepFile, Step, Typed, SweepType, Stages, spans
  <2>8. CASE EndSweep \/ SweepFails
    BY <2>1, <2>8, <1>a DEF EndSweep, SweepFails, Step, Typed, spans
  <2> QED
    BY <1>12, <2>2, <2>3, <2>5, <2>6, <2>7, <2>8 DEF Sweep
<1>13. ASSUME Restart PROVE Typed'
  BY <1>13, <1>a DEF Restart, Typed, At
<1>14. ASSUME Tick PROVE Typed'
  <2>1. files' \in [Contents -> 0 .. Old \cup {None}]
    BY <1>14, <1>0, LaterAge DEF Tick, Typed
  <2>2. touched' \in [Contents -> 0 .. Immunity \cup {None}]
    BY <1>14, PayloadsAssumption, LaterAge DEF Tick, Typed
  <2>3. buffer' \subseteq Span /\ segments' \subseteq Span /\ seal' \subseteq Span
    BY <1>14, AgedRefersAlike DEF Tick, Typed
  <2>4. /\ op' \in [Clients -> CallType]
        /\ \A p \in Clients : ~At(p, "idle")' => op'[p].content \in Contents
    <3>1. ASSUME NEW p \in Clients
          PROVE  /\ op'[p] \in CallType
                 /\ ~At(p, "idle")' => op'[p].content \in Contents
      BY <1>14, <1>a, <1>b, PayloadsAssumption DEF Tick, Typed, CallType, At
    <3> QED
      BY <3>1, <1>14 DEF Tick
  <2>5. sweep' \in SweepType
    BY <1>14, PayloadsAssumption DEF Tick, Typed, SweepType
  <2> QED
    BY <1>14, <2>1, <2>2, <2>3, <2>4, <2>5 DEF Tick, Typed, At
<1> QED
  BY <1>1, <1>2, <1>4, <1>5, <1>7, <1>8, <1>9, <1>10, <1>11, <1>12, <1>13, <1>14
     DEF Next, Finish, Offload, Promote

(* Facts of the invariant in the form the steps use.                       *)
LEMMA CallFacts ==
    ASSUME Inv, NEW p \in Clients, ~At(p, "idle")
    PROVE  /\ op[p].content \in Contents
           /\ op[p].age \in 0 .. Window
           /\ touched[op[p].content] # None
           /\ touched[op[p].content] \in 0 .. Window
           /\ Fresh(op[p].content)
<1>1. op[p] \in CallType /\ sweep.age \in 0 .. Window /\ op[p].content \in Contents
  BY DEF Inv, Typed, SweepType
<1>2. touched[op[p].content] # None /\ touched[op[p].content] <= op[p].age
  BY DEF Inv, CallsTouch
<1>3. touched[op[p].content] \in Nat
  BY <1>1, <1>2 DEF Inv, Typed
<1> QED
  BY <1>1, <1>2, <1>3, PayloadsAssumption DEF CallType, Fresh

(* Beginning, waiting and failing calls: nothing is referred to that was   *)
(* not, no file goes, and a touch is only ever renewed (store_payload).    *)
LEMMA CallStep ==
    ASSUME Inv, NoneIsNoAge, NEW p \in Clients,
           \/ \E c \in Contents : Offload(p, c) \/ Promote(p, c)
           \/ Finish(p)
    PROVE  CallsTouch' /\ CallsStore' /\ SealIsBuffered' /\ SweepSpares' /\ BodiesAreKept'
<1> USE PayloadsAssumption
<1>a. op \in [Clients -> CallType] /\ files \in [Contents -> 0 .. Old \cup {None}]
      /\ touched \in [Contents -> 0 .. Immunity \cup {None}] /\ sweep \in SweepType
  BY DEF Inv, Typed
<1>b. Idle.at = "idle"
  BY DEF Idle
<1>1. ASSUME NEW c \in Contents, NEW place \in {"touched", "asked"}, Begin(p, c, place)
      PROVE  CallsTouch' /\ CallsStore' /\ SealIsBuffered' /\ SweepSpares' /\ BodiesAreKept'
  <2>1. \A d \in Contents : touched'[d] = IF d = c THEN 0 ELSE touched[d]
    BY <1>1, <1>a DEF Begin, Touch
  <2>2. CallsTouch'
    <3>1. ASSUME NEW q \in Clients, ~At(q, "idle")'
          PROVE  /\ touched'[op'[q].content] # None
                 /\ touched'[op'[q].content] <= op'[q].age
      <4>1. CASE q = p
        BY <4>1, <2>1, <1>1, <1>a DEF Begin, NoneIsNoAge
      <4>2. CASE q # p
        <5>1. op'[q] = op[q] /\ ~At(q, "idle")
          BY <4>2, <3>1, <1>1 DEF Begin, At
        <5> QED
          BY <5>1, <2>1, CallFacts DEF Inv, CallsTouch, NoneIsNoAge
      <4> QED
        BY <4>1, <4>2
    <3> QED
      BY <3>1 DEF CallsTouch
  <2>3. CallsStore'
    BY <1>1, <1>a DEF Begin, Inv, CallsStore, Stored
  <2>4. \A d : d \in Contents /\ Spared(d) => Spared(d)'
    BY <1>1, <1>a, <2>1 DEF Begin, Spared, Fresh, NoneIsNoAge, SweepType
  <2>5. SweepSpares'
    BY <2>4, <1>1 DEF Begin, spans, Inv, SweepSpares, Typed, ContentsOf, Span
  <2>6. SealIsBuffered' /\ BodiesAreKept'
    BY <1>1 DEF Begin, spans, Inv, SealIsBuffered, BodiesAreKept, ContentsOf, Stored
  <2> QED
    BY <2>2, <2>3, <2>5, <2>6
<1>2. ASSUME Goto(p, op'[p].at), op'[p].at # "idle", ~At(p, "idle"),
             UNCHANGED <<touched, spans, sweep>>,
             \A c \in Contents : Stored(c) => Stored(c)',
             op'[p].at \in {"stored", "verified"} => files'[op[p].content] # None
      PROVE  CallsTouch' /\ CallsStore' /\ SealIsBuffered' /\ SweepSpares' /\ BodiesAreKept'
  <2>1. \A q \in Clients : op'[q].content = op[q].content /\ op'[q].age = op[q].age
    BY <1>2, <1>a DEF Goto, CallType
  <2>2. \A q \in Clients : q # p => op'[q] = op[q]
    BY <1>2, <1>a DEF Goto
  <2>3. CallsTouch'
    BY <1>2, <2>1, <2>2 DEF Inv, CallsTouch, At
  <2>4. CallsStore'
    BY <1>2, <2>1, <2>2 DEF Inv, CallsStore, Typed, At, Stored
  <2>5. SweepSpares' /\ SealIsBuffered'
    BY <1>2 DEF spans, Inv, SweepSpares, SealIsBuffered, Spared, Fresh, ContentsOf
  <2>6. BodiesAreKept'
    BY <1>2 DEF spans, Inv, BodiesAreKept, ContentsOf, Typed, Span
  <2> QED
    BY <2>3, <2>4, <2>5, <2>6
<1>3. CASE CheckFile(p)
  <2>1. op'[p].at \in {"stored", "writing"} /\ Goto(p, op'[p].at)
    BY <1>3, <1>a DEF CheckFile, Goto, CallType
  <2>2. op'[p].at = "stored" => Stored(op[p].content)
    BY <1>3, <1>a DEF CheckFile, Goto, CallType
  <2> QED
    BY <1>2, <1>3, <2>1, <2>2 DEF CheckFile, At, Stored
<1>4. CASE RenameFile(p)
  <2>1. op'[p].at = "stored" /\ Goto(p, op'[p].at)
    BY <1>4, <1>a DEF RenameFile, Goto, CallType
  <2>2. op[p].content \in Contents /\ op[p].age \in 0 .. Window
    BY <1>4, CallFacts DEF RenameFile, At
  <2>3. (\A c \in Contents : Stored(c) => Stored(c)') /\ files'[op[p].content] # None
    BY <1>4, <1>a, <2>2 DEF RenameFile, Stored, NoneIsNoAge
  <2> QED
    BY <1>2, <1>4, <2>1, <2>3 DEF RenameFile, At
<1>5. ASSUME op' = [op EXCEPT ![p] = Idle], UNCHANGED <<files, touched, segments, seal, sweep>>,
             ContentsOf(buffer) \subseteq ContentsOf(buffer'),
             \A c \in ContentsOf(buffer') \ ContentsOf(buffer) : Stored(c) /\ Fresh(c),
             \A c \in examples' \ examples : Stored(c) /\ Fresh(c)
      PROVE  CallsTouch' /\ CallsStore' /\ SealIsBuffered' /\ SweepSpares' /\ BodiesAreKept'
  <2>1. CallsTouch' /\ CallsStore'
    BY <1>5, <1>a, <1>b DEF Inv, CallsTouch, CallsStore, At, Stored
  <2>2. SealIsBuffered'
    BY <1>5 DEF Inv, SealIsBuffered, ContentsOf
  <2>3. SweepSpares'
    <3>1. \A c : Spared(c)' <=> Spared(c)
      BY <1>5 DEF Spared, Fresh
    <3>2. ContentsOf(segments)' = ContentsOf(segments) /\ ContentsOf(buffer)' = ContentsOf(buffer')
      BY <1>5 DEF ContentsOf
    <3> QED
      BY <1>5, <3>1, <3>2 DEF Inv, SweepSpares, Spared
  <2>4. BodiesAreKept'
    <3>1. \A c : Stored(c)' <=> Stored(c)
      BY <1>5 DEF Stored
    <3>2. ContentsOf(segments)' = ContentsOf(segments) /\ ContentsOf(buffer)' = ContentsOf(buffer')
      BY <1>5 DEF ContentsOf
    <3> QED
      BY <1>5, <3>1, <3>2 DEF Inv, BodiesAreKept
  <2> QED
    BY <2>1, <2>2, <2>3, <2>4
<1>6. CASE Admit(p)
  <2>1. PICK a \in 0 .. Ttl : buffer' = buffer \cup {[content |-> op[p].content, age |-> a]}
    BY <1>6 DEF Admit
  <2>2. ContentsOf(buffer') = ContentsOf(buffer) \cup {op[p].content}
    <3> DEFINE new == [content |-> op[p].content, age |-> a]
    <3>1. new.content = op[p].content /\ buffer' = buffer \cup {new}
      BY <2>1
    <3> HIDE DEF new
    <3> QED
      BY <3>1 DEF ContentsOf
  <2>3. Stored(op[p].content) /\ Fresh(op[p].content)
    BY <1>6, CallFacts DEF Admit, At, Inv, CallsStore
  <2> QED
    BY <1>5, <1>6, <2>2, <2>3 DEF Admit
<1>7. CASE Refuse(p)
  BY <1>5, <1>7 DEF Refuse, spans
<1>8. CASE VerifyRef(p)
  <2>1. CASE Stored(op[p].content)
    <3>1. op'[p].at = "verified" /\ Goto(p, op'[p].at)
      BY <1>8, <1>a, <2>1 DEF VerifyRef, Goto, CallType
    <3> QED
      BY <1>2, <1>8, <2>1, <3>1 DEF VerifyRef, At, Stored
  <2>2. CASE ~Stored(op[p].content)
    BY <1>5, <1>8, <2>2 DEF VerifyRef, spans
  <2> QED
    BY <2>1, <2>2
<1>9. CASE CreateDatasetVersion(p)
  <2>1. Stored(op[p].content) /\ Fresh(op[p].content)
    BY <1>9, CallFacts DEF CreateDatasetVersion, At, Inv, CallsStore
  <2> QED
    BY <1>5, <1>9, <2>1 DEF CreateDatasetVersion
<1> QED
  BY <1>1, <1>3, <1>4, <1>6, <1>7, <1>8, <1>9 DEF Offload, Promote, Finish

(* A seal moves references that the buffer holds, and lets go of none      *)
(* before the segments have them (seal_with_permit).                       *)
LEMMA SealStep ==
    ASSUME Inv, Drain \/ Publish \/ Evict
    PROVE  CallsTouch' /\ CallsStore' /\ SealIsBuffered' /\ SweepSpares' /\ BodiesAreKept'
<1>1. UNCHANGED <<files, touched, examples, op, sweep>>
  BY DEF Drain, Publish, Evict
<1>2. CallsTouch' /\ CallsStore'
  BY <1>1 DEF Inv, CallsTouch, CallsStore, At, Stored
<1>3. SealIsBuffered'
  BY DEF Drain, Publish, Evict, Inv, SealIsBuffered, ContentsOf
<1>4. /\ ContentsOf(buffer)' \subseteq ContentsOf(buffer)
      /\ ContentsOf(segments)' \subseteq ContentsOf(segments) \cup ContentsOf(seal)
  BY DEF Drain, Publish, Evict, ContentsOf
<1>5. \A c : (Spared(c)' <=> Spared(c)) /\ (Stored(c)' <=> Stored(c))
  BY <1>1 DEF Spared, Fresh, Stored
<1>6. ContentsOf(seal) \subseteq ContentsOf(buffer)
  BY DEF Inv, SealIsBuffered
<1>7. SweepSpares'
  BY <1>1, <1>4, <1>5, <1>6 DEF Inv, SweepSpares
<1>8. BodiesAreKept'
  BY <1>1, <1>4, <1>5, <1>6 DEF Inv, BodiesAreKept
<1> QED
  BY <1>2, <1>3, <1>7, <1>8

(* A prune forgets no touch that a call or the sweep relies on             *)
(* (prune_touch_registry).                                                 *)
LEMMA PruneStep ==
    ASSUME Inv, NoneIsNoAge, touched' = Pruned, UNCHANGED <<op, files>>
    PROVE  /\ CallsTouch' /\ CallsStore'
           /\ \A c \in Contents : Fresh(c) => touched'[c] = touched[c]
<1>1. CallsTouch'
  <2>1. ASSUME NEW p \in Clients, ~At(p, "idle")
        PROVE  touched'[op[p].content] = touched[op[p].content]
    BY <2>1, CallFacts, PrunedKeeps, PayloadsAssumption DEF Inv
  <2> QED
    BY <2>1 DEF Inv, CallsTouch, At
<1>2. CallsStore'
  BY DEF Inv, CallsStore, Stored
<1>3. \A c \in Contents : Fresh(c) => touched'[c] = touched[c]
  <2>1. sweep.age \in 0 .. Window
    BY DEF Inv, Typed, SweepType
  <2>2. ASSUME NEW c \in Contents, Fresh(c) PROVE touched[c] <= 2 * Window
    BY <2>1, <2>2, PayloadsAssumption DEF Fresh, Inv, Typed
  <2> QED
    BY <2>2, PrunedKeeps DEF Inv, Fresh
<1> QED
  BY <1>1, <1>2, <1>3

(* A sweep gathers what is referred to, place by place, and takes only     *)
(* files that nothing it gathered refers to and that nobody has touched    *)
(* (compact_expired, live_payload_refs, sweep_expired).                    *)
LEMMA SweepStep ==
    ASSUME Inv, NoneIsNoAge, Sweep
    PROVE  CallsTouch' /\ CallsStore' /\ SealIsBuffered' /\ SweepSpares' /\ BodiesAreKept'
<1> USE PayloadsAssumption
<1>a. sweep \in SweepType
  BY DEF Inv, Typed
<1>b. NotSweeping.at = "idle"
  BY DEF NotSweeping
<1>c. \A c \in ContentsOf(buffer) \cup ContentsOf(segments) \cup examples : c \in Contents
  BY DEF Inv, Typed, ContentsOf, Span
<1>1. CASE Expire
  <2>1. sweep'.at = "prune"
    BY <1>1, <1>a DEF Expire, Step, NotSweeping
  <2>2. /\ ContentsOf(buffer)' \subseteq ContentsOf(buffer)
        /\ ContentsOf(segments)' \subseteq ContentsOf(segments)
        /\ ContentsOf(seal)' = {}
    BY <1>1 DEF Expire, ContentsOf
  <2>3. CallsTouch' /\ CallsStore'
    BY <1>1 DEF Expire, Inv, CallsTouch, CallsStore, At, Stored
  <2>4. SealIsBuffered' /\ SweepSpares'
    BY <2>1, <2>2 DEF SealIsBuffered, SweepSpares
  <2>5. BodiesAreKept'
    BY <1>1, <2>2 DEF Expire, Inv, BodiesAreKept, Stored
  <2> QED
    BY <2>3, <2>4, <2>5
<1>2. CASE Prune
  <2>1. sweep'.at = "buffer"
    BY <1>2, <1>a DEF Prune, Step, SweepType
  <2>2. CallsTouch' /\ CallsStore'
    BY <1>2, PruneStep DEF Prune
  <2> QED
    BY <1>2, <2>1, <2>2
       DEF Prune, spans, Inv, SealIsBuffered, SweepSpares, BodiesAreKept, ContentsOf, Stored
<1>3. ASSUME NEW from, NEW to, NEW some \in SUBSET Contents, Gather(from, to, some), SweepSpares'
      PROVE  CallsTouch' /\ CallsStore' /\ SealIsBuffered' /\ SweepSpares' /\ BodiesAreKept'
  BY <1>3 DEF Gather, spans, Inv, CallsTouch, CallsStore, SealIsBuffered, BodiesAreKept,
             ContentsOf, Stored, At
<1>4. ASSUME NEW from, NEW to, NEW some \in SUBSET Contents, Gather(from, to, some)
      PROVE  /\ sweep.at = from /\ sweep'.at = to
             /\ \A c : c \in some \/ Spared(c) => Spared(c)'
             /\ ContentsOf(buffer)' = ContentsOf(buffer)
             /\ ContentsOf(segments)' = ContentsOf(segments)
             /\ examples' = examples
  BY <1>4, <1>a DEF Gather, Step, spans, SweepType, Spared, Fresh, ContentsOf
<1>5. CASE GatherBuffer
  <2>1. ContentsOf(buffer) \in SUBSET Contents
    BY <1>c
  <2>2. SweepSpares'
    BY <1>4, <1>5, <2>1 DEF GatherBuffer, SweepSpares
  <2> QED
    BY <1>3, <1>5, <2>1, <2>2 DEF GatherBuffer
<1>6. CASE GatherExamples
  <2>1. examples \in SUBSET Contents
    BY <1>c
  <2>2. SweepSpares'
    BY <1>4, <1>6, <2>1 DEF GatherExamples, SweepSpares, Inv
  <2> QED
    BY <1>3, <1>6, <2>1, <2>2 DEF GatherExamples
<1>7. CASE GatherSegments
  <2>1. ContentsOf(segments) \in SUBSET Contents
    BY <1>c
  <2>2. SweepSpares'
    BY <1>4, <1>7, <2>1 DEF GatherSegments, SweepSpares, Inv
  <2> QED
    BY <1>3, <1>7, <2>1, <2>2 DEF GatherSegments
<1>8. CASE ListFiles
  <2>1. CallsTouch' /\ CallsStore' /\ \A c \in Contents : Fresh(c) => touched'[c] = touched[c]
    BY <1>8, PruneStep DEF ListFiles
  <2>2. sweep'.refs = sweep.refs /\ sweep'.age = sweep.age /\ sweep.at = "list"
    BY <1>8, <1>a DEF ListFiles, Step, SweepType
  <2>3. \A c \in Contents : Spared(c) => Spared(c)'
    BY <2>1, <2>2 DEF Spared, Fresh
  <2>4. SweepSpares'
    BY <1>8, <1>c, <2>2, <2>3 DEF ListFiles, spans, Inv, SweepSpares, ContentsOf
  <2> QED
    BY <1>8, <2>1, <2>4
       DEF ListFiles, spans, Inv, SealIsBuffered, BodiesAreKept, ContentsOf, Stored
<1>9. ASSUME NEW c \in Contents, SweepFile(c)
      PROVE  CallsTouch' /\ CallsStore' /\ SealIsBuffered' /\ SweepSpares' /\ BodiesAreKept'
  <2>1. sweep'.refs = sweep.refs /\ sweep'.age = sweep.age /\ sweep.at = "files"
    BY <1>9, <1>a DEF SweepFile, Step, SweepType
  <2>2. CallsTouch' /\ SealIsBuffered'
    BY <1>9 DEF SweepFile, spans, Inv, CallsTouch, SealIsBuffered, At, ContentsOf
  <2>3. SweepSpares'
    BY <1>9, <2>1 DEF SweepFile, spans, Inv, SweepSpares, Spared, Fresh, ContentsOf
  <2>4. \A d \in Contents : Stored(d) /\ ~(d = c /\ Removable(c)) => Stored(d)'
    BY <1>9 DEF SweepFile, Inv, Typed, Stored
  <2>5. CallsStore'
    <3>1. ASSUME NEW p \in Clients, op[p].at \in {"stored", "verified"}
          PROVE  op[p].content \in Contents /\ ~(op[p].content = c /\ Removable(c))
      BY <3>1, CallFacts DEF At, Removable
    <3>2. op' = op
      BY <1>9 DEF SweepFile
    <3> QED
      BY <2>4, <3>1, <3>2 DEF Inv, CallsStore, Stored
  <2>6. BodiesAreKept'
    <3>1. ASSUME NEW d \in ContentsOf(buffer) \cup ContentsOf(segments) \cup examples
          PROVE  Spared(d)
      BY <2>1, <3>1 DEF Inv, SweepSpares
    <3>2. ASSUME NEW d \in ContentsOf(buffer) \cup ContentsOf(segments) \cup examples
          PROVE  Stored(d)'
      BY <2>4, <3>1, <1>c DEF Inv, BodiesAreKept, Spared, Fresh, Removable
    <3> QED
      BY <1>9, <3>2 DEF SweepFile, spans, BodiesAreKept, ContentsOf
  <2> QED
    BY <2>2, <2>3, <2>5, <2>6
<1>10. CASE EndSweep \/ SweepFails
  <2>1. sweep'.at = "idle"
    BY <1>10, <1>b DEF EndSweep, SweepFails, Step
  <2> QED
    BY <1>10, <2>1 DEF EndSweep, SweepFails, spans, Inv, CallsTouch, CallsStore, SealIsBuffered,
                       SweepSpares, BodiesAreKept, ContentsOf, Stored, At
<1> QED
  BY <1>1, <1>2, <1>5, <1>6, <1>7, <1>8, <1>9, <1>10 DEF Sweep

(* A death forgets the touches with the calls that made them: nothing they *)
(* admitted is without its file (Store::open starts with no registry).     *)
LEMMA RestartStep ==
    ASSUME Inv, Restart
    PROVE  CallsTouch' /\ CallsStore' /\ SealIsBuffered' /\ SweepSpares' /\ BodiesAreKept'
<1>1. \A p \in Clients : op'[p].at = "idle"
  BY DEF Restart, Idle
<1>2. sweep'.at = "idle" /\ seal' = {}
  BY DEF Restart, NotSweeping
<1> QED
  BY <1>1, <1>2 DEF Restart, Inv, CallsTouch, CallsStore, SealIsBuffered, SweepSpares,
                    BodiesAreKept, ContentsOf, Stored, At

(* Time makes a touch no older than the call or the sweep that relies on   *)
(* it, both of which end in time.                                          *)
LEMMA TickStep ==
    ASSUME Inv, NoneIsNoAge, Tick
    PROVE  CallsTouch' /\ CallsStore' /\ SealIsBuffered' /\ SweepSpares' /\ BodiesAreKept'
<1> USE PayloadsAssumption
<1>1. sweep.age \in 0 .. Window /\ sweep \in SweepType
  BY DEF Inv, Typed, SweepType
<1>2. /\ ContentsOf(buffer)' = ContentsOf(buffer)
      /\ ContentsOf(segments)' = ContentsOf(segments)
      /\ ContentsOf(seal)' = ContentsOf(seal)
  BY AgedRefersAlike DEF Tick, Inv, Typed
<1>3. \A c \in Contents : Stored(c) <=> Stored(c)'
  <2>1. Old \in Nat
    BY DEF Old
  <2>2. ASSUME NEW c \in Contents PROVE files[c] = None <=> files'[c] = None
    BY <2>1, LaterAge DEF Tick, Inv, Typed
  <2> QED
    BY <2>2 DEF Stored
<1>4. ASSUME NEW c \in Contents, touched[c] # None, touched[c] <= 2 * Window
      PROVE  touched'[c] # None /\ touched'[c] = touched[c] + 1
  <2>1. touched[c] < Immunity /\ touched[c] \in 0 .. Immunity
    BY <1>4 DEF Inv, Typed
  <2> QED
    BY <1>4, <2>1, LaterAge DEF Tick, NoneIsNoAge
<1>5. CallsTouch' /\ CallsStore'
  <2>1. ASSUME NEW p \in Clients, ~At(p, "idle")'
        PROVE  ~At(p, "idle") /\ op'[p] = [op[p] EXCEPT !.age = @ + 1]
    BY <2>1 DEF Tick, At, Idle
  <2>2. \A p \in Clients : op[p] \in CallType
    BY DEF Inv, Typed
  <2>3. ASSUME NEW p \in Clients, ~At(p, "idle")'
        PROVE  /\ op'[p].at = op[p].at /\ op'[p].content = op[p].content
               /\ op'[p].age = op[p].age + 1
    <3>1. op'[p] = [op[p] EXCEPT !.age = op[p].age + 1] /\ op[p] \in CallType
      BY <2>1, <2>2, <2>3
    <3> QED
      BY <3>1 DEF CallType
  <2>4. CallsTouch'
    <3>1. ASSUME NEW p \in Clients, ~At(p, "idle")'
          PROVE  /\ touched'[op'[p].content] # None
                 /\ touched'[op'[p].content] <= op'[p].age
      <4>1. /\ op[p].content \in Contents /\ op[p].age \in 0 .. Window
            /\ touched[op[p].content] # None /\ touched[op[p].content] \in 0 .. Window
        BY <2>1, <3>1, CallFacts
      <4>2. touched[op[p].content] <= 2 * Window
        BY <4>1
      <4>3. touched[op[p].content] <= op[p].age
        BY <2>1, <3>1 DEF Inv, CallsTouch
      <4>4. /\ touched'[op[p].content] # None
            /\ touched'[op[p].content] = touched[op[p].content] + 1
        BY <1>4, <4>1, <4>2
      <4> QED
        BY <2>3, <3>1, <4>1, <4>3, <4>4
    <3> QED
      BY <3>1 DEF CallsTouch
  <2>5. CallsStore'
    BY <1>3, <2>1, <2>3, CallFacts DEF Inv, CallsStore, At, Stored
  <2> QED
    BY <2>4, <2>5
<1>6. SealIsBuffered'
  BY <1>2 DEF Inv, SealIsBuffered
<1>7. SweepSpares'
  <2>1. CASE sweep.at = "idle"
    BY <2>1 DEF Tick, SweepSpares
  <2>2. CASE sweep.at # "idle"
    <3>1. sweep'.at = sweep.at /\ sweep'.refs = sweep.refs /\ sweep'.age = sweep.age + 1
      BY <1>1, <2>2 DEF Tick, SweepType
    <3>2. \A c \in Contents : Fresh(c) => touched[c] <= 2 * Window /\ touched[c] \in Nat
      BY <1>1 DEF Fresh, Inv, Typed
    <3>3. \A c \in Contents : Spared(c) => Spared(c)'
      BY <1>1, <1>4, <3>1, <3>2 DEF Spared, Fresh
    <3>4. \A c \in ContentsOf(buffer) \cup ContentsOf(segments) \cup examples : c \in Contents
      BY DEF Inv, Typed, ContentsOf, Span
    <3> QED
      BY <1>2, <3>1, <3>3, <3>4 DEF Tick, Inv, SweepSpares
  <2> QED
    BY <2>1, <2>2
<1>8. BodiesAreKept'
  <2>1. \A c \in ContentsOf(buffer) \cup ContentsOf(segments) \cup examples : c \in Contents
    BY DEF Inv, Typed, ContentsOf, Span
  <2> QED
    BY <1>2, <1>3, <2>1 DEF Tick, Inv, BodiesAreKept
<1> QED
  BY <1>5, <1>6, <1>7, <1>8

(* Every step keeps the invariant.                                         *)
LEMMA InvStep ==
    ASSUME Inv, NoneIsNoAge, [Next]_vars
    PROVE  Inv'
<1>1. Typed'
  BY TypedStep DEF Inv
<1>2. CASE UNCHANGED vars
  BY <1>1, <1>2 DEF vars, spans, Inv, CallsTouch, CallsStore, SealIsBuffered, SweepSpares,
                    BodiesAreKept, Spared, Fresh, Stored, ContentsOf, At
<1>3. CASE Next
  BY <1>1, <1>3, CallStep, SealStep, SweepStep, RestartStep, TickStep DEF Next, Inv
<1> QED
  BY <1>2, <1>3

(* Whatever a sweep gathers and when, no visible span and no example loses *)
(* the file of its value (payload.rs sweep_expired; lib.rs                 *)
(* compact_expired).                                                       *)
THEOREM NoBodyLost ==
    ASSUME NoneIsNoAge
    PROVE  Spec => []BodiesAreKept
<1>1. Inv /\ [Next]_vars => Inv'
  BY InvStep
<1>2. Inv => BodiesAreKept
  BY DEF Inv
<1> QED
  BY <1>1, <1>2, InvInit, PTL DEF Spec

----------------------------------------------------------------------------
(* Sequences, and the greatest of finitely many numbers.                    *)

IsSequence(s) == s \in Seq(ToSet(s))

\* What it is to be a sequence.
LEMMA SeqIs ==
    ASSUME NEW s, IsSequence(s)
    PROVE  /\ Len(s) \in Nat /\ DOMAIN s = 1 .. Len(s)
           /\ ToSet(s) = {s[i] : i \in 1 .. Len(s)}
           /\ s = [i \in 1 .. Len(s) |-> s[i]]
BY DEF IsSequence, ToSet

\* Two sequences of the same elements at the same places are one.
LEMMA SameSeq ==
    ASSUME NEW s, NEW t, IsSequence(s), IsSequence(t), Len(s) = Len(t),
           \A i \in 1 .. Len(s) : s[i] = t[i]
    PROVE  s = t
<1>1. s = [i \in 1 .. Len(s) |-> s[i]] /\ t = [i \in 1 .. Len(t) |-> t[i]]
  BY SeqIs
<1> QED BY <1>1

\* One after the other.
LEMMA Joined ==
    ASSUME NEW s, NEW t, IsSequence(s), IsSequence(t)
    PROVE  /\ IsSequence(s \o t)
           /\ Len(s \o t) = Len(s) + Len(t)
           /\ \A i \in 1 .. Len(s) : (s \o t)[i] = s[i]
           /\ \A i \in 1 .. Len(t) : (s \o t)[Len(s) + i] = t[i]
           /\ \A i \in Len(s) + 1 .. Len(s) + Len(t) : (s \o t)[i] = t[i - Len(s)]
           /\ ToSet(s \o t) = ToSet(s) \cup ToSet(t)
<1> DEFINE E == ToSet(s) \cup ToSet(t)
<1>1. s \in Seq(E) /\ t \in Seq(E)
  <2>1. s \in Seq(ToSet(s)) /\ t \in Seq(ToSet(t))
    BY DEF IsSequence
  <2> QED BY <2>1
<1> HIDE DEF E
<1>2. /\ s \o t \in Seq(E)
      /\ Len(s) \in Nat /\ Len(t) \in Nat
      /\ Len(s \o t) = Len(s) + Len(t)
      /\ \A i \in 1 .. Len(s) : (s \o t)[i] = s[i]
      /\ \A i \in Len(s) + 1 .. Len(s) + Len(t) : (s \o t)[i] = t[i - Len(s)]
  BY <1>1
<1>3. \A i \in 1 .. Len(t) : (s \o t)[Len(s) + i] = t[i]
  BY <1>2
<1>4. /\ DOMAIN (s \o t) = 1 .. Len(s) + Len(t)
      /\ DOMAIN s = 1 .. Len(s) /\ DOMAIN t = 1 .. Len(t)
  BY <1>1, <1>2
<1>5. ToSet(s \o t) = ToSet(s) \cup ToSet(t)
  <2>1. ASSUME NEW x \in ToSet(s \o t) PROVE x \in ToSet(s) \cup ToSet(t)
    <3>1. PICK i \in 1 .. Len(s) + Len(t) : (s \o t)[i] = x
      BY <1>4 DEF ToSet
    <3>2. CASE i <= Len(s)
      BY <3>1, <3>2, <1>2, <1>4 DEF ToSet
    <3>3. CASE ~(i <= Len(s))
      <4>1. i - Len(s) \in 1 .. Len(t) /\ x = t[i - Len(s)]
        BY <3>1, <3>3, <1>2
      <4> QED BY <4>1, <1>4 DEF ToSet
    <3> QED BY <3>2, <3>3
  <2>2. ASSUME NEW x \in ToSet(s) PROVE x \in ToSet(s \o t)
    <3>1. PICK i \in 1 .. Len(s) : s[i] = x
      BY <1>4 DEF ToSet
    <3>2. i \in 1 .. Len(s) + Len(t) /\ (s \o t)[i] = x
      BY <3>1, <1>2
    <3> QED BY <3>2, <1>4 DEF ToSet
  <2>3. ASSUME NEW x \in ToSet(t) PROVE x \in ToSet(s \o t)
    <3>1. PICK i \in 1 .. Len(t) : t[i] = x
      BY <1>4 DEF ToSet
    <3>2. Len(s) + i \in 1 .. Len(s) + Len(t) /\ (s \o t)[Len(s) + i] = x
      BY <3>1, <1>2, <1>3
    <3> QED BY <3>2, <1>4 DEF ToSet
  <2> QED BY <2>1, <2>2, <2>3
<1>6. IsSequence(s \o t)
  BY <1>1, <1>2, <1>5 DEF IsSequence, E
<1> QED BY <1>2, <1>3, <1>5, <1>6

\* The first k of a sequence.
LEMMA FirstOf ==
    ASSUME NEW s, IsSequence(s), NEW k \in 0 .. Len(s)
    PROVE  /\ IsSequence(SubSeq(s, 1, k))
           /\ Len(SubSeq(s, 1, k)) = k
           /\ \A i \in 1 .. k : SubSeq(s, 1, k)[i] = s[i]
           /\ ToSet(SubSeq(s, 1, k)) = {s[i] : i \in 1 .. k}
           /\ ToSet(SubSeq(s, 1, k)) \subseteq ToSet(s)
           /\ k = Len(s) => SubSeq(s, 1, k) = s
<1> DEFINE E == ToSet(s)
           p == SubSeq(s, 1, k)
<1>1. s \in Seq(E) /\ Len(s) \in Nat /\ DOMAIN s = 1 .. Len(s)
  BY SeqIs DEF IsSequence
<1>2. p = [i \in 1 .. k |-> s[i]]
  BY <1>1
<1>3. Len(p) = k /\ DOMAIN p = 1 .. k
  BY <1>1, <1>2
<1>4. ToSet(p) = {s[i] : i \in 1 .. k}
  BY <1>2, <1>3 DEF ToSet
<1>5. p \in Seq(ToSet(p))
  <2>1. p \in [1 .. k -> ToSet(p)]
    BY <1>2, <1>4
  <2> HIDE DEF p
  <2> QED BY <2>1, <1>1
<1>6. ToSet(p) \subseteq ToSet(s)
  BY <1>4, <1>1 DEF ToSet
<1>7. ASSUME k = Len(s) PROVE p = s
  BY <1>7, <1>2, SeqIs
<1> QED BY <1>2, <1>3, <1>4, <1>5, <1>6, <1>7 DEF IsSequence

\* One element, and none.
LEMMA Single ==
    ASSUME NEW x
    PROVE  /\ IsSequence(<<x>>) /\ Len(<<x>>) = 1 /\ <<x>>[1] = x /\ ToSet(<<x>>) = {x}
           /\ IsSequence(<< >>) /\ Len(<< >>) = 0 /\ ToSet(<< >>) = {}
BY DEF IsSequence, ToSet

\* To append is to join.
LEMMA AppendIs ==
    ASSUME NEW s, IsSequence(s), NEW x
    PROVE  Append(s, x) = s \o <<x>>
<1> DEFINE E == ToSet(s) \cup {x}
<1>1. s \in Seq(ToSet(s)) /\ x \in E
  BY DEF IsSequence
<1>2. s \in Seq(E) /\ <<x>> \in Seq(E)
  BY <1>1
<1> HIDE DEF E
<1> QED BY <1>1, <1>2

\* A set of numbers has a least one.
LEMMA LeastNat ==
    ASSUME NEW T, T \subseteq Nat, T # {}
    PROVE  \E m \in T : \A n \in T : m <= n
<1> DEFINE Below == {ss \in Nat \X Nat : ss[1] < ss[2]}
<1>1. IsWellFoundedOn(Below, Nat)
  BY NatLessThanWellFounded DEF OpToRel
<1> HIDE DEF Below
<1>2. PICK x \in T : \A y \in T : <<y, x>> \notin Below
  BY <1>1, WFMin
<1>3. ASSUME NEW y \in T PROVE x <= y
  <2>1. <<y, x>> \in Nat \X Nat /\ <<y, x>>[1] = y /\ <<y, x>>[2] = x
    OBVIOUS
  <2>2. ~(y < x)
    BY <1>2, <2>1 DEF Below
  <2> QED BY <2>2
<1> QED BY <1>3

\* Finitely many numbers have a bound: else there is a least k such that the first k of
\* them have none.
LEMMA FiniteIsBounded ==
    ASSUME NEW T, IsFiniteSet(T), T \subseteq Nat
    PROVE  \E b \in Nat : \A n \in T : n <= b
<1>1. PICK n \in Nat : ExistsBijection(1 .. n, T)
  BY FS_NatBijection
<1>2. PICK f \in [1 .. n -> T] : \A x \in T : \E i \in 1 .. n : f[i] = x
  BY <1>1 DEF ExistsBijection, Bijection, Surjection
<1>0. \A i \in 1 .. n : f[i] \in Nat
  BY <1>1, <1>2
<1> DEFINE Fine == {j \in 0 .. n : \E b \in Nat : \A i \in 1 .. j : f[i] <= b}
           Bad == (0 .. n) \ Fine
<1>3. Bad = {}
  <2> SUFFICES ASSUME Bad # {} PROVE FALSE
    OBVIOUS
  <2>1. PICK k \in Bad : \A j \in Bad : k <= j
    <3>1. Bad \subseteq Nat
      BY <1>1
    <3> HIDE DEF Bad
    <3> QED BY <3>1, LeastNat
  <2>2. k \in 0 .. n /\ k \notin Fine
    BY <2>1
  <2>3. k # 0
    <3>1. \A i \in 1 .. 0 : f[i] <= 0
      OBVIOUS
    <3> QED BY <2>2, <3>1, <1>1
  <2>4. k - 1 \in 0 .. n /\ ~(k <= k - 1)
    BY <1>1, <2>2, <2>3
  <2>5. k - 1 \in Fine
    <3> HIDE DEF Fine
    <3> QED BY <2>1, <2>4
  <2>6. PICK b \in Nat : \A i \in 1 .. k - 1 : f[i] <= b
    BY <2>5
  <2>7. \A i \in 1 .. k : f[i] \in Nat
    <3> HIDE DEF Bad
    <3>1. \A i \in 1 .. k : i \in 1 .. n
      BY <1>1, <2>2
    <3> QED BY <1>0, <3>1
  <2>8. f[k] \in Nat
    <3> HIDE DEF Bad
    <3>1. k \in 1 .. k
      BY <1>1, <2>2, <2>3
    <3> QED BY <2>7, <3>1
  <2>9. CASE f[k] <= b
    <3>1. \A i \in 1 .. k : f[i] <= b
      BY <1>1, <2>6, <2>9, <2>2
    <3> QED BY <3>1, <2>2
  <2>10. CASE ~(f[k] <= b)
    <3>1. \A i \in 1 .. k : f[i] <= f[k]
      <4> HIDE DEF Bad
      <4>1. \A i \in 1 .. k : i = k \/ i \in 1 .. k - 1
        BY <1>1, <2>2
      <4> QED BY <4>1, <2>6, <2>7, <2>8, <2>10
    <3> QED BY <3>1, <2>2, <2>8
  <2> QED BY <2>9, <2>10
<1>4. n \in Fine
  <2> HIDE DEF Fine
  <2> QED BY <1>3
<1>5. PICK b \in Nat : \A i \in 1 .. n : f[i] <= b
  BY <1>4
<1>6. \A m \in T : m <= b
  BY <1>2, <1>5
<1> QED BY <1>6

\* What Max takes from finitely many numbers.
LEMMA MaxIsGreatest ==
    ASSUME NEW T, IsFiniteSet(T), T \subseteq Nat, T # {}
    PROVE  Max(T) \in T /\ \A n \in T : n <= Max(T)
<1>1. PICK b \in Nat : \A n \in T : n <= b
  BY FiniteIsBounded
<1> DEFINE U == {b - n : n \in T}
<1>2. U \subseteq Nat /\ U # {}
  <2>1. \A n \in T : b - n \in Nat
    BY <1>1
  <2>2. \A u \in U : u \in Nat
    BY <2>1
  <2>3. PICK n \in T : TRUE
    OBVIOUS
  <2>4. b - n \in U
    BY <2>3
  <2> QED BY <2>2, <2>4
<1>3. PICK m \in U : \A u \in U : m <= u
  <2> HIDE DEF U
  <2> QED BY <1>2, LeastNat
<1>4. PICK x \in T : m = b - x
  BY <1>3
<1>5. ASSUME NEW n \in T PROVE n <= x
  <2>1. b - x <= b - n
    BY <1>3, <1>4
  <2> QED BY <2>1
<1> QED BY <1>5 DEF Max

\* A sequence has finitely many elements.
LEMMA ElementsAreFinite ==
    ASSUME NEW s, IsSequence(s)
    PROVE  IsFiniteSet(ToSet(s))
<1>1. Len(s) \in Nat /\ DOMAIN s = 1 .. Len(s) /\ s \in [1 .. Len(s) -> ToSet(s)]
  BY SeqIs DEF ToSet
<1>2. s \in Surjection(1 .. Len(s), ToSet(s))
  BY <1>1 DEF Surjection, ToSet
<1> QED BY <1>1, <1>2, FS_NatSurjection DEF ExistsSurjection

\* A finite set as a sequence.
LEMMA SetAsSeq ==
    ASSUME NEW S, IsFiniteSet(S)
    PROVE  IsSequence(SetToSeq(S)) /\ ToSet(SetToSeq(S)) = S /\ IsInjective(SetToSeq(S))
<1> DEFINE n == Cardinality(S)
           f == SetToSeq(S)
<1>1. n \in Nat /\ ExistsBijection(1 .. n, S)
  BY FS_CardinalityType
<1>2. \E g \in [1 .. n -> S] : IsInjective(g)
  <2>1. PICK g \in Bijection(1 .. n, S) : TRUE
    BY <1>1 DEF ExistsBijection
  <2>2. g \in [1 .. n -> S] /\ IsInjective(g)
    BY <2>1 DEF Bijection, Injection, IsInjective
  <2> QED BY <2>2
<1>3. f \in [1 .. n -> S] /\ IsInjective(f)
  BY <1>2 DEF SetToSeq
<1>4. f \in Surjection(1 .. n, S)
  <2>1. f \in Injection(1 .. n, S)
    BY <1>3 DEF Injection
  <2>2. IsFiniteSet(1 .. n) /\ Cardinality(1 .. n) = n
    BY <1>1, FS_Interval
  <2> HIDE DEF f
  <2> QED BY <2>1, <2>2, FS_Injection
<1>5. ToSet(f) = S
  BY <1>3, <1>4 DEF Surjection, ToSet
<1>6. f \in Seq(S)
  <2> HIDE DEF f
  <2> QED BY <1>1, <1>3
<1> QED BY <1>3, <1>5, <1>6 DEF IsSequence

----------------------------------------------------------------------------
(* The files of the logs, by what an open may find of them.                 *)

\* What opening the file could yield, after a loss of power or without one.
Left(file) == {Healed(l) : l \in Images(file)}

\* The end of the last whole line.
End(lines) == IF lines # << >> /\ lines[Len(lines)] = Torn THEN Len(lines) - 1 ELSE Len(lines)

\* Only the last line may be torn.
FileTyped(file) ==
    /\ file = [lines |-> file.lines, synced |-> file.synced]
    /\ IsSequence(file.lines)
    /\ file.synced \in 0 .. Len(file.lines)
    /\ Opens(file.lines)

Closed(file) == Torn \notin ToSet(file.lines)

\* Healing cuts off the torn line, and no other.
LEMMA HealedIs ==
    ASSUME NEW l, IsSequence(l), Opens(l)
    PROVE  /\ End(l) \in 0 .. Len(l)
           /\ Len(l) - 1 <= End(l)
           /\ Healed(l) = SubSeq(l, 1, End(l))
           /\ \A i \in 1 .. End(l) : l[i] # Torn
           /\ IsSequence(Healed(l)) /\ ToSet(Healed(l)) \subseteq ToSet(l)
           /\ Torn \notin ToSet(Healed(l))
           /\ Len(Healed(l)) = End(l)
<1>1. Len(l) \in Nat /\ DOMAIN l = 1 .. Len(l) /\ ToSet(l) = {l[i] : i \in 1 .. Len(l)}
      /\ l = [i \in 1 .. Len(l) |-> l[i]]
  BY SeqIs
<1>2. l # << >> <=> Len(l) # 0
  <2>1. ASSUME Len(l) = 0 PROVE l = << >>
    <3>1. IsSequence(<< >>) /\ Len(<< >>) = 0
      BY Single
    <3> QED BY <2>1, <3>1, SameSeq
  <2> QED BY <2>1
<1>3. End(l) \in 0 .. Len(l) /\ Len(l) - 1 <= End(l)
  BY <1>1, <1>2 DEF End
<1>4. Healed(l) = SubSeq(l, 1, End(l))
  <2>1. CASE l # << >> /\ l[Len(l)] = Torn
    BY <2>1 DEF Healed, Last, Front, End
  <2>2. CASE ~(l # << >> /\ l[Len(l)] = Torn)
    <3>1. Healed(l) = l /\ End(l) = Len(l)
      BY <2>2 DEF Healed, Last, End
    <3>2. Len(l) \in 0 .. Len(l)
      BY <1>1
    <3> QED BY <3>1, <3>2, FirstOf
  <2> QED BY <2>1, <2>2
<1>5. \A i \in 1 .. End(l) : l[i] # Torn
  BY <1>1, <1>2 DEF End, Opens
<1>6. ToSet(Healed(l)) = {l[i] : i \in 1 .. End(l)}
  BY <1>3, <1>4, FirstOf
<1>7. Torn \notin ToSet(Healed(l))
  BY <1>5, <1>6
<1>8. IsSequence(Healed(l)) /\ ToSet(Healed(l)) \subseteq ToSet(l) /\ Len(Healed(l)) = End(l)
  BY <1>3, <1>4, FirstOf
<1> QED BY <1>3, <1>4, <1>5, <1>7, <1>8

\* Where an open may find the end.
Ends(file) == {k \in 0 .. End(file.lines) : file.synced <= k \/ k = End(file.lines)}

\* An image opens, and is healed to a prefix that has every line that was synced.
LEMMA ImageIs ==
    ASSUME NEW f, FileTyped(f), NEW l \in Images(f)
    PROVE  /\ IsSequence(l) /\ Opens(l) /\ ToSet(l) \subseteq ToSet(f.lines) \cup {Torn}
           /\ \E k \in Ends(f) : Healed(l) = SubSeq(f.lines, 1, k)
<1> DEFINE n == Len(f.lines)
           e == End(f.lines)
<1>1. IsSequence(f.lines) /\ f.synced \in 0 .. n /\ Opens(f.lines) /\ n \in Nat
  BY SeqIs DEF FileTyped
<1>2. e \in 0 .. n /\ n - 1 <= e /\ \A i \in 1 .. e : f.lines[i] # Torn
  BY <1>1, HealedIs
<1>3. PICK k \in f.synced .. n : \/ l = SubSeq(f.lines, 1, k)
                                 \/ k < n /\ l = Append(SubSeq(f.lines, 1, k), Torn)
  BY DEF Images
<1> DEFINE p == SubSeq(f.lines, 1, k)
<1>4. k \in 0 .. n
  BY <1>1, <1>3
<1>5. /\ IsSequence(p) /\ Len(p) = k /\ \A i \in 1 .. k : p[i] = f.lines[i]
      /\ ToSet(p) \subseteq ToSet(f.lines)
      /\ k = n => p = f.lines
  BY <1>1, <1>4, FirstOf
<1>6. k <= e => k \in Ends(f)
  BY <1>2, <1>3, <1>4 DEF Ends
<1>7. CASE l = p
  <2>1. Opens(p)
    BY <1>1, <1>4, <1>5 DEF Opens
  <2>2. CASE k <= e
    <3>1. \A i \in 1 .. k : p[i] # Torn
      BY <1>2, <1>4, <1>5, <2>2
    <3>2. End(p) = k
      <4>1. k = 0 => p = << >>
        <5>1. IsSequence(<< >>) /\ Len(<< >>) = 0
          BY Single
        <5> QED BY <5>1, <1>5, SameSeq
      <4> QED BY <3>1, <1>4, <1>5, <4>1 DEF End
    <3>3. Healed(p) = SubSeq(p, 1, k)
      BY <2>1, <1>5, <3>2, HealedIs
    <3>4. SubSeq(p, 1, k) = p
      <4>1. k \in 0 .. Len(p) /\ k = Len(p)
        BY <1>4, <1>5
      <4> QED BY <4>1, <1>5, FirstOf
    <3> QED BY <1>5, <1>6, <1>7, <2>1, <2>2, <3>3, <3>4
  <2>3. CASE ~(k <= e)
    <3>1. k = n /\ p = f.lines
      BY <1>2, <1>4, <1>5, <2>3
    <3>2. e \in Ends(f)
      BY <1>2 DEF Ends
    <3>3. Healed(f.lines) = SubSeq(f.lines, 1, e)
      BY <1>1, HealedIs
    <3>4. Healed(l) = SubSeq(f.lines, 1, e) /\ Opens(l) /\ l = f.lines
      BY <1>1, <1>7, <3>1, <3>3
    <3> QED BY <1>1, <3>2, <3>4
  <2> QED BY <2>2, <2>3
<1>8. CASE k < n /\ l = Append(p, Torn)
  <2>1. k <= e
    BY <1>2, <1>4, <1>8
  <2>2. IsSequence(<<Torn>>) /\ Len(<<Torn>>) = 1 /\ <<Torn>>[1] = Torn /\ ToSet(<<Torn>>) = {Torn}
    BY Single
  <2>3. l = p \o <<Torn>>
    BY <1>8, <1>5, AppendIs
  <2>4. /\ IsSequence(l) /\ Len(l) = k + 1 /\ l[k + 1] = Torn
        /\ \A i \in 1 .. k : l[i] = p[i]
        /\ ToSet(l) = ToSet(p) \cup {Torn}
    <3>1. 1 \in 1 .. Len(<<Torn>>)
      BY <2>2
    <3> QED BY <2>2, <2>3, <3>1, <1>5, Joined
  <2>5. Opens(l)
    <3>1. \A i \in 1 .. k : l[i] # Torn
      BY <1>2, <1>4, <1>5, <2>1, <2>4
    <3> QED BY <3>1, <2>4, <1>4 DEF Opens
  <2>6. End(l) = k
    <3>1. l # << >>
      BY <2>4, <1>4, Single
    <3> QED BY <2>4, <3>1, <1>4 DEF End
  <2>7. Healed(l) = SubSeq(l, 1, k)
    BY <2>4, <2>5, <2>6, HealedIs
  <2>8. SubSeq(l, 1, k) = p
    <3>1. k \in 0 .. Len(l)
      BY <1>4, <2>4
    <3>2. /\ IsSequence(SubSeq(l, 1, k)) /\ Len(SubSeq(l, 1, k)) = k
          /\ \A i \in 1 .. k : SubSeq(l, 1, k)[i] = l[i]
      BY <3>1, <2>4, FirstOf
    <3> QED BY <3>2, <2>4, <1>5, SameSeq
  <2> QED BY <2>1, <2>4, <2>5, <2>7, <2>8, <1>5, <1>6
<1> QED BY <1>3, <1>7, <1>8

\* What may be left of a file are the prefixes that end at its Ends.
LEMMA LeftIs ==
    ASSUME NEW f, FileTyped(f)
    PROVE  /\ Left(f) = {SubSeq(f.lines, 1, k) : k \in Ends(f)}
           /\ End(f.lines) \in Ends(f)
           /\ Healed(f.lines) \in Left(f)
           /\ \A l \in Left(f) :
                 IsSequence(l) /\ ToSet(l) \subseteq ToSet(f.lines) /\ Torn \notin ToSet(l)
<1> DEFINE n == Len(f.lines)
           e == End(f.lines)
<1>1. IsSequence(f.lines) /\ f.synced \in 0 .. n /\ Opens(f.lines) /\ n \in Nat
  BY SeqIs DEF FileTyped
<1>2. e \in 0 .. n /\ n - 1 <= e /\ \A i \in 1 .. e : f.lines[i] # Torn
      /\ Healed(f.lines) = SubSeq(f.lines, 1, e)
  BY <1>1, HealedIs
<1>3. \A l \in Images(f) : \E k \in Ends(f) : Healed(l) = SubSeq(f.lines, 1, k)
  BY ImageIs
<1>4. f.lines \in Images(f)
  <2>1. n \in f.synced .. n /\ SubSeq(f.lines, 1, n) = f.lines
    <3>1. n \in 0 .. n /\ n \in f.synced .. n
      BY <1>1
    <3> QED BY <1>1, <3>1, FirstOf
  <2> QED BY <2>1 DEF Images
<1>5. ASSUME NEW k \in Ends(f) PROVE SubSeq(f.lines, 1, k) \in Left(f)
  <2> DEFINE p == SubSeq(f.lines, 1, k)
  <2>1. k \in 0 .. e /\ (f.synced <= k \/ k = e) /\ k \in 0 .. n
    BY <1>1, <1>2 DEF Ends
  <2>2. CASE k = e
    <3>1. Healed(f.lines) \in Left(f)
      BY <1>4 DEF Left
    <3>2. Healed(f.lines) = SubSeq(f.lines, 1, e)
      BY <1>1, HealedIs
    <3> HIDE DEF e
    <3>3. SubSeq(f.lines, 1, k) = SubSeq(f.lines, 1, e)
      BY <2>2
    <3> QED BY <3>1, <3>2, <3>3
  <2>3. CASE f.synced <= k
    <3>1. k \in f.synced .. n
      BY <2>1, <2>3, <1>1
    <3>2. p \in Images(f)
      BY <3>1 DEF Images
    <3>3. Healed(p) = p
      <4>1. /\ IsSequence(p) /\ Len(p) = k /\ \A i \in 1 .. k : p[i] = f.lines[i]
        BY <1>1, <2>1, FirstOf
      <4>2. \A i \in 1 .. k : p[i] # Torn
        BY <4>1, <1>2, <2>1
      <4>3. k = 0 => p = << >>
        <5>1. IsSequence(<< >>) /\ Len(<< >>) = 0
          BY Single
        <5> QED BY <5>1, <4>1, SameSeq
      <4>4. k # 0 => p[Len(p)] # Torn
        BY <4>1, <4>2, <2>1
      <4> HIDE DEF p
      <4> QED BY <4>3, <4>4 DEF Healed, Last
    <3> QED BY <3>2, <3>3 DEF Left
  <2> QED BY <2>1, <2>2, <2>3
<1>6. Left(f) = {SubSeq(f.lines, 1, k) : k \in Ends(f)}
  BY <1>3, <1>5 DEF Left
<1>7. e \in Ends(f)
  BY <1>2 DEF Ends
<1>8. ASSUME NEW l \in Left(f)
      PROVE  IsSequence(l) /\ ToSet(l) \subseteq ToSet(f.lines) /\ Torn \notin ToSet(l)
  <2>1. PICK k \in Ends(f) : l = SubSeq(f.lines, 1, k)
    BY <1>6
  <2>2. k \in 0 .. e /\ k \in 0 .. n
    BY <1>1, <1>2 DEF Ends
  <2>3. IsSequence(l) /\ ToSet(l) \subseteq ToSet(f.lines) /\ ToSet(l) = {f.lines[i] : i \in 1 .. k}
    BY <1>1, <2>1, <2>2, FirstOf
  <2>4. Torn \notin ToSet(l)
    BY <1>2, <2>2, <2>3
  <2> QED BY <2>3, <2>4
<1> QED BY <1>2, <1>4, <1>6, <1>7, <1>8 DEF Left

\* A file of whole lines that are all synced is what is found.
LEMMA SyncedFile ==
    ASSUME NEW l, IsSequence(l), Opens(l)
    PROVE  /\ FileTyped([lines |-> l, synced |-> Len(l)])
           /\ Left([lines |-> l, synced |-> Len(l)]) = {Healed(l)}
<1> DEFINE f == [lines |-> l, synced |-> Len(l)]
<1>1. Len(l) \in Nat /\ f.lines = l /\ f.synced = Len(l)
  BY SeqIs
<1>2. FileTyped(f)
  BY <1>1 DEF FileTyped
<1>3. End(l) \in 0 .. Len(l) /\ Healed(l) = SubSeq(l, 1, End(l))
  BY HealedIs
<1>4. Ends(f) = {End(l)}
  BY <1>1, <1>3 DEF Ends
<1>5. Left(f) = {SubSeq(f.lines, 1, k) : k \in Ends(f)}
  BY <1>2, LeftIs
<1> QED BY <1>1, <1>2, <1>3, <1>4, <1>5

\* A file without a torn line opens as it is.
LEMMA ClosedOpens ==
    ASSUME NEW l, IsSequence(l), Torn \notin ToSet(l)
    PROVE  Opens(l) /\ Healed(l) = l
<1>1. Len(l) \in Nat /\ \A i \in 1 .. Len(l) : l[i] \in ToSet(l)
  BY SeqIs
<1>2. Opens(l)
  BY <1>1 DEF Opens
<1>3. l = << >> \/ l[Len(l)] # Torn
  <2>1. Len(l) = 0 => l = << >>
    <3>1. IsSequence(<< >>) /\ Len(<< >>) = 0
      BY Single
    <3> QED BY <3>1, SameSeq
  <2>2. Len(l) # 0 => l[Len(l)] # Torn
    BY <1>1
  <2> QED BY <2>1, <2>2
<1> QED BY <1>2, <1>3 DEF Healed, Last

\* All of a sequence, and the first of some lines after it.
Continues(x, s, l) == \E k \in 0 .. Len(l) : x = s \o SubSeq(l, 1, k)

\* More whole lines after the end of a file of whole lines: what was found before, or
\* all of it and the first of the lines.
LEMMA MoreLines ==
    ASSUME NEW f, FileTyped(f), Closed(f), NEW l, IsSequence(l), Torn \notin ToSet(l),
           NEW g, FileTyped(g), f.synced <= g.synced,
           g.lines = f.lines \o l \/ g.lines = (f.lines \o l) \o <<Torn>>
    PROVE  \A x \in Left(g) : x \in Left(f) \/ Continues(x, f.lines, l)
<1> DEFINE n == Len(f.lines)
           m == Len(l)
           j == f.lines \o l
<1>1. /\ IsSequence(f.lines) /\ f.synced \in 0 .. n /\ Opens(f.lines) /\ n \in Nat
      /\ IsSequence(g.lines) /\ g.synced \in Nat /\ m \in Nat
  BY SeqIs DEF FileTyped
<1>2. /\ IsSequence(j) /\ Len(j) = n + m /\ ToSet(j) = ToSet(f.lines) \cup ToSet(l)
      /\ \A i \in 1 .. n : j[i] = f.lines[i]
      /\ \A i \in n + 1 .. n + m : j[i] = l[i - n]
  BY <1>1, Joined
<1>3. End(f.lines) = n
  <2>1. Opens(f.lines) /\ Healed(f.lines) = f.lines
    BY <1>1, ClosedOpens DEF Closed
  <2> QED BY <1>1, <2>1, HealedIs
<1>4. End(g.lines) = n + m /\ Len(g.lines) >= n + m /\ \A i \in 1 .. n + m : g.lines[i] = j[i]
  <2>1. CASE g.lines = j
    <3>1. Torn \notin ToSet(j)
      BY <1>2 DEF Closed
    <3>2. Opens(j) /\ Healed(j) = j
      BY <1>2, <3>1, ClosedOpens
    <3>3. End(j) = n + m
      BY <1>2, <3>2, HealedIs
    <3> QED BY <2>1, <3>3, <1>1, <1>2
  <2>2. CASE g.lines = j \o <<Torn>>
    <3>1. IsSequence(<<Torn>>) /\ Len(<<Torn>>) = 1 /\ <<Torn>>[1] = Torn
      BY Single
    <3>2. 1 \in 1 .. Len(<<Torn>>)
      BY <3>1
    <3>3. /\ Len(g.lines) = n + m + 1 /\ g.lines[n + m + 1] = Torn
          /\ \A i \in 1 .. n + m : g.lines[i] = j[i]
      BY <2>2, <3>1, <3>2, <1>2, Joined
    <3>4. g.lines # << >>
      BY <3>3, <1>1, Single
    <3> QED BY <3>3, <3>4, <1>1 DEF End
  <2> QED BY <2>1, <2>2
<1>5. SUFFICES ASSUME NEW x \in Left(g)
               PROVE  x \in Left(f) \/ Continues(x, f.lines, l)
  OBVIOUS
<1>6. PICK k \in Ends(g) : x = SubSeq(g.lines, 1, k)
  BY LeftIs
<1>7. /\ k \in 0 .. n + m /\ k \in 0 .. Len(g.lines)
      /\ k >= f.synced
  BY <1>1, <1>4, <1>6 DEF Ends, FileTyped
<1>8. /\ IsSequence(x) /\ Len(x) = k /\ \A i \in 1 .. k : x[i] = j[i]
  <2>1. IsSequence(x) /\ Len(x) = k /\ \A i \in 1 .. k : x[i] = g.lines[i]
    BY <1>1, <1>6, <1>7, FirstOf
  <2>2. \A i \in 1 .. k : g.lines[i] = j[i]
    BY <1>1, <1>4, <1>7
  <2> QED BY <2>1, <2>2
<1>9. CASE k <= n
  <2>1. k \in Ends(f) /\ k \in 0 .. n
    BY <1>1, <1>3, <1>7, <1>9 DEF Ends
  <2>2. /\ IsSequence(SubSeq(f.lines, 1, k)) /\ Len(SubSeq(f.lines, 1, k)) = k
        /\ \A i \in 1 .. k : SubSeq(f.lines, 1, k)[i] = f.lines[i]
    BY <1>1, <2>1, FirstOf
  <2>3. \A i \in 1 .. k : x[i] = SubSeq(f.lines, 1, k)[i]
    BY <2>1, <2>2, <1>1, <1>2, <1>8
  <2>4. x = SubSeq(f.lines, 1, k)
    BY <2>2, <2>3, <1>8, SameSeq
  <2> QED BY <2>1, <2>4, LeftIs
<1>10. CASE ~(k <= n)
  <2> DEFINE p == SubSeq(l, 1, k - n)
  <2>1. k - n \in 0 .. m
    BY <1>1, <1>7, <1>10
  <2>2. IsSequence(p) /\ Len(p) = k - n /\ \A i \in 1 .. k - n : p[i] = l[i]
    BY <2>1, FirstOf
  <2>3. /\ IsSequence(f.lines \o p) /\ Len(f.lines \o p) = k
        /\ \A i \in 1 .. n : (f.lines \o p)[i] = f.lines[i]
        /\ \A i \in n + 1 .. k : (f.lines \o p)[i] = p[i - n]
    <3> HIDE DEF p
    <3>1. n + Len(p) = k
      BY <2>2, <1>1, <1>7
    <3> QED BY <3>1, <2>2, <1>1, Joined
  <2>4. ASSUME NEW i \in 1 .. k PROVE x[i] = (f.lines \o p)[i]
    <3>1. CASE i <= n
      <4>1. i \in 1 .. n
        BY <3>1, <1>1, <1>7
      <4> HIDE DEF p
      <4> QED BY <4>1, <1>2, <1>8, <2>3
    <3>2. CASE ~(i <= n)
      <4>1. i \in n + 1 .. k /\ i - n \in 1 .. k - n /\ i \in n + 1 .. n + m
        BY <3>2, <1>1, <1>7
      <4>2. x[i] = l[i - n]
        BY <4>1, <1>2, <1>8
      <4>3. p[i - n] = l[i - n]
        BY <4>1, <2>2
      <4> HIDE DEF p
      <4> QED BY <4>1, <4>2, <4>3, <2>3
    <3> QED BY <3>1, <3>2
  <2>5. x = f.lines \o p
    <3> HIDE DEF p
    <3> QED BY <2>3, <2>4, <1>8, SameSeq
  <2> QED BY <2>1, <2>5 DEF Continues
<1> QED BY <1>9, <1>10, <1>7, <1>1

\* An append: what was there stays, whole lines are followed by at most one torn line,
\* and by none unless the process died; what came back is synced.
LEMMA AppendLeaves ==
    ASSUME NEW f, FileTyped(f), Closed(f), NEW recs, IsSequence(recs), Torn \notin ToSet(recs),
           NEW o, NEW g \in Appended(f, recs, o)
    PROVE  /\ FileTyped(g)
           /\ o # "died" => Closed(g)
           /\ ToSet(g.lines) \subseteq ToSet(f.lines) \cup ToSet(recs) \cup {Torn}
           /\ o = "ok" => g.lines = f.lines \o recs /\ Left(g) = {f.lines \o recs}
           /\ \A x \in Left(g) : x \in Left(f) \/ Continues(x, f.lines, recs)
<1> DEFINE n == Len(f.lines)
           m == Len(recs)
           j == f.lines \o recs
<1>1. /\ IsSequence(f.lines) /\ f.synced \in 0 .. n /\ n \in Nat /\ m \in Nat
      /\ f = [lines |-> f.lines, synced |-> f.synced]
  BY SeqIs DEF FileTyped
<1>2. /\ IsSequence(j) /\ Len(j) = n + m
      /\ ToSet(j) = ToSet(f.lines) \cup ToSet(recs) /\ Torn \notin ToSet(j)
  BY <1>1, Joined DEF Closed
<1>3. Opens(j) /\ Healed(j) = j
  BY <1>2, ClosedOpens
<1>4. /\ IsSequence(<<Torn>>) /\ Len(<<Torn>>) = 1 /\ ToSet(<<Torn>>) = {Torn}
  BY Single
<1> HIDE DEF j
<1>5. CASE o = "ok"
  <2>1. g = [lines |-> j, synced |-> Len(j)]
    BY <1>5, <1>2 DEF Appended, j
  <2>2. FileTyped(g) /\ Left(g) = {j} /\ g.lines = j
    BY <2>1, <1>2, <1>3, SyncedFile
  <2>3. \A x \in Left(g) : x = f.lines \o SubSeq(recs, 1, m)
    <3>1. m \in 0 .. m
      BY <1>1
    <3>2. SubSeq(recs, 1, m) = recs
      BY <3>1, FirstOf
    <3> QED BY <2>2, <3>2 DEF j
  <2>4. \A x \in Left(g) : Continues(x, f.lines, recs)
    <3>1. m \in 0 .. m
      BY <1>1
    <3> QED BY <2>3, <3>1 DEF Continues
  <2> QED BY <2>2, <2>4, <1>2, <1>5 DEF Closed, j
<1>6. CASE o = "unsynced"
  <2>1. g = [lines |-> j, synced |-> f.synced]
    BY <1>6, <1>1 DEF Appended, j
  <2>2. g.lines = j /\ g.synced = f.synced
    BY <2>1
  <2>3. FileTyped(g)
    BY <2>1, <2>2, <1>1, <1>2, <1>3 DEF FileTyped
  <2>4. f.synced <= g.synced
    BY <2>2, <1>1
  <2>5. \A x \in Left(g) : x \in Left(f) \/ Continues(x, f.lines, recs)
    <3>1. g.lines = f.lines \o recs \/ g.lines = (f.lines \o recs) \o <<Torn>>
      BY <2>2 DEF j
    <3> QED BY <2>3, <2>4, <3>1, MoreLines
  <2> QED BY <2>2, <2>3, <2>5, <1>2, <1>6 DEF Closed
<1>7. CASE o = "died"
  <2>1. PICK k \in 0 .. m : \/ g = [f EXCEPT !.lines = @ \o SubSeq(recs, 1, k)]
                            \/ g = [f EXCEPT !.lines = @ \o SubSeq(recs, 1, k) \o <<Torn>>]
    <3>1. 0 .. m - 1 \subseteq 0 .. m
      BY <1>1
    <3> QED BY <1>7, <3>1 DEF Appended
  <2> DEFINE l == SubSeq(recs, 1, k)
             h == f.lines \o l
  <2>2. /\ IsSequence(l) /\ Len(l) = k
        /\ ToSet(l) \subseteq ToSet(recs) /\ \A i \in 1 .. k : l[i] = recs[i]
    BY FirstOf
  <2>3. /\ IsSequence(h) /\ Len(h) = n + k
        /\ ToSet(h) = ToSet(f.lines) \cup ToSet(l) /\ Torn \notin ToSet(h)
    BY <1>1, <2>2, Joined DEF Closed
  <2>4. Opens(h)
    BY <2>3, ClosedOpens
  <2>5. \/ g = [lines |-> h, synced |-> f.synced]
        \/ g = [lines |-> h \o <<Torn>>, synced |-> f.synced]
    BY <1>1, <2>1
  <2> HIDE DEF h, l
  <2>6. /\ IsSequence(h \o <<Torn>>) /\ Len(h \o <<Torn>>) = n + k + 1
        /\ \A i \in 1 .. n + k : (h \o <<Torn>>)[i] = h[i]
        /\ ToSet(h \o <<Torn>>) = ToSet(h) \cup {Torn}
    BY <1>4, <2>3, Joined
  <2>7. Opens(h \o <<Torn>>)
    <3>1. \A i \in 1 .. n + k : h[i] \in ToSet(h)
      BY <2>3, SeqIs
    <3> QED BY <1>1, <2>3, <2>6, <3>1 DEF Opens
  <2>8. k \in Nat /\ f.synced <= n + k /\ f.synced <= n + k + 1
    BY <1>1
  <2>9. FileTyped(g) /\ g.synced = f.synced
    <3>1. CASE g = [lines |-> h, synced |-> f.synced]
      BY <3>1, <1>1, <2>3, <2>4, <2>8 DEF FileTyped
    <3>2. CASE g = [lines |-> h \o <<Torn>>, synced |-> f.synced]
      <4> DEFINE q == h \o <<Torn>>
      <4>1. f.synced \in 0 .. Len(q)
        BY <1>1, <2>6, <2>8
      <4>2. IsSequence(q) /\ Opens(q)
        BY <2>6, <2>7
      <4> HIDE DEF q
      <4>3. g = [lines |-> q, synced |-> f.synced]
        BY <3>2 DEF q
      <4> QED BY <4>1, <4>2, <4>3 DEF FileTyped
    <3> QED BY <3>1, <3>2, <2>5
  <2>10. g.lines = f.lines \o l \/ g.lines = (f.lines \o l) \o <<Torn>>
    BY <2>5 DEF h
  <2>11. f.synced <= g.synced /\ Torn \notin ToSet(l)
    BY <2>9, <2>2, <1>1
  <2>12. \A x \in Left(g) : x \in Left(f) \/ Continues(x, f.lines, l)
    BY <2>2, <2>9, <2>10, <2>11, MoreLines
  <2>13. ASSUME NEW i \in 0 .. Len(l) PROVE i \in 0 .. m /\ SubSeq(l, 1, i) = SubSeq(recs, 1, i)
    <3>1. i \in 0 .. m /\ i <= k
      BY <1>1, <2>2
    <3>2. /\ IsSequence(SubSeq(l, 1, i)) /\ Len(SubSeq(l, 1, i)) = i
          /\ \A q \in 1 .. i : SubSeq(l, 1, i)[q] = l[q]
      BY <2>2, FirstOf
    <3>3. /\ IsSequence(SubSeq(recs, 1, i)) /\ Len(SubSeq(recs, 1, i)) = i
          /\ \A q \in 1 .. i : SubSeq(recs, 1, i)[q] = recs[q]
      BY <3>1, FirstOf
    <3>4. \A q \in 1 .. i : SubSeq(l, 1, i)[q] = SubSeq(recs, 1, i)[q]
      BY <3>1, <3>2, <3>3, <2>2
    <3> QED BY <3>1, <3>2, <3>3, <3>4, SameSeq
  <2>14. \A x \in Left(g) : x \in Left(f) \/ Continues(x, f.lines, recs)
    <3>1. ASSUME NEW x, Continues(x, f.lines, l) PROVE Continues(x, f.lines, recs)
      <4>1. PICK i \in 0 .. Len(l) : x = f.lines \o SubSeq(l, 1, i)
        BY <3>1 DEF Continues
      <4>2. i \in 0 .. m /\ x = f.lines \o SubSeq(recs, 1, i)
        BY <4>1, <2>13
      <4> QED BY <4>2 DEF Continues
    <3> QED BY <2>12, <3>1
  <2>15. ToSet(g.lines) \subseteq ToSet(f.lines) \cup ToSet(recs) \cup {Torn}
    <3>1. g.lines = h \/ g.lines = h \o <<Torn>>
      BY <2>5
    <3> QED BY <3>1, <2>2, <2>3, <2>6
  <2> QED BY <1>7, <2>9, <2>14, <2>15
<1>8. CASE o \notin {"ok", "unsynced", "died"}
  BY <1>8 DEF Appended
<1> QED BY <1>5, <1>6, <1>7, <1>8

\* A rewrite: the old file, or the new one with all its lines synced.
LEMMA RewriteLeaves ==
    ASSUME NEW f, NEW recs, IsSequence(recs), Torn \notin ToSet(recs), NEW o,
           NEW g \in Rewritten(f, recs, o)
    PROVE  /\ g = f \/ /\ FileTyped(g) /\ Closed(g) /\ g.lines = recs /\ Left(g) = {recs}
           /\ o = "ok" => g.lines = recs /\ Left(g) = {recs}
<1> DEFINE h == [lines |-> recs, synced |-> Len(recs)]
<1>1. Opens(recs) /\ Healed(recs) = recs
  BY ClosedOpens
<1>2. FileTyped(h) /\ Closed(h) /\ h.lines = recs /\ Left(h) = {recs}
  BY <1>1, SyncedFile DEF Closed
<1>3. (g = h \/ g = f) /\ (o = "ok" => g = h)
  BY DEF Rewritten
<1> QED BY <1>2, <1>3

\* A loss of power, and an open after it, leave no more than could be left before.
LEMMA ImageLeaves ==
    ASSUME NEW f, FileTyped(f), NEW l \in Images(f)
    PROVE  /\ FileTyped([lines |-> l, synced |-> Len(l)])
           /\ Left([lines |-> l, synced |-> Len(l)]) = {Healed(l)} /\ Healed(l) \in Left(f)
           /\ ToSet(l) \subseteq ToSet(f.lines) \cup {Torn}
BY ImageIs, SyncedFile DEF Left

----------------------------------------------------------------------------
(* Replaying.                                                               *)

LogLine(r) == IsRecord(r) /\ (r.kind \notin {"example", "counters"} => r.tenant \in Tenants)

HasDataset(m, id) ==
    id <= m.datasetFloor \/ \E r \in m.records : r.kind = "dataset" /\ r.dataset = id

HasExperiment(m, id) ==
    id <= m.experimentFloor \/ \E r \in m.records : r.kind = "experiment" /\ r.experiment = id

\* These records can be appended for m: they rely on what m has, and none of them has
\* another record's id.
Fits(recs, m) ==
    /\ IsSequence(recs)
    /\ \A i \in 1 .. Len(recs) :
          /\ LogLine(recs[i]) /\ recs[i].kind # "counters"
          /\ \A r \in m.records : SameEntity(r, recs[i]) => recs[i] = r
          /\ \A j \in 1 .. Len(recs) : SameEntity(recs[j], recs[i]) => recs[i] = recs[j]
          /\ Relies(recs[i], m)
          /\ recs[i].kind = "version" =>
                \A b \in recs[i].version.bodies :
                    Example(b) \in m.records \/ \E j \in 1 .. i - 1 : recs[j] = Example(b)

\* A file that has all that is in force, and what else it has relies on that alone.
Based(m, x) ==
    /\ m.records \subseteq Replay(x).records
    /\ \A r \in Replay(x).records : Relies(r, m)
    /\ Filled(Replay(x))
    /\ m.datasetFloor <= Replay(x).datasetFloor /\ m.experimentFloor <= Replay(x).experimentFloor

\* To be of one entity goes both ways.
LEMMA EntityIsMutual == \A r, s : SameEntity(r, s) => SameEntity(s, r)
BY DEF SameEntity

\* What stands after some lines.
LEMMA Standing ==
    ASSUME NEW m, NEW l, IsSequence(l)
    PROVE  \A r : r \in ApplyAll(m, l).records <=>
                     \/ r \in m.records /\ ~Superseded(r, l, 0)
                     \/ /\ r.kind # "counters"
                        /\ \E i \in 1 .. Len(l) : l[i] = r /\ ~Superseded(r, l, i)
<1>1. DOMAIN l = 1 .. Len(l)
  BY SeqIs
<1>2. ApplyAll(m, l).records = {r \in m.records : ~Superseded(r, l, 0)}
                 \cup {l[i] : i \in {j \in DOMAIN l : /\ l[j].kind # "counters"
                                                     /\ ~Superseded(l[j], l, j)}}
  BY DEF ApplyAll
<1> QED BY <1>1, <1>2

\* Only a record is superseded, by another.
LEMMA NotSuperseded ==
    ASSUME NEW l, IsSequence(l), NEW r, \A i \in 1 .. Len(l) : SameEntity(r, l[i]) => l[i] = r,
           NEW k \in Nat
    PROVE  ~Superseded(r, l, k)
<1>1. Len(l) \in Nat
  BY SeqIs
<1>2. \A j \in k + 1 .. Len(l) : j \in 1 .. Len(l)
  BY <1>1
<1> QED BY <1>2 DEF Superseded

\* To replay a log to which lines were added is to apply them.
LEMMA ReplayJoined ==
    ASSUME NEW x, IsSequence(x), NEW l, IsSequence(l)
    PROVE  Replay(x \o l).records = ApplyAll(Replay(x), l).records
<1> DEFINE j == x \o l
           n == Len(x)
           m == Len(l)
<1>1. /\ IsSequence(j) /\ Len(j) = n + m /\ n \in Nat /\ m \in Nat
      /\ \A i \in 1 .. n : j[i] = x[i]
      /\ \A i \in 1 .. m : j[n + i] = l[i]
      /\ \A i \in n + 1 .. n + m : j[i] = l[i - n]
  BY Joined, SeqIs
<1> HIDE DEF j
<1>2. ASSUME NEW r, NEW i \in 0 .. n
      PROVE  Superseded(r, j, i) <=> Superseded(r, x, i) \/ Superseded(r, l, 0)
  <2>1. ASSUME Superseded(r, j, i) PROVE Superseded(r, x, i) \/ Superseded(r, l, 0)
    <3>1. PICK k \in i + 1 .. n + m : SameEntity(r, j[k]) /\ j[k] # r
      BY <2>1, <1>1 DEF Superseded
    <3>2. CASE k <= n
      <4>1. k \in i + 1 .. n /\ j[k] = x[k]
        BY <3>1, <3>2, <1>1
      <4> QED BY <3>1, <4>1 DEF Superseded
    <3>3. CASE ~(k <= n)
      <4>1. k - n \in 0 + 1 .. m /\ j[k] = l[k - n]
        BY <3>1, <3>3, <1>1
      <4> QED BY <3>1, <4>1 DEF Superseded
    <3> QED BY <3>2, <3>3
  <2>2. ASSUME Superseded(r, x, i) PROVE Superseded(r, j, i)
    <3>1. PICK k \in i + 1 .. n : SameEntity(r, x[k]) /\ x[k] # r
      BY <2>2 DEF Superseded
    <3>2. k \in i + 1 .. Len(j) /\ j[k] = x[k]
      BY <3>1, <1>1
    <3> QED BY <3>1, <3>2 DEF Superseded
  <2>3. ASSUME Superseded(r, l, 0) PROVE Superseded(r, j, i)
    <3>1. PICK k \in 0 + 1 .. m : SameEntity(r, l[k]) /\ l[k] # r
      BY <2>3 DEF Superseded
    <3>2. n + k \in i + 1 .. Len(j) /\ j[n + k] = l[k]
      BY <3>1, <1>1
    <3> QED BY <3>1, <3>2 DEF Superseded
  <2> QED BY <2>1, <2>2, <2>3
<1>3. ASSUME NEW r, NEW i \in 1 .. m
      PROVE  Superseded(r, j, n + i) <=> Superseded(r, l, i)
  <2>1. ASSUME Superseded(r, j, n + i) PROVE Superseded(r, l, i)
    <3>1. PICK k \in n + i + 1 .. n + m : SameEntity(r, j[k]) /\ j[k] # r
      BY <2>1, <1>1 DEF Superseded
    <3>2. k - n \in i + 1 .. m /\ j[k] = l[k - n]
      BY <3>1, <1>1
    <3> QED BY <3>1, <3>2 DEF Superseded
  <2>2. ASSUME Superseded(r, l, i) PROVE Superseded(r, j, n + i)
    <3>1. PICK k \in i + 1 .. m : SameEntity(r, l[k]) /\ l[k] # r
      BY <2>2 DEF Superseded
    <3>2. n + k \in n + i + 1 .. Len(j) /\ j[n + k] = l[k]
      BY <3>1, <1>1
    <3> QED BY <3>1, <3>2 DEF Superseded
  <2> QED BY <2>1, <2>2
<1>4. \A r : r \in Replay(j).records <=>
                 r.kind # "counters" /\ \E i \in 1 .. n + m : j[i] = r /\ ~Superseded(r, j, i)
  BY <1>1, Standing DEF Replay, NoRecords
<1>5. \A r : r \in Replay(x).records <=>
                 r.kind # "counters" /\ \E i \in 1 .. n : x[i] = r /\ ~Superseded(r, x, i)
  BY Standing DEF Replay, NoRecords
<1>6. \A r : r \in ApplyAll(Replay(x), l).records <=>
                 \/ r \in Replay(x).records /\ ~Superseded(r, l, 0)
                 \/ r.kind # "counters" /\ \E i \in 1 .. m : l[i] = r /\ ~Superseded(r, l, i)
  BY Standing
<1>7. ASSUME NEW r \in Replay(j).records PROVE r \in ApplyAll(Replay(x), l).records
  <2>1. PICK i \in 1 .. n + m : j[i] = r /\ ~Superseded(r, j, i) /\ r.kind # "counters"
    BY <1>4
  <2>2. CASE i <= n
    <3>1. i \in 1 .. n /\ i \in 0 .. n
      BY <2>2, <1>1
    <3>2. x[i] = r /\ ~Superseded(r, x, i) /\ ~Superseded(r, l, 0)
      BY <2>1, <3>1, <1>1, <1>2
    <3> QED BY <2>1, <3>1, <3>2, <1>5, <1>6
  <2>3. CASE ~(i <= n)
    <3>1. i - n \in 1 .. m /\ n + (i - n) = i /\ l[i - n] = r
      BY <2>1, <2>3, <1>1
    <3>2. ~Superseded(r, l, i - n)
      BY <2>1, <3>1, <1>3
    <3>3. r.kind # "counters" /\ \E k \in 1 .. m : l[k] = r /\ ~Superseded(r, l, k)
      BY <2>1, <3>1, <3>2
    <3> QED BY <3>3, <1>6
  <2> QED BY <2>2, <2>3
<1>8. ASSUME NEW r \in ApplyAll(Replay(x), l).records PROVE r \in Replay(j).records
  <2>1. CASE r \in Replay(x).records /\ ~Superseded(r, l, 0)
    <3>1. PICK i \in 1 .. n : x[i] = r /\ ~Superseded(r, x, i) /\ r.kind # "counters"
      BY <2>1, <1>5
    <3>2. i \in 1 .. n + m /\ i \in 0 .. n /\ j[i] = r
      BY <3>1, <1>1
    <3> QED BY <2>1, <3>1, <3>2, <1>2, <1>4
  <2>2. CASE r.kind # "counters" /\ \E i \in 1 .. m : l[i] = r /\ ~Superseded(r, l, i)
    <3>1. PICK i \in 1 .. m : l[i] = r /\ ~Superseded(r, l, i)
      BY <2>2
    <3>2. n + i \in 1 .. n + m /\ j[n + i] = r
      BY <3>1, <1>1
    <3> QED BY <2>2, <3>1, <3>2, <1>3, <1>4
  <2> QED BY <2>1, <2>2, <1>6
<1> QED BY <1>7, <1>8 DEF j

\* An entity has one record.
LEMMA OneRecord ==
    ASSUME NEW x, IsSequence(x), NEW r \in Replay(x).records, NEW s \in Replay(x).records,
           SameEntity(r, s)
    PROVE  r = s
<1>1. Len(x) \in Nat
  BY SeqIs
<1>2. PICK i \in 1 .. Len(x) : x[i] = r /\ ~Superseded(r, x, i)
  BY Standing DEF Replay, NoRecords
<1>3. PICK j \in 1 .. Len(x) : x[j] = s /\ ~Superseded(s, x, j)
  BY Standing DEF Replay, NoRecords
<1>4. CASE i = j
  BY <1>2, <1>3, <1>4
<1>5. CASE i < j
  <2>1. j \in i + 1 .. Len(x)
    BY <1>1, <1>5
  <2> QED BY <1>2, <1>3, <2>1 DEF Superseded
<1>6. CASE j < i
  <2>1. i \in j + 1 .. Len(x)
    BY <1>1, <1>6
  <2> QED BY <1>2, <1>3, <2>1, EntityIsMutual DEF Superseded
<1> QED BY <1>1, <1>4, <1>5, <1>6

\* What stands is some line.
LEMMA StandingIsLine ==
    ASSUME NEW x, IsSequence(x)
    PROVE  /\ Replay(x).records \subseteq ToSet(x)
           /\ \A r \in Replay(x).records : r.kind # "counters"
           /\ IsFiniteSet(Replay(x).records)
<1>1. ASSUME NEW r \in Replay(x).records PROVE r \in ToSet(x) /\ r.kind # "counters"
  <2>1. PICK i \in 1 .. Len(x) : x[i] = r /\ r.kind # "counters"
    BY Standing DEF Replay, NoRecords
  <2> QED BY <2>1, SeqIs
<1>2. IsFiniteSet(ToSet(x))
  BY ElementsAreFinite
<1>3. Replay(x).records \in SUBSET ToSet(x)
  BY <1>1
<1> QED BY <1>1, <1>2, <1>3, FS_Subset

\* Records that agree with each other and with what stands are added to it.
LEMMA Added ==
    ASSUME NEW m, NEW l, IsSequence(l), \A i \in 1 .. Len(l) : l[i].kind # "counters",
           \A i, j \in 1 .. Len(l) : SameEntity(l[j], l[i]) => l[i] = l[j]
    PROVE  /\ ApplyAll(m, l).records \subseteq m.records \cup ToSet(l)
           /\ ToSet(l) \subseteq ApplyAll(m, l).records
           /\ \A r \in m.records : (\A i \in 1 .. Len(l) : SameEntity(r, l[i]) => l[i] = r)
                                       => r \in ApplyAll(m, l).records
<1>1. ASSUME NEW r \in ApplyAll(m, l).records PROVE r \in m.records \cup ToSet(l)
  BY Standing, SeqIs
<1>2. ASSUME NEW r \in ToSet(l) PROVE r \in ApplyAll(m, l).records
  <2>1. PICK i \in 1 .. Len(l) : l[i] = r
    BY SeqIs
  <2>2. \A j \in 1 .. Len(l) : SameEntity(r, l[j]) => l[j] = r
    BY <2>1
  <2>3. ~Superseded(r, l, i)
    BY <2>2, NotSuperseded
  <2> QED BY <2>1, <2>3, Standing
<1>3. ASSUME NEW r \in m.records, \A i \in 1 .. Len(l) : SameEntity(r, l[i]) => l[i] = r
      PROVE  r \in ApplyAll(m, l).records
  <2>1. ~Superseded(r, l, 0)
    BY <1>3, NotSuperseded
  <2> QED BY <2>1, Standing
<1> QED BY <1>1, <1>2, <1>3

\* What a record relies on is there when there is more.
LEMMA RelyMore ==
    ASSUME NEW r, NEW m, NEW n, m.records \subseteq n.records, Relies(r, m)
    PROVE  Relies(r, n)
BY DEF Relies, Of

\* A file that has what is in force has no record that dangles.
LEMMA BasedIsWhole ==
    ASSUME NEW m, NEW x, Based(m, x)
    PROVE  Whole(Replay(x))
BY RelyMore DEF Based, Whole

\* The start of what fits, fits.
LEMMA FitsPrefix ==
    ASSUME NEW recs, NEW m, Fits(recs, m), NEW k \in 0 .. Len(recs)
    PROVE  Fits(SubSeq(recs, 1, k), m)
<1> DEFINE p == SubSeq(recs, 1, k)
<1>1. IsSequence(recs) /\ Len(recs) \in Nat
  BY SeqIs DEF Fits
<1>2. IsSequence(p) /\ Len(p) = k /\ \A i \in 1 .. k : p[i] = recs[i]
  BY <1>1, FirstOf
<1>3. ASSUME NEW i \in 1 .. k
      PROVE  /\ i \in 1 .. Len(recs) /\ p[i] = recs[i]
             /\ \A j \in 1 .. i - 1 : p[j] = recs[j]
  BY <1>1, <1>2
<1> HIDE DEF p
<1>4. ASSUME NEW i \in 1 .. Len(p)
      PROVE  /\ LogLine(p[i]) /\ p[i].kind # "counters"
             /\ \A r \in m.records : SameEntity(r, p[i]) => p[i] = r
             /\ \A j \in 1 .. Len(p) : SameEntity(p[j], p[i]) => p[i] = p[j]
             /\ Relies(p[i], m)
             /\ p[i].kind = "version" =>
                   \A b \in p[i].version.bodies :
                       Example(b) \in m.records \/ \E j \in 1 .. i - 1 : p[j] = Example(b)
  <2>1. i \in 1 .. Len(recs) /\ p[i] = recs[i] /\ \A j \in 1 .. i - 1 : p[j] = recs[j]
    BY <1>2, <1>3
  <2>2. \A j \in 1 .. Len(p) : SameEntity(p[j], p[i]) => p[i] = p[j]
    BY <1>2, <1>3, <2>1 DEF Fits
  <2> QED BY <2>1, <2>2 DEF Fits
<1>5. Fits(p, m)
  BY <1>2, <1>4 DEF Fits
<1> QED BY <1>5 DEF p

\* A number alone.
LEMMA MaxOfOne ==
    ASSUME NEW n \in Nat
    PROVE  Max({n}) = n
<1>1. IsFiniteSet({n})
  BY FS_Singleton
<1> QED BY <1>1, MaxIsGreatest

\* No floor is added by other records.
LEMMA FloorsStay ==
    ASSUME NEW l, IsSequence(l), \A i \in 1 .. Len(l) : l[i].kind # "counters"
    PROVE  /\ \A x : IsSequence(x) => /\ Replay(x \o l).datasetFloor = Replay(x).datasetFloor
                                      /\ Replay(x \o l).experimentFloor = Replay(x).experimentFloor
           /\ \A m : m.datasetFloor \in Nat /\ m.experimentFloor \in Nat
                        => /\ ApplyAll(m, l).datasetFloor = m.datasetFloor
                           /\ ApplyAll(m, l).experimentFloor = m.experimentFloor
<1>1. FloorsOf(l) = {}
  BY SeqIs DEF FloorsOf
<1>2. ASSUME NEW x, IsSequence(x)
      PROVE  /\ Replay(x \o l).datasetFloor = Replay(x).datasetFloor
             /\ Replay(x \o l).experimentFloor = Replay(x).experimentFloor
  <2>1. FloorsOf(x \o l) = FloorsOf(x)
    <3>1. ToSet(x \o l) = ToSet(x) \cup ToSet(l)
      BY <1>2, Joined
    <3> QED BY <3>1, <1>1 DEF FloorsOf
  <2> QED BY <2>1 DEF Replay, ApplyAll
<1>3. ASSUME NEW m, m.datasetFloor \in Nat, m.experimentFloor \in Nat
      PROVE  /\ ApplyAll(m, l).datasetFloor = m.datasetFloor
             /\ ApplyAll(m, l).experimentFloor = m.experimentFloor
  <2>1. {m.datasetFloor} \cup {c.datasets : c \in FloorsOf(l)} = {m.datasetFloor}
        /\ {m.experimentFloor} \cup {c.experiments : c \in FloorsOf(l)} = {m.experimentFloor}
    BY <1>1
  <2>2. ApplyAll(m, l).datasetFloor = Max({m.datasetFloor})
        /\ ApplyAll(m, l).experimentFloor = Max({m.experimentFloor})
    BY <2>1 DEF ApplyAll
  <2> QED BY <2>2, <1>3, MaxOfOne
<1> QED BY <1>2, <1>3

\* The floors of a log are numbers.
LEMMA FloorsAreNat ==
    ASSUME NEW x, IsSequence(x), \A r \in ToSet(x) : LogLine(r)
    PROVE  /\ Replay(x).datasetFloor \in Nat /\ Replay(x).experimentFloor \in Nat
           /\ \A c \in FloorsOf(x) : /\ c.datasets <= Replay(x).datasetFloor
                                     /\ c.experiments <= Replay(x).experimentFloor
           /\ Replay(x).datasetFloor \in {0} \cup {c.datasets : c \in FloorsOf(x)}
           /\ Replay(x).experimentFloor \in {0} \cup {c.experiments : c \in FloorsOf(x)}
<1> DEFINE F == FloorsOf(x)
           D == {0} \cup {c.datasets : c \in F}
           E == {0} \cup {c.experiments : c \in F}
           d == [c \in F |-> c.datasets]
           e == [c \in F |-> c.experiments]
<1>1. IsFiniteSet(F)
  <2>1. IsFiniteSet(ToSet(x)) /\ F \in SUBSET ToSet(x)
    BY ElementsAreFinite DEF FloorsOf
  <2> QED BY <2>1, FS_Subset
<1>2. \A c \in F : c.datasets \in Nat /\ c.experiments \in Nat
  BY DEF FloorsOf, LogLine, IsRecord
<1> HIDE DEF F
<1>3. IsFiniteSet({c.datasets : c \in F}) /\ IsFiniteSet({c.experiments : c \in F})
  <2>1. d \in Surjection(F, {c.datasets : c \in F})
    BY DEF Surjection
  <2>2. e \in Surjection(F, {c.experiments : c \in F})
    BY DEF Surjection
  <2> QED BY <1>1, <2>1, <2>2, FS_Surjection
<1>4. IsFiniteSet(D) /\ IsFiniteSet(E)
  <2>1. IsFiniteSet({0})
    BY FS_Singleton
  <2> QED BY <1>3, <2>1, FS_Union
<1>5. D \subseteq Nat /\ E \subseteq Nat /\ 0 \in D /\ 0 \in E
  BY <1>2
<1>6. Max(D) \in D /\ (\A n \in D : n <= Max(D)) /\ Max(E) \in E /\ (\A n \in E : n <= Max(E))
  <2> HIDE DEF D, E
  <2>1. D # {} /\ E # {}
    BY <1>5
  <2> QED BY <1>4, <1>5, <2>1, MaxIsGreatest
<1>7. Replay(x).datasetFloor = Max(D) /\ Replay(x).experimentFloor = Max(E)
  BY DEF Replay, ApplyAll, NoRecords, F
<1> QED BY <1>2, <1>5, <1>6, <1>7 DEF F

\* A file with what is in force, after more records that fit.
LEMMA StaysBased ==
    ASSUME NEW m, NEW x, IsSequence(x), Based(m, x), NEW l, Fits(l, m)
    PROVE  /\ Based(m, x \o l)
           /\ ToSet(l) \subseteq Replay(x \o l).records
           /\ Replay(x \o l).records \subseteq Replay(x).records \cup ToSet(l)
<1> DEFINE R == Replay(x)
           S == Replay(x \o l)
<1>1. /\ IsSequence(l) /\ \A i \in 1 .. Len(l) : l[i].kind # "counters"
      /\ \A i, j \in 1 .. Len(l) : SameEntity(l[j], l[i]) => l[i] = l[j]
  BY DEF Fits
<1>2. S.records = ApplyAll(R, l).records
  BY <1>1, ReplayJoined
<1>3. /\ S.records \subseteq R.records \cup ToSet(l)
      /\ ToSet(l) \subseteq S.records
      /\ \A r \in R.records : (\A i \in 1 .. Len(l) : SameEntity(r, l[i]) => l[i] = r)
                                   => r \in S.records
  BY <1>1, <1>2, Added
<1>4. S.datasetFloor = R.datasetFloor /\ S.experimentFloor = R.experimentFloor
  BY <1>1, FloorsStay
<1> HIDE DEF R, S
<1>5. m.records \subseteq S.records
  BY <1>3 DEF Based, Fits, R
<1>6. \A r \in S.records : Relies(r, m)
  <2>1. \A r \in ToSet(l) : Relies(r, m)
    BY <1>1, SeqIs DEF Fits
  <2> QED BY <2>1, <1>3 DEF Based, R
<1>7. \A b : Example(b) \in R.records => Example(b) \in S.records
  <2>1. ASSUME NEW b, NEW s, SameEntity(Example(b), s) PROVE s = Example(b)
    BY <2>1 DEF SameEntity, Example
  <2> QED BY <2>1, <1>3
<1>8. Filled(S)
  <2>1. SUFFICES ASSUME NEW v \in S.records, v.kind = "version", NEW b \in v.version.bodies
                 PROVE  Example(b) \in S.records
    BY DEF Filled, Of
  <2>2. CASE v \in R.records
    <3>1. Example(b) \in R.records
      BY <2>1, <2>2 DEF Based, Filled, Of, R
    <3> QED BY <3>1, <1>7
  <2>3. CASE v \in ToSet(l)
    <3>1. PICK i \in 1 .. Len(l) : l[i] = v
      BY <2>3, <1>1, SeqIs
    <3>2. Example(b) \in m.records \/ \E j \in 1 .. i - 1 : l[j] = Example(b)
      BY <2>1, <3>1 DEF Fits
    <3>3. ASSUME NEW j \in 1 .. i - 1, l[j] = Example(b) PROVE Example(b) \in ToSet(l)
      <4>1. j \in 1 .. Len(l)
        BY <1>1, <3>1, SeqIs
      <4> QED BY <3>3, <4>1, <1>1, SeqIs
    <3> QED BY <3>2, <3>3, <1>3, <1>5
  <2> QED BY <2>1, <2>2, <2>3, <1>3
<1> QED BY <1>3, <1>4, <1>5, <1>6, <1>8 DEF Based, R, S

\* What is in force, after an append that came back.
LEMMA MemGrows ==
    ASSUME NEW m, Filled(m), m.datasetFloor \in Nat, m.experimentFloor \in Nat, NEW l, Fits(l, m)
    PROVE  LET n == ApplyAll(m, l) IN
           /\ n.records = m.records \cup ToSet(l)
           /\ n.datasetFloor = m.datasetFloor /\ n.experimentFloor = m.experimentFloor
           /\ Filled(n)
           /\ \A x : IsSequence(x) /\ Based(m, x) => Based(n, x \o l)
<1> DEFINE n == ApplyAll(m, l)
<1>1. /\ IsSequence(l) /\ \A i \in 1 .. Len(l) : l[i].kind # "counters"
      /\ \A i, j \in 1 .. Len(l) : SameEntity(l[j], l[i]) => l[i] = l[j]
  BY DEF Fits
<1>2. n.records = m.records \cup ToSet(l)
  <2>1. /\ n.records \subseteq m.records \cup ToSet(l)
        /\ ToSet(l) \subseteq n.records
        /\ \A r \in m.records : (\A i \in 1 .. Len(l) : SameEntity(r, l[i]) => l[i] = r)
                                    => r \in n.records
    BY <1>1, Added
  <2> HIDE DEF n
  <2>2. m.records \subseteq n.records
    BY <2>1 DEF Fits
  <2> QED BY <2>1, <2>2
<1>3. n.datasetFloor = m.datasetFloor /\ n.experimentFloor = m.experimentFloor
  BY <1>1, FloorsStay
<1> HIDE DEF n
<1>4. Filled(n)
  <2>1. SUFFICES ASSUME NEW v \in n.records, v.kind = "version", NEW b \in v.version.bodies
                 PROVE  Example(b) \in n.records
    BY DEF Filled, Of
  <2>2. CASE v \in m.records
    BY <2>1, <2>2, <1>2 DEF Filled, Of
  <2>3. CASE v \in ToSet(l)
    <3>1. PICK i \in 1 .. Len(l) : l[i] = v
      BY <2>3, <1>1, SeqIs
    <3>2. Example(b) \in m.records \/ \E j \in 1 .. i - 1 : l[j] = Example(b)
      BY <2>1, <3>1 DEF Fits
    <3>3. ASSUME NEW j \in 1 .. i - 1, l[j] = Example(b) PROVE Example(b) \in ToSet(l)
      <4>1. j \in 1 .. Len(l)
        BY <1>1, <3>1, SeqIs
      <4> QED BY <3>3, <4>1, <1>1, SeqIs
    <3> QED BY <3>2, <3>3, <1>2
  <2> QED BY <2>1, <2>2, <2>3, <1>2
<1>5. ASSUME NEW x, IsSequence(x), Based(m, x) PROVE Based(n, x \o l)
  <2>1. Based(m, x \o l) /\ ToSet(l) \subseteq Replay(x \o l).records
    BY <1>5, StaysBased
  <2>2. n.records \subseteq Replay(x \o l).records
    BY <2>1, <1>2 DEF Based
  <2>3. m.records \subseteq n.records
    BY <1>2
  <2>4. \A r \in Replay(x \o l).records : Relies(r, n)
    BY <2>1, <2>3, RelyMore DEF Based
  <2> QED BY <2>1, <2>2, <2>4, <1>3 DEF Based
<1> QED BY <1>2, <1>3, <1>4, <1>5 DEF n

\* A file whose records are in force as they are, relies on nothing else.
LEMMA ReplayIsBased ==
    ASSUME NEW x, Whole(Replay(x)),
           Replay(x).datasetFloor \in Nat, Replay(x).experimentFloor \in Nat
    PROVE  Based(Replay(x), x)
BY DEF Whole, Based

----------------------------------------------------------------------------
(* Numbers.                                                                 *)

\* The next ids are above every id there is.
LEMMA NextIsNew ==
    ASSUME NEW m, IsFiniteSet(m.records), \A r \in m.records : LogLine(r),
           m.datasetFloor \in Nat, m.experimentFloor \in Nat
    PROVE  /\ NextDatasetId(m) \in Nat \ {0} /\ NextExperimentId(m) \in Nat \ {0}
           /\ \A r \in Of(m, "dataset") : r.dataset \in Nat /\ r.dataset < NextDatasetId(m)
           /\ \A r \in Of(m, "experiment") :
                 r.experiment \in Nat /\ r.experiment < NextExperimentId(m)
           /\ m.datasetFloor < NextDatasetId(m) /\ m.experimentFloor < NextExperimentId(m)
           /\ \A id \in Nat : HasDataset(m, id) => id < NextDatasetId(m)
           /\ \A id \in Nat : HasExperiment(m, id) => id < NextExperimentId(m)
<1> DEFINE D == Of(m, "dataset")
           E == Of(m, "experiment")
           dd == {r.dataset : r \in D}
           ee == {r.experiment : r \in E}
           d == [r \in D |-> r.dataset]
           e == [r \in E |-> r.experiment]
<1>1. IsFiniteSet(D) /\ IsFiniteSet(E)
  <2>1. D \in SUBSET m.records /\ E \in SUBSET m.records
    BY DEF Of
  <2> QED BY <2>1, FS_Subset
<1>2. (\A r \in D : r.dataset \in Nat) /\ (\A r \in E : r.experiment \in Nat)
  BY DEF Of, LogLine, IsRecord
<1> HIDE DEF D, E
<1>3. IsFiniteSet(dd) /\ IsFiniteSet(ee)
  <2>1. d \in Surjection(D, dd)
    BY DEF Surjection
  <2>2. e \in Surjection(E, ee)
    BY DEF Surjection
  <2> QED BY <1>1, <2>1, <2>2, FS_Surjection
<1>4. IsFiniteSet({0} \cup dd) /\ IsFiniteSet({0} \cup ee)
  <2>1. IsFiniteSet({0})
    BY FS_Singleton
  <2> QED BY <1>3, <2>1, FS_Union
<1>5. {0} \cup dd \subseteq Nat /\ {0} \cup ee \subseteq Nat
  BY <1>2
<1>6. /\ Max({0} \cup dd) \in Nat /\ \A n \in {0} \cup dd : n <= Max({0} \cup dd)
      /\ Max({0} \cup ee) \in Nat /\ \A n \in {0} \cup ee : n <= Max({0} \cup ee)
  <2> HIDE DEF dd, ee
  <2> QED BY <1>4, <1>5, MaxIsGreatest
<1>7. NextDatasetId(m) = Larger(m.datasetFloor, Max({0} \cup dd)) + 1
      /\ NextExperimentId(m) = Larger(m.experimentFloor, Max({0} \cup ee)) + 1
  BY DEF NextDatasetId, NextExperimentId, D, E
<1>8. /\ \A r \in D : r.dataset <= Max({0} \cup dd)
      /\ \A r \in E : r.experiment <= Max({0} \cup ee)
  <2>1. (\A r \in D : r.dataset \in {0} \cup dd) /\ (\A r \in E : r.experiment \in {0} \cup ee)
    OBVIOUS
  <2> QED BY <2>1, <1>6
<1> HIDE DEF dd, ee
<1>9. /\ NextDatasetId(m) \in Nat \ {0} /\ NextExperimentId(m) \in Nat \ {0}
      /\ Max({0} \cup dd) < NextDatasetId(m) /\ Max({0} \cup ee) < NextExperimentId(m)
      /\ m.datasetFloor < NextDatasetId(m) /\ m.experimentFloor < NextExperimentId(m)
  BY <1>6, <1>7 DEF Larger
<1>10. /\ \A r \in D : r.dataset \in Nat /\ r.dataset < NextDatasetId(m)
       /\ \A r \in E : r.experiment \in Nat /\ r.experiment < NextExperimentId(m)
  <2> DEFINE p == Max({0} \cup dd)
             q == Max({0} \cup ee)
  <2>1. p \in Nat /\ q \in Nat /\ p < NextDatasetId(m) /\ q < NextExperimentId(m)
        /\ (\A r \in D : r.dataset <= p) /\ (\A r \in E : r.experiment <= q)
    BY <1>6, <1>8, <1>9
  <2> HIDE DEF p, q
  <2> QED BY <2>1, <1>2, <1>9
<1>11. \A id \in Nat : HasDataset(m, id) => id < NextDatasetId(m)
  BY <1>9, <1>10 DEF HasDataset, D, Of
<1>12. \A id \in Nat : HasExperiment(m, id) => id < NextExperimentId(m)
  BY <1>9, <1>10 DEF HasExperiment, E, Of
<1> QED BY <1>9, <1>10, <1>11, <1>12 DEF D, E

\* What a rewritten log replays to.
LEMMA RewrittenReplay ==
    ASSUME NEW S, IsFiniteSet(S), \A r \in S : LogLine(r) /\ r.kind # "counters",
           \A r, s \in S : SameEntity(r, s) => r = s,
           NEW d \in Nat, NEW e \in Nat
    PROVE  LET x == <<Counters(d, e)>> \o SetToSeq(S) IN
           /\ IsSequence(x) /\ ToSet(x) = {Counters(d, e)} \cup S
           /\ Replay(x).records = S
           /\ Replay(x).datasetFloor = d /\ Replay(x).experimentFloor = e
<1> DEFINE c == Counters(d, e)
           s == SetToSeq(S)
           x == <<c>> \o s
<1>1. IsSequence(s) /\ ToSet(s) = S /\ \A i \in 1 .. Len(s) : s[i] \in S
  BY SetAsSeq, SeqIs
<1>2. IsSequence(<<c>>) /\ ToSet(<<c>>) = {c} /\ Len(<<c>>) = 1 /\ <<c>>[1] = c
  BY Single
<1>3. c.kind = "counters" /\ c.datasets = d /\ c.experiments = e
  BY DEF Counters
<1> HIDE DEF c, s
<1>4. IsSequence(x) /\ ToSet(x) = {c} \cup S
  BY <1>1, <1>2, Joined
<1>5. Replay(<<c>>).records = {}
  BY <1>2, <1>3, Standing DEF Replay, NoRecords
<1>6. Replay(x).records = S
  <2>1. Replay(x).records = ApplyAll(Replay(<<c>>), s).records
    BY <1>1, <1>2, ReplayJoined
  <2>2. /\ \A i \in 1 .. Len(s) : s[i].kind # "counters"
        /\ \A i, j \in 1 .. Len(s) : SameEntity(s[j], s[i]) => s[i] = s[j]
    BY <1>1
  <2>3. /\ ApplyAll(Replay(<<c>>), s).records \subseteq Replay(<<c>>).records \cup ToSet(s)
        /\ ToSet(s) \subseteq ApplyAll(Replay(<<c>>), s).records
    BY <1>1, <2>2, Added
  <2> QED BY <2>1, <2>3, <1>1, <1>5
<1>7. FloorsOf(x) = {c}
  <2>1. \A r : r \in FloorsOf(x) <=> r \in {c} \cup S /\ r.kind = "counters"
    BY <1>4 DEF FloorsOf
  <2>2. \A r \in S : r.kind # "counters"
    OBVIOUS
  <2>3. \A r : r \in FloorsOf(x) <=> r = c
    BY <2>1, <2>2, <1>3
  <2> QED BY <2>3
<1>8. \A r \in ToSet(x) : LogLine(r)
  <2>1. LogLine(c)
    BY DEF LogLine, IsRecord, Counters, c
  <2> QED BY <2>1, <1>4
<1>9. Replay(x).datasetFloor = d /\ Replay(x).experimentFloor = e
  <2> HIDE DEF x
  <2>1. /\ Replay(x).datasetFloor \in Nat /\ Replay(x).experimentFloor \in Nat
        /\ c.datasets <= Replay(x).datasetFloor /\ c.experiments <= Replay(x).experimentFloor
        /\ Replay(x).datasetFloor \in {0} \cup {c.datasets}
        /\ Replay(x).experimentFloor \in {0} \cup {c.experiments}
    BY <1>4, <1>7, <1>8, FloorsAreNat
  <2> QED BY <2>1, <1>3
<1> QED BY <1>4, <1>6, <1>9 DEF c, s

----------------------------------------------------------------------------
(* The invariant.                                                           *)

LogKinds == {"dataset", "version", "experiment", "run", "tombstone"}
NoteKinds == {"score", "note"}

IsNote(a) == a.kind \in NoteKinds /\ a.tenant \in Tenants

FilesInv ==
    /\ FileTyped(log) /\ \A r \in ToSet(log.lines) : r # Torn => LogLine(r)
    /\ FileTyped(notes) /\ \A a \in ToSet(notes.lines) : a # Torn => IsNote(a)
    /\ up => Closed(log) /\ Closed(notes)

ControlInv ==
    /\ up \in BOOLEAN
    /\ scope \in Scopes
    /\ erasures \in Nat
    /\ pending \subseteq Tenants
    /\ stage \in [Tenants -> {"idle", "notes", "evals", "settle"}]
    /\ \A t \in Tenants : (stage[t] # "idle") <=> (t \in pending)

\* Whatever a loss of power leaves of the log, it is whole, and while the process is up
\* it has what is in force.
FoundInv ==
    /\ \A x \in Left(log) : Whole(Replay(x))
    /\ mem.datasetFloor \in Nat /\ mem.experimentFloor \in Nat
    /\ up => Filled(mem) /\ \A x \in Left(log) : Based(mem, x)

HasIds(m) ==
    /\ \A id \in ToSet(issued.datasets) : HasDataset(m, id)
    /\ \A id \in ToSet(issued.experiments) : HasExperiment(m, id)

\* The ids answered are numbers, none of them twice, and nothing forgets them.
IdsInv ==
    /\ issued = [datasets |-> issued.datasets, experiments |-> issued.experiments]
    /\ \A s \in {issued.datasets, issued.experiments} :
          IsSequence(s) /\ IsInjective(s) /\ ToSet(s) \subseteq Nat
    /\ up => HasIds(mem)
    /\ \A x \in Left(log) : HasIds(Replay(x))

\* What was answered is in force and in the files.
AckedInv ==
    /\ \A r \in acked : r.kind \in LogKinds \cup NoteKinds /\ r.tenant \notin pending
    /\ \A r \in acked : r.kind \in LogKinds =>
          /\ up => r \in mem.records
          /\ \A x \in Left(log) : r \in Replay(x).records
    /\ \A a \in acked : a.kind \in NoteKinds =>
          /\ up => a \in entries
          /\ \A x \in Left(notes) : a \in ToSet(x)

\* The annotations in force are in the file.
NotesInv == up => \A x \in Left(notes) : entries \subseteq ToSet(x)

EvalsInv == FilesInv /\ ControlInv /\ FoundInv /\ IdsInv /\ AckedInv /\ NotesInv

\* What is in force while the process is up.
LEMMA InForce ==
    ASSUME FilesInv, FoundInv, up
    PROVE  /\ IsFiniteSet(mem.records)
           /\ \A r \in mem.records : LogLine(r) /\ r.kind # "counters" /\ Relies(r, mem)
           /\ \A r, s \in mem.records : SameEntity(r, s) => r = s
           /\ Healed(log.lines) = log.lines /\ log.lines \in Left(log) /\ IsSequence(log.lines)
<1>1. IsSequence(log.lines) /\ Torn \notin ToSet(log.lines) /\ FileTyped(log)
  BY DEF FilesInv, FileTyped, Closed
<1>2. Healed(log.lines) = log.lines /\ log.lines \in Left(log)
  BY <1>1, ClosedOpens, LeftIs
<1>3. Based(mem, log.lines)
  BY <1>2 DEF FoundInv
<1>4. /\ Replay(log.lines).records \subseteq ToSet(log.lines)
      /\ \A r \in Replay(log.lines).records : r.kind # "counters"
      /\ IsFiniteSet(Replay(log.lines).records)
  BY <1>1, StandingIsLine
<1>5. mem.records \in SUBSET Replay(log.lines).records
  BY <1>3 DEF Based
<1>6. IsFiniteSet(mem.records)
  BY <1>4, <1>5, FS_Subset
<1>7. \A r \in mem.records : LogLine(r) /\ r.kind # "counters" /\ Relies(r, mem)
  <2>1. \A r \in ToSet(log.lines) : LogLine(r)
    BY <1>1 DEF FilesInv
  <2> QED BY <2>1, <1>3, <1>4, <1>5 DEF Based
<1>8. \A r, s \in mem.records : SameEntity(r, s) => r = s
  BY <1>1, <1>5, OneRecord
<1> QED BY <1>1, <1>2, <1>6, <1>7, <1>8

\* Lines that fit are no torn ones.
LEMMA FitsAreLines ==
    ASSUME NEW recs, NEW m, Fits(recs, m)
    PROVE  /\ IsSequence(recs) /\ Torn \notin ToSet(recs)
           /\ \A r \in ToSet(recs) : LogLine(r) /\ r.kind # "counters"
<1>1. IsSequence(recs)
  BY DEF Fits
<1>2. \A r \in ToSet(recs) : LogLine(r) /\ r.kind # "counters"
  BY <1>1, SeqIs DEF Fits
<1>3. ~LogLine(Torn)
  BY DEF LogLine, IsRecord, Torn
<1> QED BY <1>1, <1>2, <1>3

\* A mutation with lines that fit leaves files that have what is in force after it.
LEMMA MutateGrows ==
    ASSUME FilesInv, FoundInv, NEW t, NEW recs, NEW o, Mutate(t, recs, o), Fits(recs, mem)
    PROVE  /\ up
           /\ mem.records \subseteq mem'.records
           /\ mem'.records \subseteq mem.records \cup ToSet(recs)
           /\ mem'.datasetFloor = mem.datasetFloor /\ mem'.experimentFloor = mem.experimentFloor
           /\ Filled(mem')
           /\ \A x \in Left(log') : Based(mem', x)
           /\ FileTyped(log') /\ (up' => Closed(log'))
           /\ \A r \in ToSet(log'.lines) : r # Torn => LogLine(r)
           /\ o = "ok" => /\ mem'.records = mem.records \cup ToSet(recs)
                          /\ acked' = acked \cup {r \in ToSet(recs) : r.kind # "example"}
           /\ o # "ok" => mem' = mem /\ acked' = acked
<1>1. /\ up /\ up' = (o # "died")
      /\ log' \in Appended(log, recs, o)
      /\ o = "ok" => /\ mem' = ApplyAll(mem, recs)
                     /\ acked' = acked \cup {r \in ToSet(recs) : r.kind # "example"}
      /\ o # "ok" => mem' = mem /\ acked' = acked
  BY DEF Mutate, Outcome
<1>2. /\ IsSequence(recs) /\ Torn \notin ToSet(recs)
      /\ \A r \in ToSet(recs) : LogLine(r) /\ r.kind # "counters"
  BY FitsAreLines
<1>3. /\ FileTyped(log) /\ Closed(log) /\ log.lines \in Left(log) /\ IsSequence(log.lines)
      /\ \A x \in Left(log) : Based(mem, x) /\ IsSequence(x)
  BY <1>1, InForce, LeftIs DEF FilesInv, FoundInv
<1>4. /\ FileTyped(log') /\ (o # "died" => Closed(log'))
      /\ ToSet(log'.lines) \subseteq ToSet(log.lines) \cup ToSet(recs) \cup {Torn}
      /\ o = "ok" => Left(log') = {log.lines \o recs}
      /\ \A x \in Left(log') : x \in Left(log) \/ Continues(x, log.lines, recs)
  BY <1>1, <1>2, <1>3, AppendLeaves
<1>5. \A r \in ToSet(log'.lines) : r # Torn => LogLine(r)
  BY <1>2, <1>4 DEF FilesInv
<1>6. CASE o = "ok"
  <2>1. /\ mem'.records = mem.records \cup ToSet(recs)
        /\ mem'.datasetFloor = mem.datasetFloor /\ mem'.experimentFloor = mem.experimentFloor
        /\ Filled(mem')
        /\ \A x : IsSequence(x) /\ Based(mem, x) => Based(mem', x \o recs)
    BY <1>1, <1>6, MemGrows DEF FoundInv
  <2>2. \A x \in Left(log') : Based(mem', x)
    <3>1. Based(mem', log.lines \o recs)
      BY <1>3, <2>1
    <3> QED BY <3>1, <1>4, <1>6
  <2> QED BY <1>1, <1>4, <1>5, <1>6, <2>1, <2>2
<1>7. CASE o # "ok"
  <2>1. ASSUME NEW x \in Left(log') PROVE Based(mem, x)
    <3>1. CASE x \in Left(log)
      BY <3>1, <1>3
    <3>2. CASE Continues(x, log.lines, recs)
      <4>1. PICK k \in 0 .. Len(recs) : x = log.lines \o SubSeq(recs, 1, k)
        BY <3>2 DEF Continues
      <4>2. Fits(SubSeq(recs, 1, k), mem)
        BY FitsPrefix
      <4>3. Based(mem, log.lines \o SubSeq(recs, 1, k))
        BY <4>2, <1>3, StaysBased
      <4> QED BY <4>1, <4>3
    <3> QED BY <3>1, <3>2, <1>4
  <2>2. mem' = mem /\ Filled(mem)
    BY <1>1, <1>7 DEF FoundInv
  <2> QED BY <1>1, <1>4, <1>5, <1>7, <2>1, <2>2
<1> QED BY <1>6, <1>7

\* What has all of it, has the ids.
LEMMA BasedHasIds ==
    ASSUME NEW m, NEW x, IsSequence(x), \A r \in ToSet(x) : LogLine(r),
           Based(m, x), m.datasetFloor \in Nat, m.experimentFloor \in Nat
    PROVE  /\ \A id \in Nat : HasDataset(m, id) => HasDataset(Replay(x), id)
           /\ \A id \in Nat : HasExperiment(m, id) => HasExperiment(Replay(x), id)
<1>1. Replay(x).datasetFloor \in Nat /\ Replay(x).experimentFloor \in Nat
  BY FloorsAreNat
<1> QED BY <1>1 DEF Based, HasDataset, HasExperiment

\* A number that none before it reaches.
LEMMA NewAtEnd ==
    ASSUME NEW s, IsSequence(s), IsInjective(s), ToSet(s) \subseteq Nat,
           NEW id \in Nat, \A i \in ToSet(s) : i < id
    PROVE  /\ IsSequence(Append(s, id)) /\ IsInjective(Append(s, id))
           /\ ToSet(Append(s, id)) = ToSet(s) \cup {id}
<1> DEFINE u == Append(s, id)
           n == Len(s)
<1>1. IsSequence(<<id>>) /\ Len(<<id>>) = 1 /\ <<id>>[1] = id /\ ToSet(<<id>>) = {id}
  BY Single
<1>2. u = s \o <<id>>
  BY AppendIs
<1>3. /\ IsSequence(u) /\ Len(u) = n + 1 /\ ToSet(u) = ToSet(s) \cup {id}
      /\ \A i \in 1 .. n : u[i] = s[i]
      /\ u[n + 1] = id
  <2>1. 1 \in 1 .. Len(<<id>>)
    BY <1>1
  <2> QED BY <1>1, <1>2, <2>1, Joined
<1>4. n \in Nat /\ DOMAIN s = 1 .. n /\ \A i \in 1 .. n : s[i] \in ToSet(s)
  BY SeqIs
<1> HIDE DEF u
<1>5. DOMAIN u = 1 .. n + 1
  BY <1>3, SeqIs
<1>6. ASSUME NEW a \in 1 .. n + 1, NEW b \in 1 .. n + 1, u[a] = u[b] PROVE a = b
  <2>1. \A i \in 1 .. n : u[i] < id
    BY <1>3, <1>4
  <2>2. (a = n + 1 \/ a \in 1 .. n) /\ (b = n + 1 \/ b \in 1 .. n)
    BY <1>4
  <2>3. CASE a \in 1 .. n /\ b \in 1 .. n
    BY <2>3, <1>3, <1>4, <1>6 DEF IsInjective
  <2>4. CASE a \in 1 .. n /\ b = n + 1
    BY <2>1, <2>4, <1>3, <1>6
  <2>5. CASE b \in 1 .. n /\ a = n + 1
    BY <2>1, <2>5, <1>3, <1>6
  <2> QED BY <2>2, <2>3, <2>4, <2>5
<1>7. IsInjective(u)
  BY <1>5, <1>6 DEF IsInjective
<1> QED BY <1>3, <1>7 DEF u

----------------------------------------------------------------------------
(* The mutations of the log.                                                *)

\* What a mutation of fitting lines keeps: everything, and it forgets no id.
LEMMA MutateKeeps ==
    ASSUME EvalsInv, NEW t \in Tenants, NEW recs, NEW o, Mutate(t, recs, o), Fits(recs, mem),
           \A r \in ToSet(recs) : r.kind # "example" => r.tenant = t
    PROVE  /\ FilesInv' /\ ControlInv' /\ FoundInv' /\ AckedInv' /\ NotesInv'
           /\ \A id \in Nat : HasDataset(mem, id) =>
                 HasDataset(mem', id) /\ \A x \in Left(log') : HasDataset(Replay(x), id)
           /\ \A id \in Nat : HasExperiment(mem, id) =>
                 HasExperiment(mem', id) /\ \A x \in Left(log') : HasExperiment(Replay(x), id)
           /\ o = "ok" => \A r \in ToSet(recs) :
                 /\ r.kind = "dataset" =>
                       /\ HasDataset(mem', r.dataset)
                       /\ \A x \in Left(log') : HasDataset(Replay(x), r.dataset)
                 /\ r.kind = "experiment" =>
                       /\ HasExperiment(mem', r.experiment)
                       /\ \A x \in Left(log') : HasExperiment(Replay(x), r.experiment)
<1>1. /\ up
      /\ mem.records \subseteq mem'.records
      /\ mem'.records \subseteq mem.records \cup ToSet(recs)
      /\ mem'.datasetFloor = mem.datasetFloor /\ mem'.experimentFloor = mem.experimentFloor
      /\ Filled(mem')
      /\ \A x \in Left(log') : Based(mem', x)
      /\ FileTyped(log') /\ (up' => Closed(log'))
      /\ \A r \in ToSet(log'.lines) : r # Torn => LogLine(r)
      /\ o = "ok" => /\ mem'.records = mem.records \cup ToSet(recs)
                     /\ acked' = acked \cup {r \in ToSet(recs) : r.kind # "example"}
      /\ o # "ok" => mem' = mem /\ acked' = acked
  BY MutateGrows DEF EvalsInv
<1>2. /\ notes' = notes /\ entries' = entries /\ pending' = pending /\ stage' = stage
      /\ scope' = scope /\ erasures' = erasures /\ t \notin pending
      /\ up' = (o # "died")
  BY DEF Mutate, Outcome
<1>3. mem.datasetFloor \in Nat /\ mem.experimentFloor \in Nat
  BY DEF EvalsInv, FoundInv
<1>4. FilesInv'
  BY <1>1, <1>2 DEF EvalsInv, FilesInv, Closed
<1>5. ControlInv'
  BY <1>2 DEF EvalsInv, ControlInv
<1>6. FoundInv'
  <2>1. \A x \in Left(log') : Whole(Replay(x))
    BY <1>1, BasedIsWhole
  <2> QED BY <2>1, <1>1, <1>3 DEF FoundInv, Left, Filled, Of
<1>7. AckedInv'
  <2>1. \A r \in ToSet(recs) : r.kind # "example" => r.kind \in LogKinds /\ r.kind \notin NoteKinds
    <3>1. \A r \in ToSet(recs) : LogLine(r) /\ r.kind # "counters"
      BY FitsAreLines
    <3> QED BY <3>1 DEF LogLine, IsRecord, LogKinds, NoteKinds
  <2>2. ASSUME NEW r \in acked'
        PROVE  /\ r.kind \in LogKinds \cup NoteKinds /\ r.tenant \notin pending'
               /\ r.kind \in LogKinds => r \in mem'.records
               /\ r.kind \in NoteKinds => r \in acked
    <3>1. CASE r \in acked
      BY <3>1, <1>1, <1>2 DEF EvalsInv, AckedInv
    <3>2. CASE r \notin acked
      <4>1. o = "ok" /\ r \in ToSet(recs) /\ r.kind # "example"
        BY <3>2, <1>1
      <4> QED BY <4>1, <2>1, <1>1, <1>2
    <3> QED BY <3>1, <3>2
  <2>3. \A r \in acked' : r.kind \in LogKinds => \A x \in Left(log') : r \in Replay(x).records
    BY <2>2, <1>1 DEF Based
  <2>4. \A a \in acked' : a.kind \in NoteKinds =>
            (up' => a \in entries') /\ \A x \in Left(notes') : a \in ToSet(x)
    BY <2>2, <1>1, <1>2 DEF EvalsInv, AckedInv
  <2> QED BY <2>2, <2>3, <2>4 DEF AckedInv, Left
<1>8. NotesInv'
  BY <1>1, <1>2 DEF EvalsInv, NotesInv
<1>9. \A x \in Left(log') : IsSequence(x) /\ \A r \in ToSet(x) : LogLine(r)
  <2>1. ASSUME NEW x \in Left(log') PROVE IsSequence(x) /\ \A r \in ToSet(x) : LogLine(r)
    <3>1. IsSequence(x) /\ ToSet(x) \subseteq ToSet(log'.lines) /\ Torn \notin ToSet(x)
      BY <1>1, LeftIs
    <3> QED BY <3>1, <1>1
  <2> QED BY <2>1
<1>10. \A x \in Left(log') :
          /\ \A id \in Nat : HasDataset(mem', id) => HasDataset(Replay(x), id)
          /\ \A id \in Nat : HasExperiment(mem', id) => HasExperiment(Replay(x), id)
  BY <1>1, <1>3, <1>9, BasedHasIds
<1>11. /\ \A id \in Nat : HasDataset(mem, id) => HasDataset(mem', id)
       /\ \A id \in Nat : HasExperiment(mem, id) => HasExperiment(mem', id)
  BY <1>1 DEF HasDataset, HasExperiment
<1>12. ASSUME o = "ok", NEW r \in ToSet(recs)
       PROVE  /\ r.kind = "dataset" => r.dataset \in Nat /\ HasDataset(mem', r.dataset)
              /\ r.kind = "experiment" => r.experiment \in Nat /\ HasExperiment(mem', r.experiment)
  <2>1. LogLine(r) /\ r \in mem'.records
    BY <1>1, <1>12, FitsAreLines
  <2> QED BY <2>1 DEF HasDataset, HasExperiment, LogLine, IsRecord
<1> QED BY <1>4, <1>5, <1>6, <1>7, <1>8, <1>10, <1>11, <1>12

\* No id is answered, and none is forgotten.
LEMMA IdsStay ==
    ASSUME EvalsInv, up, issued' = issued,
           \A id \in Nat : HasDataset(mem, id) =>
                 HasDataset(mem', id) /\ \A x \in Left(log') : HasDataset(Replay(x), id),
           \A id \in Nat : HasExperiment(mem, id) =>
                 HasExperiment(mem', id) /\ \A x \in Left(log') : HasExperiment(Replay(x), id)
    PROVE  IdsInv'
<1>1. /\ ToSet(issued.datasets) \subseteq Nat /\ ToSet(issued.experiments) \subseteq Nat
      /\ HasIds(mem)
  BY DEF EvalsInv, IdsInv
<1>2. HasIds(mem)' /\ \A x \in Left(log') : HasIds(Replay(x))'
  BY <1>1 DEF HasIds
<1> QED BY <1>2 DEF EvalsInv, IdsInv, HasIds, Left

\* A record alone.
LEMMA FitsOne ==
    ASSUME NEW r, NEW m, LogLine(r), r.kind \notin {"counters", "version"}, Relies(r, m),
           \A s \in m.records : SameEntity(s, r) => r = s
    PROVE  Fits(<<r>>, m) /\ ToSet(<<r>>) = {r}
<1>1. IsSequence(<<r>>) /\ Len(<<r>>) = 1 /\ <<r>>[1] = r /\ ToSet(<<r>>) = {r}
  BY Single
<1> DEFINE l == <<r>>
<1> HIDE DEF l
<1>2. \A i \in 1 .. Len(l) : l[i] = r
  BY <1>1 DEF l
<1>3. IsSequence(l)
  BY <1>1 DEF l
<1>4. Fits(l, m)
  BY <1>2, <1>3 DEF Fits
<1> QED BY <1>1, <1>4 DEF l

\* A dataset of the next id is a record that can be added.
LEMMA DatasetIsNew ==
    ASSUME EvalsInv, up, NEW t \in Tenants
    PROVE  LET id == NextDatasetId(mem)
               r == Dataset(id, t)
           IN  /\ id \in Nat \ {0} /\ \A i \in Nat : HasDataset(mem, i) => i < id
               /\ r.kind = "dataset" /\ r.dataset = id /\ r.tenant = t
               /\ Fits(<<r>>, mem) /\ ToSet(<<r>>) = {r}
<1> DEFINE id == NextDatasetId(mem)
           r == Dataset(id, t)
<1>2. /\ IsFiniteSet(mem.records)
      /\ \A s \in mem.records : LogLine(s)
      /\ mem.datasetFloor \in Nat /\ mem.experimentFloor \in Nat
  BY InForce DEF EvalsInv, FoundInv
<1>3. /\ id \in Nat \ {0}
      /\ \A s \in Of(mem, "dataset") : s.dataset < id
      /\ \A i \in Nat : HasDataset(mem, i) => i < id
  BY <1>2, NextIsNew
<1> HIDE DEF id
<1>4. r.kind = "dataset" /\ r.dataset = id /\ r.tenant = t /\ r = Dataset(r.dataset, r.tenant)
  BY DEF Dataset
<1> HIDE DEF r
<1>5. LogLine(r) /\ Relies(r, mem)
  BY <1>3, <1>4 DEF LogLine, IsRecord, Relies
<1>6. ASSUME NEW s \in mem.records, SameEntity(s, r) PROVE r = s
  <2>1. s = r \/ (s.kind = "dataset" /\ s.dataset = id)
    BY <1>4, <1>6 DEF SameEntity
  <2>2. ASSUME s.kind = "dataset", s.dataset = id PROVE FALSE
    <3>1. s.dataset < id /\ id \in Nat
      BY <2>2, <1>3 DEF Of
    <3> QED BY <2>2, <3>1
  <2> QED BY <2>1, <2>2
<1>7. Fits(<<r>>, mem) /\ ToSet(<<r>>) = {r}
  BY <1>4, <1>5, <1>6, FitsOne
<1> QED BY <1>3, <1>4, <1>7 DEF r, id

\* The creation of a dataset.
LEMMA CreateDatasetKeeps ==
    ASSUME EvalsInv, NEW t \in Tenants, NEW o, CreateDataset(t, o)
    PROVE  EvalsInv'
<1> DEFINE id == NextDatasetId(mem)
           r == Dataset(id, t)
<1>1. up /\ Mutate(t, <<r>>, o)
      /\ issued' = IF o = "ok" THEN [issued EXCEPT !.datasets = Append(@, id)] ELSE issued
  BY DEF CreateDataset, Mutate, Outcome
<1>3. /\ id \in Nat \ {0} /\ \A i \in Nat : HasDataset(mem, i) => i < id
      /\ r.kind = "dataset" /\ r.dataset = id /\ r.tenant = t
      /\ Fits(<<r>>, mem) /\ ToSet(<<r>>) = {r}
  BY <1>1, DatasetIsNew
<1> HIDE DEF id, r
<1>8. /\ FilesInv' /\ ControlInv' /\ FoundInv' /\ AckedInv' /\ NotesInv'
      /\ \A i \in Nat : HasDataset(mem, i) =>
            HasDataset(mem', i) /\ \A x \in Left(log') : HasDataset(Replay(x), i)
      /\ \A i \in Nat : HasExperiment(mem, i) =>
            HasExperiment(mem', i) /\ \A x \in Left(log') : HasExperiment(Replay(x), i)
      /\ o = "ok" => HasDataset(mem', id) /\ \A x \in Left(log') : HasDataset(Replay(x), id)
  BY <1>1, <1>3, MutateKeeps
<1>9. CASE o # "ok"
  <2>1. issued' = issued
    BY <1>1, <1>9
  <2>2. IdsInv'
    BY <1>1, <1>8, <2>1, IdsStay
  <2> QED BY <1>8, <2>2 DEF EvalsInv
<1>10. CASE o = "ok"
  <2> DEFINE s == issued.datasets
             u == Append(s, id)
  <2>1. /\ issued = [datasets |-> s, experiments |-> issued.experiments]
        /\ IsSequence(s) /\ IsInjective(s) /\ ToSet(s) \subseteq Nat
        /\ HasIds(mem)
    BY <1>1 DEF EvalsInv, IdsInv
  <2>2. \A i \in ToSet(s) : i < id
    BY <1>3, <2>1 DEF HasIds
  <2>3. IsSequence(u) /\ IsInjective(u) /\ ToSet(u) = ToSet(s) \cup {id}
    BY <1>3, <2>1, <2>2, NewAtEnd
  <2> HIDE DEF u
  <2>4. issued' = [datasets |-> u, experiments |-> issued.experiments]
    BY <1>1, <1>10, <2>1 DEF u
  <2>5. issued'.datasets = u /\ issued'.experiments = issued.experiments
    BY <2>4
  <2>6. /\ IsSequence(issued.experiments) /\ IsInjective(issued.experiments)
        /\ ToSet(issued.experiments) \subseteq Nat
    BY DEF EvalsInv, IdsInv
  <2>7. HasIds(mem)' /\ \A x \in Left(log') : HasIds(Replay(x))'
    BY <1>8, <1>10, <2>1, <2>3, <2>5, <2>6 DEF HasIds
  <2>8. ToSet(u) \subseteq Nat
    BY <1>3, <2>1, <2>3
  <2>9. IdsInv'
    BY <2>3, <2>4, <2>5, <2>6, <2>7, <2>8 DEF IdsInv, HasIds, Left
  <2> QED BY <1>8, <2>9 DEF EvalsInv
<1> QED BY <1>9, <1>10

\* An experiment of the next id is a record that can be added.
LEMMA ExperimentIsNew ==
    ASSUME EvalsInv, up, NEW v \in Of(mem, "version")
    PROVE  LET id == NextExperimentId(mem)
               r == Experiment(id, v.version, v.tenant)
           IN  /\ id \in Nat \ {0} /\ \A i \in Nat : HasExperiment(mem, i) => i < id
               /\ v.tenant \in Tenants
               /\ r.kind = "experiment" /\ r.experiment = id /\ r.tenant = v.tenant
               /\ Fits(<<r>>, mem) /\ ToSet(<<r>>) = {r}
<1> DEFINE id == NextExperimentId(mem)
           r == Experiment(id, v.version, v.tenant)
<1>2. /\ IsFiniteSet(mem.records)
      /\ \A s \in mem.records : LogLine(s)
      /\ mem.datasetFloor \in Nat /\ mem.experimentFloor \in Nat
  BY InForce DEF EvalsInv, FoundInv
<1>3. /\ id \in Nat \ {0}
      /\ \A s \in Of(mem, "experiment") : s.experiment < id
      /\ \A i \in Nat : HasExperiment(mem, i) => i < id
  BY <1>2, NextIsNew
<1> HIDE DEF id
<1>4. /\ r.kind = "experiment" /\ r.experiment = id /\ r.tenant = v.tenant /\ r.on = v.version
      /\ r = Experiment(r.experiment, r.on, r.tenant)
  BY DEF Experiment
<1> HIDE DEF r
<1>5. v \in mem.records /\ v = Version(v.version, v.tenant) /\ v.tenant \in Tenants
  BY <1>2 DEF Of, LogLine, IsRecord
<1>6. LogLine(r) /\ Relies(r, mem)
  BY <1>3, <1>4, <1>5 DEF LogLine, IsRecord, Relies
<1>7. ASSUME NEW s \in mem.records, SameEntity(s, r) PROVE r = s
  <2>1. s = r \/ (s.kind = "experiment" /\ s.experiment = id)
    BY <1>4, <1>7 DEF SameEntity
  <2>2. ASSUME s.kind = "experiment", s.experiment = id PROVE FALSE
    <3>1. s.experiment < id /\ id \in Nat
      BY <2>2, <1>3 DEF Of
    <3> QED BY <2>2, <3>1
  <2> QED BY <2>1, <2>2
<1>8. Fits(<<r>>, mem) /\ ToSet(<<r>>) = {r}
  BY <1>4, <1>6, <1>7, FitsOne
<1> QED BY <1>3, <1>4, <1>5, <1>8 DEF r, id

\* The creation of an experiment.
LEMMA CreateExperimentKeeps ==
    ASSUME EvalsInv, NEW who, NEW v \in Of(mem, "version"), NEW o, CreateExperiment(who, v, o)
    PROVE  EvalsInv'
<1> DEFINE id == NextExperimentId(mem)
           r == Experiment(id, v.version, v.tenant)
<1>1. up /\ Mutate(v.tenant, <<r>>, o)
      /\ issued' = IF o = "ok" THEN [issued EXCEPT !.experiments = Append(@, id)] ELSE issued
  BY DEF CreateExperiment, Mutate, Outcome
<1>3. /\ id \in Nat \ {0} /\ \A i \in Nat : HasExperiment(mem, i) => i < id
      /\ v.tenant \in Tenants
      /\ r.kind = "experiment" /\ r.experiment = id /\ r.tenant = v.tenant
      /\ Fits(<<r>>, mem) /\ ToSet(<<r>>) = {r}
  BY <1>1, ExperimentIsNew
<1> HIDE DEF id, r
<1>9. /\ FilesInv' /\ ControlInv' /\ FoundInv' /\ AckedInv' /\ NotesInv'
      /\ \A i \in Nat : HasDataset(mem, i) =>
            HasDataset(mem', i) /\ \A x \in Left(log') : HasDataset(Replay(x), i)
      /\ \A i \in Nat : HasExperiment(mem, i) =>
            HasExperiment(mem', i) /\ \A x \in Left(log') : HasExperiment(Replay(x), i)
      /\ o = "ok" => HasExperiment(mem', id) /\ \A x \in Left(log') : HasExperiment(Replay(x), id)
  BY <1>1, <1>3, MutateKeeps
<1>10. CASE o # "ok"
  <2>1. issued' = issued
    BY <1>1, <1>10
  <2>2. IdsInv'
    BY <1>1, <1>9, <2>1, IdsStay
  <2> QED BY <1>9, <2>2 DEF EvalsInv
<1>11. CASE o = "ok"
  <2> DEFINE s == issued.experiments
             u == Append(s, id)
  <2>1. /\ issued = [datasets |-> issued.datasets, experiments |-> s]
        /\ IsSequence(s) /\ IsInjective(s) /\ ToSet(s) \subseteq Nat
        /\ HasIds(mem)
    BY <1>1 DEF EvalsInv, IdsInv
  <2>2. \A i \in ToSet(s) : i < id
    BY <1>3, <2>1 DEF HasIds
  <2>3. IsSequence(u) /\ IsInjective(u) /\ ToSet(u) = ToSet(s) \cup {id}
    BY <1>3, <2>1, <2>2, NewAtEnd
  <2> HIDE DEF u
  <2>4. issued' = [datasets |-> issued.datasets, experiments |-> u]
    BY <1>1, <1>11, <2>1 DEF u
  <2>5. issued'.datasets = issued.datasets /\ issued'.experiments = u
    BY <2>4
  <2>6. /\ IsSequence(issued.datasets) /\ IsInjective(issued.datasets)
        /\ ToSet(issued.datasets) \subseteq Nat
    BY DEF EvalsInv, IdsInv
  <2>7. HasIds(mem)' /\ \A x \in Left(log') : HasIds(Replay(x))'
    BY <1>9, <1>11, <2>1, <2>3, <2>5, <2>6 DEF HasIds
  <2>8. ToSet(u) \subseteq Nat
    BY <1>3, <2>1, <2>3
  <2>9. IdsInv'
    BY <2>3, <2>4, <2>5, <2>6, <2>7, <2>8 DEF IdsInv, HasIds, Left
  <2> QED BY <1>9, <2>9 DEF EvalsInv
<1> QED BY <1>10, <1>11

\* The bodies of a version are finitely many.
LEMMA NewBodiesAreFinite ==
    ASSUME NEW bodies \in SUBSET Bodies
    PROVE  IsFiniteSet({Example(b) : b \in bodies} \ mem.records)
<1> DEFINE T == {Example(b) : b \in bodies}
           f == [b \in bodies |-> Example(b)]
<1>1. IsFiniteSet(bodies)
  BY EvalsAssumption, FS_Subset
<1>2. f \in Surjection(bodies, T)
  BY DEF Surjection
<1>3. IsFiniteSet(T)
  BY <1>1, <1>2, FS_Surjection
<1>4. T \ mem.records \in SUBSET T
  OBVIOUS
<1> HIDE DEF T
<1>5. IsFiniteSet(T \ mem.records)
  BY <1>3, <1>4, FS_Subset
<1> QED BY <1>5 DEF T

\* The lines of a version: the bodies the log lacks, and the version.  Its tenant is the
\* dataset's, and so is that of every version of the dataset.
LEMMA VersionFits ==
    ASSUME EvalsInv, up, NEW d \in Of(mem, "dataset"), NEW parent, Derives(d.dataset, parent),
           NEW bodies \in SUBSET Bodies
    PROVE  LET v == Version(VersionId(d.dataset, parent, bodies), d.tenant)
               recs == Append(Unstored(bodies), v)
           IN  /\ Fits(recs, mem)
               /\ \A r \in ToSet(recs) : r.kind # "example" => r.tenant = d.tenant
<1> DEFINE t == d.tenant
           n == VersionId(d.dataset, parent, bodies)
           v == Version(n, t)
           S == {Example(b) : b \in bodies} \ mem.records
           u == SetToSeq(S)
           recs == Append(u, v)
<1>1. /\ IsFiniteSet(mem.records)
      /\ \A r \in mem.records : LogLine(r) /\ r.kind # "counters" /\ Relies(r, mem)
      /\ \A r, s \in mem.records : SameEntity(r, s) => r = s
  BY InForce DEF EvalsInv
<1>2. d \in mem.records /\ d.kind = "dataset" /\ d = Dataset(d.dataset, t) /\ t \in Tenants
  BY <1>1 DEF Of, LogLine, IsRecord
<1>3. ASSUME NEW tt, Dataset(d.dataset, tt) \in mem.records PROVE tt = t
  <2>1. SameEntity(Dataset(d.dataset, tt), d)
    BY <1>2 DEF SameEntity, Dataset
  <2>2. Dataset(d.dataset, tt) = d
    BY <2>1, <1>1, <1>2, <1>3
  <2> QED BY <2>2 DEF Dataset
<1>4. /\ v.kind = "version" /\ v.version = n /\ v.tenant = t /\ v = Version(v.version, v.tenant)
      /\ n.dataset = d.dataset /\ n.parent = parent /\ n.bodies = bodies
  BY DEF Version, VersionId
<1> HIDE DEF v, n
<1>5. LogLine(v)
  BY <1>2, <1>4 DEF LogLine, IsRecord
<1>6. Relies(v, mem)
  <2>1. ASSUME parent # Nil
        PROVE  Version(parent, t) \in mem.records /\ parent.dataset = d.dataset
    <3>1. PICK p \in Of(mem, "version") : p.version = parent /\ parent.dataset = d.dataset
      BY <2>1 DEF Derives
    <3>2. p \in mem.records /\ p.kind = "version" /\ p = Version(parent, p.tenant)
      BY <3>1, <1>1 DEF Of, LogLine, IsRecord
    <3>3. Dataset(d.dataset, p.tenant) \in mem.records
      BY <3>1, <3>2, <1>1 DEF Relies
    <3> QED BY <3>1, <3>2, <3>3, <1>3
  <2> QED BY <2>1, <1>2, <1>4 DEF Relies
<1>7. ASSUME NEW r \in mem.records, SameEntity(r, v) PROVE v = r
  <2>1. r = v \/ (r.kind = "version" /\ r.version = n)
    BY <1>4, <1>7 DEF SameEntity
  <2>2. ASSUME r.kind = "version", r.version = n PROVE v = r
    <3>1. r = Version(n, r.tenant) /\ Dataset(d.dataset, r.tenant) \in mem.records
      BY <2>2, <1>1, <1>4 DEF LogLine, IsRecord, Relies
    <3> QED BY <3>1, <1>3, <1>4
  <2> QED BY <2>1, <2>2
<1>8. IsFiniteSet(S)
  BY NewBodiesAreFinite
<1>9. IsSequence(u) /\ ToSet(u) = S /\ Len(u) \in Nat /\ \A i \in 1 .. Len(u) : u[i] \in S
  <2> HIDE DEF S
  <2>1. IsSequence(u) /\ ToSet(u) = S
    BY <1>8, SetAsSeq
  <2> QED BY <2>1, SeqIs
<1>10. \A r \in S : r.kind = "example" /\ r = Example(r.body)
  BY DEF Example
<1> DEFINE m == Len(u)
<1> HIDE DEF u
<1>11. /\ IsSequence(recs) /\ Len(recs) = m + 1 /\ ToSet(recs) = S \cup {v}
       /\ \A i \in 1 .. m : recs[i] = u[i]
       /\ recs[m + 1] = v
  <2>1. recs = u \o <<v>>
    BY <1>9, AppendIs
  <2>2. IsSequence(<<v>>) /\ Len(<<v>>) = 1 /\ <<v>>[1] = v /\ ToSet(<<v>>) = {v}
    BY Single
  <2>3. 1 \in 1 .. Len(<<v>>)
    BY <2>2
  <2> HIDE DEF recs
  <2> QED BY <2>1, <2>2, <2>3, <1>9, Joined
<1> HIDE DEF recs
<1>12. \A i \in 1 .. Len(recs) : recs[i] \in S \/ (i = m + 1 /\ recs[i] = v)
  BY <1>9, <1>11
<1>13. \A r \in S : \A s : SameEntity(r, s) \/ SameEntity(s, r) => s = r
  BY <1>10 DEF SameEntity
<1>14. ASSUME NEW b \in bodies
       PROVE  Example(b) \in mem.records \/ \E j \in 1 .. m : recs[j] = Example(b)
  <2>1. CASE Example(b) \in S
    <3>1. PICK j \in 1 .. m : u[j] = Example(b)
      BY <2>1, <1>9, SeqIs
    <3> QED BY <3>1, <1>11
  <2>2. CASE Example(b) \notin S
    BY <2>2
  <2> QED BY <2>1, <2>2
<1> HIDE DEF S
<1>15. ASSUME NEW i \in 1 .. Len(recs)
       PROVE  /\ LogLine(recs[i]) /\ recs[i].kind # "counters"
              /\ \A r \in mem.records : SameEntity(r, recs[i]) => recs[i] = r
              /\ \A j \in 1 .. Len(recs) : SameEntity(recs[j], recs[i]) => recs[i] = recs[j]
              /\ Relies(recs[i], mem)
              /\ recs[i].kind = "version" =>
                    \A b \in recs[i].version.bodies :
                        Example(b) \in mem.records \/ \E j \in 1 .. i - 1 : recs[j] = Example(b)
  <2>1. CASE recs[i] \in S
    <3>1. recs[i].kind = "example" /\ recs[i] = Example(recs[i].body)
      BY <2>1, <1>10
    <3>2. LogLine(recs[i]) /\ Relies(recs[i], mem)
      BY <3>1 DEF LogLine, IsRecord, Relies
    <3> QED BY <3>1, <3>2, <2>1, <1>13
  <2>2. CASE i = m + 1 /\ recs[i] = v
    <3>1. \A j \in 1 .. Len(recs) : SameEntity(recs[j], v) => v = recs[j]
      BY <1>12, <1>13
    <3>2. \A b \in bodies : Example(b) \in mem.records \/ \E j \in 1 .. i - 1 : recs[j] = Example(b)
      <4>1. i - 1 = m
        BY <2>2, <1>9
      <4> QED BY <4>1, <1>14
    <3> QED BY <3>1, <3>2, <2>2, <1>4, <1>5, <1>6, <1>7
  <2> QED BY <2>1, <2>2, <1>12
<1>16. Fits(recs, mem)
  BY <1>11, <1>15 DEF Fits
<1>17. \A r \in ToSet(recs) : r.kind # "example" => r.tenant = t
  BY <1>4, <1>10, <1>11
<1> QED BY <1>16, <1>17 DEF recs, v, n, u, S, Unstored

\* What the lines of a version name.
LEMMA VersionWrites ==
    ASSUME EvalsInv, NEW d, NEW parent, NEW bodies \in SUBSET Bodies
    PROVE  LET v == Version(VersionId(d.dataset, parent, bodies), d.tenant) IN
           \A r \in ToSet(Append(Unstored(bodies), v)) :
               /\ r.kind = "example" => r.body \in bodies
               /\ r.kind = "version" => r.version.bodies = bodies
<1> DEFINE v == Version(VersionId(d.dataset, parent, bodies), d.tenant)
           S == {Example(b) : b \in bodies} \ mem.records
           u == SetToSeq(S)
<1>1. IsFiniteSet(S)
  BY NewBodiesAreFinite
<1>2. IsSequence(u) /\ ToSet(u) = S
  <2> HIDE DEF S
  <2> QED BY <1>1, SetAsSeq
<1>3. v.kind = "version" /\ v.version.bodies = bodies
  BY DEF Version, VersionId
<1>4. \A r \in S : r.kind = "example" /\ r.body \in bodies
  BY DEF Example
<1> HIDE DEF S, v
<1>5. ToSet(Append(u, v)) = S \cup {v}
  <2> HIDE DEF u
  <2>1. IsSequence(<<v>>) /\ ToSet(<<v>>) = {v}
    BY Single
  <2>2. Append(u, v) = u \o <<v>>
    BY <1>2, AppendIs
  <2> QED BY <2>1, <2>2, <1>2, Joined
<1>6. \A r \in S \cup {v} : /\ r.kind = "example" => r.body \in bodies
                            /\ r.kind = "version" => r.version.bodies = bodies
  BY <1>3, <1>4
<1> QED BY <1>5, <1>6 DEF u, v, S, Unstored

\* The creation of a version.
LEMMA CreateVersionKeeps ==
    ASSUME EvalsInv, NEW who, NEW d \in Of(mem, "dataset"), NEW parent,
           NEW bodies \in SUBSET Bodies, NEW o, CreateVersion(who, d, parent, bodies, o)
    PROVE  EvalsInv'
<1> DEFINE v == Version(VersionId(d.dataset, parent, bodies), d.tenant)
           recs == Append(Unstored(bodies), v)
<1>1. up /\ Derives(d.dataset, parent) /\ Mutate(d.tenant, recs, o) /\ issued' = issued
  BY DEF CreateVersion, Mutate, Outcome
<1>2. Fits(recs, mem) /\ \A r \in ToSet(recs) : r.kind # "example" => r.tenant = d.tenant
  BY <1>1, VersionFits
<1>3. d.tenant \in Tenants
  BY <1>1, InForce DEF EvalsInv, Of, LogLine
<1> HIDE DEF recs
<1>4. /\ FilesInv' /\ ControlInv' /\ FoundInv' /\ AckedInv' /\ NotesInv'
      /\ \A i \in Nat : HasDataset(mem, i) =>
            HasDataset(mem', i) /\ \A x \in Left(log') : HasDataset(Replay(x), i)
      /\ \A i \in Nat : HasExperiment(mem, i) =>
            HasExperiment(mem', i) /\ \A x \in Left(log') : HasExperiment(Replay(x), i)
  BY <1>1, <1>2, <1>3, MutateKeeps
<1>5. IdsInv'
  BY <1>1, <1>4, IdsStay
<1> QED BY <1>4, <1>5 DEF EvalsInv

\* A mutation of one record that answers no id.
LEMMA OneRecordKeeps ==
    ASSUME EvalsInv, NEW r, NEW o, Mutate(r.tenant, <<r>>, o), issued' = issued,
           r.tenant \in Tenants, Fits(<<r>>, mem), ToSet(<<r>>) = {r}
    PROVE  EvalsInv'
<1>1. up
  BY DEF Mutate, Outcome
<1>2. \A s \in ToSet(<<r>>) : s.kind # "example" => s.tenant = r.tenant
  OBVIOUS
<1>3. /\ FilesInv' /\ ControlInv' /\ FoundInv' /\ AckedInv' /\ NotesInv'
      /\ \A i \in Nat : HasDataset(mem, i) =>
            HasDataset(mem', i) /\ \A x \in Left(log') : HasDataset(Replay(x), i)
      /\ \A i \in Nat : HasExperiment(mem, i) =>
            HasExperiment(mem', i) /\ \A x \in Left(log') : HasExperiment(Replay(x), i)
  BY <1>1, <1>2, MutateKeeps
<1>4. IdsInv'
  BY <1>1, <1>3, IdsStay
<1> QED BY <1>3, <1>4 DEF EvalsInv

\* A run of an experiment on an example of its version is a record that can be added.
LEMMA RunFits ==
    ASSUME EvalsInv, up, NEW e \in Of(mem, "experiment"), NEW b \in Bodies, InManifest(e, b)
    PROVE  LET r == Run(e.experiment, b, e.tenant) IN
           /\ r.kind = "run" /\ r.tenant = e.tenant /\ r.tenant \in Tenants
           /\ Fits(<<r>>, mem) /\ ToSet(<<r>>) = {r}
<1> DEFINE r == Run(e.experiment, b, e.tenant)
<1>2. e \in mem.records /\ e.kind = "experiment" /\ LogLine(e)
  BY InForce DEF EvalsInv, Of
<1>3. /\ r.kind = "run" /\ r.tenant = e.tenant /\ r.experiment = e.experiment /\ r.body = b
      /\ r = Run(r.experiment, r.body, r.tenant)
  BY DEF Run
<1> HIDE DEF r
<1>4. LogLine(r)
  BY <1>2, <1>3 DEF LogLine, IsRecord
<1>5. b \in e.on.bodies
  BY DEF InManifest
<1>6. Relies(r, mem)
  BY <1>2, <1>3, <1>5 DEF Relies, Of
<1>7. \A s \in mem.records : SameEntity(s, r) => r = s
  BY <1>3 DEF SameEntity
<1>8. Fits(<<r>>, mem) /\ ToSet(<<r>>) = {r}
  BY <1>3, <1>4, <1>6, <1>7, FitsOne
<1>9. r.tenant \in Tenants
  BY <1>3, <1>4 DEF LogLine
<1> QED BY <1>3, <1>8, <1>9 DEF r

\* A run is recorded.
LEMMA RecordRunKeeps ==
    ASSUME EvalsInv, NEW who, NEW e \in Of(mem, "experiment"), NEW b \in Bodies, NEW o,
           RecordRun(who, e, b, o)
    PROVE  EvalsInv'
<1> DEFINE r == Run(e.experiment, b, e.tenant)
<1>1. up /\ InManifest(e, b) /\ Mutate(e.tenant, <<r>>, o) /\ issued' = issued
  BY DEF RecordRun, Mutate, Outcome
<1>2. /\ r.tenant = e.tenant /\ r.tenant \in Tenants
      /\ Fits(<<r>>, mem) /\ ToSet(<<r>>) = {r}
  BY <1>1, RunFits
<1> HIDE DEF r
<1> QED BY <1>1, <1>2, OneRecordKeeps

\* A tombstone of a live version is a record that can be added.
LEMMA TombstoneFits ==
    ASSUME EvalsInv, up, NEW v \in Of(mem, "version"), Live(v)
    PROVE  LET r == Tombstone(v.version, v.tenant) IN
           /\ r.kind = "tombstone" /\ r.tenant = v.tenant /\ r.tenant \in Tenants
           /\ Fits(<<r>>, mem) /\ ToSet(<<r>>) = {r}
<1> DEFINE r == Tombstone(v.version, v.tenant)
<1>2. v \in mem.records /\ v.tenant \in Tenants /\ v = Version(v.version, v.tenant)
  BY InForce DEF EvalsInv, Of, LogLine, IsRecord
<1>3. /\ r.kind = "tombstone" /\ r.tenant = v.tenant /\ r.version = v.version
      /\ r = Tombstone(r.version, r.tenant)
  BY DEF Tombstone
<1> HIDE DEF r
<1>4. LogLine(r)
  BY <1>2, <1>3 DEF LogLine, IsRecord
<1>5. Relies(r, mem)
  BY <1>2, <1>3 DEF Relies
<1>6. \A s \in mem.records : SameEntity(s, r) => r = s
  BY <1>3 DEF SameEntity, Live, Of
<1>7. Fits(<<r>>, mem) /\ ToSet(<<r>>) = {r}
  BY <1>3, <1>4, <1>5, <1>6, FitsOne
<1> QED BY <1>2, <1>3, <1>7 DEF r

\* A version is taken back.
LEMMA TombstoneVersionKeeps ==
    ASSUME EvalsInv, NEW who, NEW v \in Of(mem, "version"), NEW o, TombstoneVersion(who, v, o)
    PROVE  EvalsInv'
<1> DEFINE r == Tombstone(v.version, v.tenant)
<1>1. up /\ Live(v) /\ Mutate(v.tenant, <<r>>, o) /\ issued' = issued
  BY DEF TombstoneVersion, Mutate, Outcome
<1>2. /\ r.tenant = v.tenant /\ r.tenant \in Tenants
      /\ Fits(<<r>>, mem) /\ ToSet(<<r>>) = {r}
  BY <1>1, TombstoneFits
<1> HIDE DEF r
<1> QED BY <1>1, <1>2, OneRecordKeeps

\* What stands is answered again: it is in force, so it is in the file.
LEMMA RefindKeeps ==
    ASSUME EvalsInv, NEW who, NEW r \in Of(mem, "version") \cup Of(mem, "tombstone"), Refind(who, r)
    PROVE  EvalsInv'
<1>1. /\ up /\ r.tenant \notin pending /\ acked' = acked \cup {r}
      /\ UNCHANGED <<scope, log, mem, notes, entries, up, pending, stage, issued, erasures>>
  BY DEF Refind, logs
<1>2. r \in mem.records /\ r.kind \in LogKinds /\ r.kind \notin NoteKinds
  BY DEF Of, LogKinds, NoteKinds
<1>3. \A x \in Left(log) : r \in Replay(x).records
  BY <1>1, <1>2 DEF EvalsInv, FoundInv, Based
<1>4. AckedInv'
  <2>1. \A s \in acked' : s.kind \in LogKinds \cup NoteKinds /\ s.tenant \notin pending'
    BY <1>1, <1>2 DEF EvalsInv, AckedInv
  <2>2. \A s \in acked' : s.kind \in LogKinds =>
            (up' => s \in mem'.records) /\ \A x \in Left(log') : s \in Replay(x).records
    BY <1>1, <1>2, <1>3 DEF EvalsInv, AckedInv
  <2>3. \A a \in acked' : a.kind \in NoteKinds =>
            (up' => a \in entries') /\ \A x \in Left(notes') : a \in ToSet(x)
    BY <1>1, <1>2 DEF EvalsInv, AckedInv
  <2> QED BY <2>1, <2>2, <2>3 DEF AckedInv, Left
<1>5. FilesInv' /\ ControlInv' /\ FoundInv' /\ IdsInv' /\ NotesInv'
  BY <1>1 DEF EvalsInv, FilesInv, Closed, ControlInv, FoundInv, IdsInv, HasIds, NotesInv, Left,
              Filled, Of
<1> QED BY <1>4, <1>5 DEF EvalsInv

\* A score of this state's experiments and their examples.
AddressedIn(a, m) ==
    a.kind = "score" => \E e \in Of(m, "experiment") :
                           /\ e.experiment = a.experiment
                           /\ e.tenant = a.tenant
                           /\ a.body \in e.on.bodies

\* While an erasure is under way no mutation fails after its bytes reached the file; and
\* then the files have no more than what is in force.
CertainInv ==
    /\ pending # {} => "unsynced" \notin scope.outcomes
    /\ up /\ "unsynced" \notin scope.outcomes =>
          /\ \A x \in Left(log) : Replay(x).records \subseteq mem.records
          /\ \A n \in Left(notes) : ToSet(n) \subseteq entries

\* The scores in the file are addressed, and those of a tenant go before its experiments.
ScoresInv ==
    /\ up => \A n \in Left(notes) : \A a \in ToSet(n) : AddressedIn(a, mem)
    /\ \A x \in Left(log), n \in Left(notes) : \A a \in ToSet(n) : AddressedIn(a, Replay(x))
    /\ \A n \in Left(notes) : \A a \in ToSet(n) :
          /\ a.tenant \in Tenants
          /\ <<a.tenant, Nil>> \in written /\ stage[a.tenant] \notin {"evals", "settle"}

\* Who wrote what the log has, and that the purge did not yet come to it.
WritersInv ==
    \A x \in Left(log) : \A r \in Replay(x).records :
        /\ r.kind = "example" =>
              \E t \in Tenants : stage[t] # "settle" /\ <<t, r.body>> \in written
        /\ r.kind # "example" => /\ r.tenant \in Tenants
                                 /\ <<r.tenant, Nil>> \in written /\ stage[r.tenant] # "settle"
        /\ r.kind = "version" => \A b \in r.version.bodies : <<r.tenant, b>> \in written

PurgeInv == CertainInv /\ ScoresInv /\ WritersInv

----------------------------------------------------------------------------
(* The annotations.                                                         *)

\* An annotation is no torn line, and alone in a sequence.
LEMMA OneNote ==
    ASSUME NEW a, IsNote(a)
    PROVE  /\ IsSequence(<<a>>) /\ Torn \notin ToSet(<<a>>) /\ ToSet(<<a>>) = {a}
           /\ a # Torn /\ a.kind \in NoteKinds
<1>1. IsSequence(<<a>>) /\ ToSet(<<a>>) = {a}
  BY Single
<1>2. a # Torn
  BY DEF IsNote, NoteKinds, Torn
<1> QED BY <1>1, <1>2 DEF IsNote

\* What follows whole lines, and the first of one.
LEMMA ContinuesBy ==
    ASSUME NEW x, NEW s, IsSequence(s), NEW l, IsSequence(l), Continues(x, s, l)
    PROVE  ToSet(s) \subseteq ToSet(x) /\ ToSet(x) \subseteq ToSet(s) \cup ToSet(l)
<1>1. PICK k \in 0 .. Len(l) : x = s \o SubSeq(l, 1, k)
  BY DEF Continues
<1>2. IsSequence(SubSeq(l, 1, k)) /\ ToSet(SubSeq(l, 1, k)) \subseteq ToSet(l)
  BY <1>1, FirstOf
<1>3. ToSet(x) = ToSet(s) \cup ToSet(SubSeq(l, 1, k))
  BY <1>1, <1>2, Joined
<1> QED BY <1>2, <1>3

\* After an annotation the file has what it had, and the annotation if it was answered.
LEMMA AnnotateLeaves ==
    ASSUME EvalsInv, NEW a, IsNote(a), NEW o, Annotate(a, o)
    PROVE  /\ up
           /\ FileTyped(notes') /\ (o # "died" => Closed(notes'))
           /\ \A b \in ToSet(notes'.lines) : b # Torn => IsNote(b)
           /\ \A n \in Left(notes') : entries \subseteq ToSet(n)
           /\ o = "ok" => \A n \in Left(notes') : a \in ToSet(n)
           /\ \A n \in Left(notes') : \A b \in ToSet(n) :
                 b = a \/ \E p \in Left(notes) : b \in ToSet(p)
<1>1. up /\ notes' \in Appended(notes, <<a>>, o)
  BY DEF Annotate, Outcome
<1>2. /\ IsSequence(<<a>>) /\ Torn \notin ToSet(<<a>>) /\ ToSet(<<a>>) = {a} /\ a # Torn
  BY OneNote
<1>3. /\ FileTyped(notes) /\ Closed(notes) /\ IsSequence(notes.lines)
      /\ \A b \in ToSet(notes.lines) : b # Torn => IsNote(b)
      /\ \A n \in Left(notes) : entries \subseteq ToSet(n)
  BY <1>1 DEF EvalsInv, FilesInv, FileTyped, NotesInv
<1>4. Healed(notes.lines) = notes.lines /\ notes.lines \in Left(notes)
  BY <1>3, ClosedOpens, LeftIs DEF Closed
<1>5. /\ FileTyped(notes') /\ (o # "died" => Closed(notes'))
      /\ ToSet(notes'.lines) \subseteq ToSet(notes.lines) \cup {a} \cup {Torn}
      /\ o = "ok" => Left(notes') = {notes.lines \o <<a>>}
      /\ \A n \in Left(notes') : n \in Left(notes) \/ Continues(n, notes.lines, <<a>>)
  <2> DEFINE l == <<a>>
  <2>1. IsSequence(l) /\ Torn \notin ToSet(l) /\ ToSet(l) = {a} /\ notes' \in Appended(notes, l, o)
    BY <1>1, <1>2
  <2> HIDE DEF l
  <2>2. /\ FileTyped(notes') /\ (o # "died" => Closed(notes'))
        /\ ToSet(notes'.lines) \subseteq ToSet(notes.lines) \cup ToSet(l) \cup {Torn}
        /\ o = "ok" => Left(notes') = {notes.lines \o l}
        /\ \A n \in Left(notes') : n \in Left(notes) \/ Continues(n, notes.lines, l)
    <3>1. FileTyped(notes) /\ Closed(notes)
      BY <1>3
    <3> QED BY ONLY <2>1, <3>1, AppendLeaves
  <2> QED BY <2>1, <2>2 DEF l
<1>6. ToSet(notes.lines \o <<a>>) = ToSet(notes.lines) \cup {a}
  BY <1>2, <1>3, Joined
<1>7. ASSUME NEW n \in Left(notes')
      PROVE  /\ entries \subseteq ToSet(n)
             /\ \A b \in ToSet(n) : b = a \/ \E p \in Left(notes) : b \in ToSet(p)
  <2>1. CASE n \in Left(notes)
    BY <2>1, <1>3
  <2>2. CASE Continues(n, notes.lines, <<a>>)
    <3>1. ToSet(notes.lines) \subseteq ToSet(n) /\ ToSet(n) \subseteq ToSet(notes.lines) \cup {a}
      BY <2>2, <1>2, <1>3, ContinuesBy
    <3> QED BY <3>1, <1>3, <1>4
  <2> QED BY <2>1, <2>2, <1>5
<1> QED BY <1>1, <1>2, <1>3, <1>5, <1>6, <1>7

\* The rest of the state does not move.
LEMMA LogStays ==
    ASSUME EvalsInv, UNCHANGED <<log, mem, issued>>, up' => up
    PROVE  IdsInv' /\ FoundInv'
BY DEF EvalsInv, IdsInv, HasIds, FoundInv, Left, Filled, Of, HasDataset, HasExperiment

\* An annotation.
LEMMA AnnotateKeeps ==
    ASSUME EvalsInv, NEW a, IsNote(a), NEW o, Annotate(a, o)
    PROVE  EvalsInv'
<1>1. /\ up /\ up' = (o # "died") /\ a.tenant \notin pending
      /\ IF o = "ok"
         THEN entries' = entries \cup {a} /\ acked' = acked \cup {a}
         ELSE UNCHANGED <<entries, acked>>
      /\ UNCHANGED <<scope, log, mem, pending, stage, issued, erasures>>
  BY DEF Annotate, Outcome
<1>2. /\ FileTyped(notes') /\ (o # "died" => Closed(notes'))
      /\ \A b \in ToSet(notes'.lines) : b # Torn => IsNote(b)
      /\ \A n \in Left(notes') : entries \subseteq ToSet(n)
      /\ o = "ok" => \A n \in Left(notes') : a \in ToSet(n)
  BY AnnotateLeaves
<1>3. FilesInv' /\ ControlInv'
  BY <1>1, <1>2 DEF EvalsInv, FilesInv, Closed, ControlInv
<1>4. IdsInv' /\ FoundInv'
  BY <1>1, LogStays
<1>5. NotesInv'
  BY <1>1, <1>2 DEF NotesInv, Left
<1>6. AckedInv'
  <2>1. a.kind \in NoteKinds /\ a.kind \notin LogKinds
    BY DEF IsNote, NoteKinds, LogKinds
  <2>2. \A r \in acked' : r.kind \in LogKinds \cup NoteKinds /\ r.tenant \notin pending'
    BY <1>1, <2>1 DEF EvalsInv, AckedInv
  <2>3. \A r \in acked' : r.kind \in LogKinds =>
            (up' => r \in mem'.records) /\ \A x \in Left(log') : r \in Replay(x).records
    BY <1>1, <2>1 DEF EvalsInv, AckedInv
  <2>4. ASSUME NEW r \in acked', r.kind \in NoteKinds
        PROVE  (up' => r \in entries') /\ \A n \in Left(notes') : r \in ToSet(n)
    <3>1. CASE r = a /\ r \notin acked
      BY <3>1, <1>1, <1>2
    <3>2. CASE r \in acked
      <4>1. r \in entries
        BY <3>2, <2>4, <1>1 DEF EvalsInv, AckedInv
      <4> QED BY <4>1, <1>1, <1>2
    <3> QED BY <3>1, <3>2, <1>1
  <2> QED BY <2>2, <2>3, <2>4 DEF AckedInv, Left
<1> QED BY <1>3, <1>4, <1>5, <1>6 DEF EvalsInv

\* A rewrite of the annotations: the file as it was, or the kept ones.
LEMMA KeepingLeaves ==
    ASSUME EvalsInv, up, NEW kept \in SUBSET entries, NEW o, RewriteKeeping(kept, o)
    PROVE  /\ FileTyped(notes') /\ Closed(notes')
           /\ \A b \in ToSet(notes'.lines) : b # Torn => IsNote(b)
           /\ \A n \in Left(notes') : n \in Left(notes) \/ ToSet(n) = kept
           /\ \A n \in Left(notes') : kept \subseteq ToSet(n)
           /\ o = "ok" /\ kept # entries => \A n \in Left(notes') : ToSet(n) = kept
           /\ \A n \in Left(notes') : \A b \in ToSet(n) : \E p \in Left(notes) : b \in ToSet(p)
           /\ entries' \subseteq entries /\ kept \subseteq entries'
           /\ o \notin {"ok", "died"} => notes' = notes
           /\ o = "ok" => entries' = kept
           /\ o # "ok" => entries' = entries
<1>1. /\ FileTyped(notes) /\ Closed(notes) /\ IsSequence(notes.lines)
      /\ \A b \in ToSet(notes.lines) : b # Torn => IsNote(b)
      /\ \A n \in Left(notes) : entries \subseteq ToSet(n)
  BY DEF EvalsInv, FilesInv, FileTyped, NotesInv
<1>2. Healed(notes.lines) = notes.lines /\ notes.lines \in Left(notes)
  BY <1>1, ClosedOpens, LeftIs DEF Closed
<1>3. /\ entries' = IF o = "ok" THEN kept ELSE entries
      /\ notes' \in IF kept = entries THEN {notes} ELSE Rewritten(notes, SetToSeq(kept), o)
  BY DEF RewriteKeeping
<1>4. kept \subseteq ToSet(notes.lines) /\ Torn \notin kept
  BY <1>1, <1>2 DEF Closed
<1>5. IsFiniteSet(kept)
  BY <1>1, <1>4, ElementsAreFinite, FS_Subset
<1> DEFINE s == SetToSeq(kept)
<1>6. IsSequence(s) /\ ToSet(s) = kept
  BY <1>5, SetAsSeq
<1> HIDE DEF s
<1>11. o \notin {"ok", "died"} => notes' = notes
  BY <1>3 DEF Rewritten
<1>7. CASE notes' = notes /\ (o = "ok" => kept = entries)
  BY <1>1, <1>3, <1>7, <1>11 DEF Closed
<1>8. CASE FileTyped(notes') /\ Closed(notes') /\ notes'.lines = s /\ Left(notes') = {s}
  BY <1>1, <1>2, <1>3, <1>4, <1>6, <1>8, <1>11
<1>9. CASE kept = entries
  BY <1>3, <1>7, <1>9
<1>10. CASE kept # entries
  <2>1. notes' \in Rewritten(notes, s, o)
    BY <1>3, <1>10 DEF s
  <2>2. /\ notes' = notes \/ /\ FileTyped(notes') /\ Closed(notes') /\ notes'.lines = s
                             /\ Left(notes') = {s}
        /\ o = "ok" => notes'.lines = s /\ Left(notes') = {s}
    BY <2>1, <1>4, <1>6, RewriteLeaves
  <2>3. CASE o = "ok" /\ notes' = notes
    <3>1. FileTyped(notes') /\ Closed(notes')
      BY <1>1, <2>3 DEF Closed
    <3> QED BY <3>1, <2>2, <2>3, <1>8
  <2> QED BY <2>2, <2>3, <1>7, <1>8
<1> QED BY <1>9, <1>10

\* A rewrite of the annotations that drops none that was answered and is to stay.
LEMMA KeepingKeeps ==
    ASSUME EvalsInv, up, NEW kept \in SUBSET entries, NEW o, RewriteKeeping(kept, o),
           up' => o # "died", acked' \subseteq acked,
           \A a \in acked' : a \in entries => a \in kept,
           UNCHANGED <<log, mem, issued>>, ControlInv',
           \A r \in acked' : r.tenant \notin pending'
    PROVE  EvalsInv'
<1>1. /\ FileTyped(notes') /\ Closed(notes')
      /\ \A b \in ToSet(notes'.lines) : b # Torn => IsNote(b)
      /\ \A n \in Left(notes') : n \in Left(notes) \/ ToSet(n) = kept
      /\ \A n \in Left(notes') : kept \subseteq ToSet(n)
      /\ kept \subseteq entries'
      /\ o \notin {"ok", "died"} => notes' = notes
      /\ o = "ok" => entries' = kept
      /\ o # "ok" => entries' = entries
  BY KeepingLeaves
<1>2. FilesInv'
  <2>1. /\ FileTyped(log') /\ \A r \in ToSet(log'.lines) : r # Torn => LogLine(r)
        /\ Closed(log')
    BY DEF EvalsInv, FilesInv, Closed
  <2> QED BY <2>1, <1>1 DEF FilesInv
<1>3. IdsInv' /\ FoundInv'
  BY LogStays
<1>4. NotesInv'
  <2>1. ASSUME up', NEW n \in Left(notes') PROVE entries' \subseteq ToSet(n)
    <3>1. CASE o = "ok"
      BY <3>1, <1>1
    <3>2. CASE o \notin {"ok", "died"}
      BY <3>2, <1>1 DEF EvalsInv, NotesInv
    <3> QED BY <2>1, <3>1, <3>2
  <2> QED BY <2>1 DEF NotesInv, Left
<1>5. AckedInv'
  <2>1. \A r \in acked' : r.kind \in LogKinds \cup NoteKinds
    BY DEF EvalsInv, AckedInv
  <2>2. \A r \in acked' : r.kind \in LogKinds =>
            (up' => r \in mem'.records) /\ \A x \in Left(log') : r \in Replay(x).records
    BY DEF EvalsInv, AckedInv
  <2>3. \A r \in acked' : r.kind \in NoteKinds =>
            (up' => r \in entries') /\ \A n \in Left(notes') : r \in ToSet(n)
    <3>1. \A r \in acked' : r.kind \in NoteKinds => r \in kept
      BY DEF EvalsInv, AckedInv
    <3> QED BY <3>1, <1>1
  <2> QED BY <2>1, <2>2, <2>3 DEF AckedInv, Left
<1> QED BY <1>2, <1>3, <1>4, <1>5 DEF EvalsInv

\* The annotations that aged out are dropped, and what was answered of them is no more owed.
LEMMA DropOlderThanKeeps ==
    ASSUME EvalsInv, NEW o, DropOlderThan(o)
    PROVE  EvalsInv'
<1> DEFINE kept == {a \in entries : ~Ages(a)}
<1>1. /\ up /\ up' = (o # "died") /\ RewriteKeeping(kept, o)
      /\ acked' = {r \in acked : r.kind # "note" \/ ~r.aged}
      /\ UNCHANGED <<scope, log, mem, pending, stage, issued, erasures>>
  BY DEF DropOlderThan, Outcome
<1>2. \A a \in entries : a.kind \in NoteKinds
  <2>1. \A n \in Left(notes) : entries \subseteq ToSet(n)
    BY <1>1 DEF EvalsInv, NotesInv
  <2>2. FileTyped(notes)
    BY DEF EvalsInv, FilesInv
  <2>3. PICK n \in Left(notes) : entries \subseteq ToSet(n)
    BY <2>1, <2>2, LeftIs
  <2>4. \A a \in ToSet(n) : a \in ToSet(notes.lines) /\ a # Torn
    BY <2>2, <2>3, LeftIs
  <2> QED BY <2>3, <2>4 DEF EvalsInv, FilesInv, IsNote
<1>3. \A a \in acked' : a \in entries => a \in kept
  BY <1>1, <1>2 DEF Ages, NoteKinds
<1>4. ControlInv'
  BY <1>1 DEF EvalsInv, ControlInv
<1>5. \A r \in acked' : r.tenant \notin pending'
  BY <1>1 DEF EvalsInv, AckedInv
<1>6. kept \in SUBSET entries /\ acked' \subseteq acked /\ (up' => o # "died")
  BY <1>1
<1> HIDE DEF kept
<1> QED BY <1>1, <1>3, <1>4, <1>5, <1>6, KeepingKeeps

\* The annotations of a tenant under erasure are dropped.
LEMMA DropAnnotationsKeeps ==
    ASSUME EvalsInv, NEW t \in Tenants, NEW o, DropAnnotations(t, o)
    PROVE  EvalsInv'
<1> DEFINE kept == {a \in entries : a.tenant # t}
<1>1. /\ up /\ up' = (o # "died") /\ RewriteKeeping(kept, o)
      /\ stage[t] = "notes"
      /\ stage' = IF o = "ok" THEN [stage EXCEPT ![t] = "evals"] ELSE stage
      /\ UNCHANGED <<scope, log, mem, pending, acked, issued, erasures>>
  BY DEF DropAnnotations, Outcome, history
<1>2. t \in pending
  BY <1>1 DEF EvalsInv, ControlInv
<1>3. \A a \in acked' : a.tenant \notin pending'
  BY <1>1 DEF EvalsInv, AckedInv
<1>4. \A a \in acked' : a \in entries => a \in kept
  BY <1>1, <1>2, <1>3
<1>5. ControlInv'
  BY <1>1, <1>2 DEF EvalsInv, ControlInv
<1>6. kept \in SUBSET entries /\ acked' \subseteq acked /\ (up' => o # "died")
  BY <1>1
<1> HIDE DEF kept
<1> QED BY <1>1, <1>3, <1>4, <1>5, <1>6, KeepingKeeps

\* What a step leaves of the invariant that moves neither the files nor what is in force.
LEMMA LogsStay ==
    ASSUME EvalsInv, UNCHANGED <<logs, issued>>, up' => up, acked' \subseteq acked, ControlInv',
           \A r \in acked' : r.tenant \notin pending'
    PROVE  EvalsInv'
<1>1. UNCHANGED <<log, mem, notes, entries>>
  BY DEF logs
<1>2. FilesInv' /\ NotesInv'
  BY <1>1 DEF EvalsInv, FilesInv, Closed, NotesInv, Left
<1>3. IdsInv' /\ FoundInv'
  BY <1>1, LogStays
<1>4. AckedInv'
  BY <1>1 DEF EvalsInv, AckedInv, Left
<1> QED BY <1>2, <1>3, <1>4 DEF EvalsInv

\* An erasure begins: what was answered for its tenant is no more owed.
LEMMA BeginErasureKeeps ==
    ASSUME EvalsInv, NEW t \in Tenants, BeginErasure(t)
    PROVE  EvalsInv'
<1>1. /\ up /\ up' = up /\ erasures' = erasures + 1 /\ pending' = pending \cup {t}
      /\ stage' = [stage EXCEPT ![t] = "notes"]
      /\ acked' = {r \in acked : r.tenant # t}
      /\ UNCHANGED <<scope, logs, issued>>
  BY DEF BeginErasure
<1>2. ControlInv'
  BY <1>1 DEF EvalsInv, ControlInv
<1>3. \A r \in acked' : r.tenant \notin pending'
  BY <1>1 DEF EvalsInv, AckedInv
<1> QED BY <1>1, <1>2, <1>3, LogsStay

\* It settles.
LEMMA SettleKeeps ==
    ASSUME EvalsInv, NEW t \in Tenants, Settle(t)
    PROVE  EvalsInv'
<1>1. /\ up' = up /\ pending' = pending \ {t}
      /\ stage' = [stage EXCEPT ![t] = "idle"]
      /\ UNCHANGED <<scope, logs, acked, issued, erasures>>
  BY DEF Settle
<1>2. ControlInv'
  BY <1>1 DEF EvalsInv, ControlInv
<1>3. \A r \in acked' : r.tenant \notin pending'
  BY <1>1 DEF EvalsInv, AckedInv
<1> QED BY <1>1, <1>2, <1>3, LogsStay

\* A step of none of these variables.
LEMMA EvalsStutterKeeps ==
    ASSUME EvalsInv, UNCHANGED evalsVars
    PROVE  EvalsInv'
<1>1. UNCHANGED <<scope, logs, up, pending, stage, acked, issued, erasures>>
  BY DEF evalsVars, history
<1>2. ControlInv'
  BY <1>1 DEF EvalsInv, ControlInv
<1>3. \A r \in acked' : r.tenant \notin pending'
  BY <1>1 DEF EvalsInv, AckedInv
<1> QED BY <1>1, <1>2, <1>3, LogsStay

\* What a loss of power leaves of the files, they could be before.
LEMMA LosePowerLeaves ==
    ASSUME EvalsInv, LosePower
    PROVE  /\ up' = FALSE
           /\ FileTyped(log') /\ FileTyped(notes')
           /\ Left(log') \subseteq Left(log) /\ Left(notes') \subseteq Left(notes)
           /\ ToSet(log'.lines) \subseteq ToSet(log.lines) \cup {Torn}
           /\ ToSet(notes'.lines) \subseteq ToSet(notes.lines) \cup {Torn}
<1>1. PICK l \in Images(log), n \in Images(notes) :
          /\ log' = [lines |-> l, synced |-> Len(l)]
          /\ notes' = [lines |-> n, synced |-> Len(n)]
  BY DEF LosePower
<1>2. FileTyped(log) /\ FileTyped(notes)
  BY DEF EvalsInv, FilesInv
<1>3. l \in Images(log) /\ n \in Images(notes)
  BY <1>1
<1>4. /\ FileTyped([lines |-> l, synced |-> Len(l)])
      /\ Left([lines |-> l, synced |-> Len(l)]) = {Healed(l)} /\ Healed(l) \in Left(log)
      /\ ToSet(l) \subseteq ToSet(log.lines) \cup {Torn}
  BY ONLY <1>2, <1>3, ImageLeaves
<1>5. /\ FileTyped([lines |-> n, synced |-> Len(n)])
      /\ Left([lines |-> n, synced |-> Len(n)]) = {Healed(n)} /\ Healed(n) \in Left(notes)
      /\ ToSet(n) \subseteq ToSet(notes.lines) \cup {Torn}
  BY ONLY <1>2, <1>3, ImageLeaves
<1>6. up' = FALSE
  BY DEF LosePower
<1>7. log'.lines = l /\ notes'.lines = n
  BY <1>1
<1> QED BY <1>1, <1>4, <1>5, <1>6, <1>7

\* A loss of power.
LEMMA LosePowerKeeps ==
    ASSUME EvalsInv, LosePower
    PROVE  EvalsInv'
<1>1. /\ up' = FALSE
      /\ FileTyped(log') /\ FileTyped(notes')
      /\ Left(log') \subseteq Left(log) /\ Left(notes') \subseteq Left(notes)
      /\ ToSet(log'.lines) \subseteq ToSet(log.lines) \cup {Torn}
      /\ ToSet(notes'.lines) \subseteq ToSet(notes.lines) \cup {Torn}
  BY LosePowerLeaves
<1>2. UNCHANGED <<scope, mem, entries, pending, stage, acked, issued, erasures>>
  BY DEF LosePower, history
<1>3. FilesInv' /\ ControlInv' /\ NotesInv'
  BY <1>1, <1>2 DEF EvalsInv, FilesInv, ControlInv, NotesInv
<1>4. FoundInv'
  BY <1>1, <1>2 DEF EvalsInv, FoundInv, Left
<1>5. IdsInv'
  <2>1. \A x \in Left(log') : HasIds(Replay(x))'
    BY <1>1, <1>2 DEF EvalsInv, IdsInv, HasIds
  <2> QED BY <1>1, <1>2, <2>1 DEF EvalsInv, IdsInv, HasIds, Left
<1>6. AckedInv'
  BY <1>1, <1>2 DEF EvalsInv, AckedInv, Left
<1> QED BY <1>3, <1>4, <1>5, <1>6 DEF EvalsInv

\* What an open makes of the files, is one that could be found.
LEMMA OpenLeaves ==
    ASSUME EvalsInv, Open
    PROVE  /\ FileTyped(log') /\ Closed(log') /\ FileTyped(notes') /\ Closed(notes')
           /\ log'.lines \in Left(log) /\ Left(log') = {log'.lines} /\ mem' = Replay(log'.lines)
           /\ notes'.lines \in Left(notes) /\ Left(notes') = {notes'.lines}
           /\ entries' = ToSet(notes'.lines)
           /\ IsSequence(log'.lines)
           /\ \A r \in ToSet(log'.lines) : LogLine(r)
           /\ \A a \in ToSet(notes'.lines) : IsNote(a)
<1> DEFINE l == Healed(log.lines)
           n == Healed(notes.lines)
<1>1. /\ log' = [lines |-> l, synced |-> Len(l)]
      /\ notes' = [lines |-> n, synced |-> Len(n)]
      /\ mem' = Replay(l) /\ entries' = ToSet(n)
  BY DEF Open
<1>2. /\ FileTyped(log) /\ FileTyped(notes)
      /\ \A r \in ToSet(log.lines) : r # Torn => LogLine(r)
      /\ \A a \in ToSet(notes.lines) : a # Torn => IsNote(a)
  BY DEF EvalsInv, FilesInv
<1>3. /\ l \in Left(log) /\ n \in Left(notes)
      /\ IsSequence(l) /\ ToSet(l) \subseteq ToSet(log.lines) /\ Torn \notin ToSet(l)
      /\ IsSequence(n) /\ ToSet(n) \subseteq ToSet(notes.lines) /\ Torn \notin ToSet(n)
  BY <1>2, LeftIs
<1> HIDE DEF l, n
<1>4. Opens(l) /\ Healed(l) = l /\ Opens(n) /\ Healed(n) = n
  BY <1>3, ClosedOpens
<1>5. /\ FileTyped([lines |-> l, synced |-> Len(l)])
      /\ Left([lines |-> l, synced |-> Len(l)]) = {l}
  BY <1>3, <1>4, SyncedFile
<1>6. /\ FileTyped([lines |-> n, synced |-> Len(n)])
      /\ Left([lines |-> n, synced |-> Len(n)]) = {n}
  BY <1>3, <1>4, SyncedFile
<1>7. log'.lines = l /\ notes'.lines = n
  BY <1>1
<1>8. (\A r \in ToSet(l) : LogLine(r)) /\ (\A a \in ToSet(n) : IsNote(a))
  BY <1>2, <1>3
<1>9. /\ FileTyped(log') /\ Left(log') = {l} /\ FileTyped(notes') /\ Left(notes') = {n}
  BY <1>1, <1>5, <1>6
<1> QED BY <1>1, <1>3, <1>7, <1>8, <1>9 DEF Closed

\* An open.
LEMMA OpenKeeps ==
    ASSUME EvalsInv, Open
    PROVE  EvalsInv'
<1> DEFINE l == log'.lines
           n == notes'.lines
<1>1. /\ FileTyped(log') /\ Closed(log') /\ FileTyped(notes') /\ Closed(notes')
      /\ l \in Left(log) /\ Left(log') = {l} /\ mem' = Replay(l)
      /\ n \in Left(notes) /\ Left(notes') = {n}
      /\ entries' = ToSet(n)
      /\ IsSequence(l)
      /\ \A r \in ToSet(l) : LogLine(r)
      /\ \A a \in ToSet(n) : IsNote(a)
  BY OpenLeaves
<1>2. /\ up' = TRUE
      /\ stage' = [t \in Tenants |-> IF t \in pending THEN "notes" ELSE "idle"]
      /\ UNCHANGED <<scope, pending, acked, issued, erasures>>
  BY DEF Open, history
<1>3. FilesInv'
  BY <1>1 DEF FilesInv
<1>4. ControlInv'
  BY <1>2 DEF EvalsInv, ControlInv
<1>5. FoundInv'
  <2>1. Whole(Replay(l))
    BY <1>1 DEF EvalsInv, FoundInv
  <2>2. Replay(l).datasetFloor \in Nat /\ Replay(l).experimentFloor \in Nat
    BY <1>1, FloorsAreNat
  <2>3. Based(Replay(l), l)
    BY <2>1, <2>2, ReplayIsBased
  <2>4. Filled(mem')
    BY <1>1, <2>1 DEF Whole
  <2> HIDE DEF l
  <2>5. /\ \A x \in Left(log') : Whole(Replay(x)) /\ Based(mem', x)
        /\ mem'.datasetFloor \in Nat /\ mem'.experimentFloor \in Nat
    BY <1>1, <2>1, <2>2, <2>3
  <2> QED BY <2>4, <2>5 DEF FoundInv, Left, Filled, Of
<1>6. IdsInv'
  <2>1. HasIds(Replay(l))
    BY <1>1 DEF EvalsInv, IdsInv
  <2>2. HasIds(mem)' /\ \A x \in Left(log') : HasIds(Replay(x))'
    <3> HIDE DEF l
    <3> QED BY <1>1, <1>2, <2>1 DEF HasIds
  <2> QED BY <1>2, <2>2 DEF EvalsInv, IdsInv, HasIds, Left
<1>7. AckedInv'
  <2> HIDE DEF l, n
  <2>1. \A r \in acked' : r.kind \in LogKinds \cup NoteKinds /\ r.tenant \notin pending'
    BY <1>2 DEF EvalsInv, AckedInv
  <2>2. \A r \in acked' : r.kind \in LogKinds =>
            r \in mem'.records /\ \A x \in Left(log') : r \in Replay(x).records
    BY <1>1, <1>2 DEF EvalsInv, AckedInv
  <2>3. \A r \in acked' : r.kind \in NoteKinds =>
            r \in entries' /\ \A x \in Left(notes') : r \in ToSet(x)
    BY <1>1, <1>2 DEF EvalsInv, AckedInv
  <2> QED BY <2>1, <2>2, <2>3 DEF AckedInv, Left
<1>8. NotesInv'
  <2> HIDE DEF n
  <2> QED BY <1>1 DEF NotesInv, Left
<1> QED BY <1>3, <1>4, <1>5, <1>6, <1>7, <1>8 DEF EvalsInv

\* What a purge of a tenant would leave: every record of the others with all it relies on,
\* and floors over every id.
LEMMA SurvivorsHold ==
    ASSUME FilesInv, FoundInv, up, NEW t
    PROVE  LET x == PurgedLines(t)
               n == Replay(x)
           IN  /\ IsSequence(x) /\ Torn \notin ToSet(x)
               /\ \A r \in ToSet(x) : LogLine(r)
               /\ n.records = Survivors(t) /\ Survivors(t) \subseteq mem.records
               /\ n.datasetFloor \in Nat /\ n.experimentFloor \in Nat
               /\ Whole(n)
               /\ \A id \in Nat : HasDataset(mem, id) => HasDataset(n, id)
               /\ \A id \in Nat : HasExperiment(mem, id) => HasExperiment(n, id)
<1> DEFINE S == Survivors(t)
           x == PurgedLines(t)
           n == Replay(x)
           d == NextDatasetId(mem) - 1
           e == NextExperimentId(mem) - 1
<1>1. /\ IsFiniteSet(mem.records)
      /\ \A r \in mem.records : LogLine(r) /\ r.kind # "counters" /\ Relies(r, mem)
      /\ \A r, s \in mem.records : SameEntity(r, s) => r = s
      /\ mem.datasetFloor \in Nat /\ mem.experimentFloor \in Nat /\ Filled(mem)
  BY InForce DEF FoundInv
<1>2. S \subseteq mem.records /\ IsFiniteSet(S)
  <2>1. S \subseteq mem.records
    BY DEF Survivors
  <2> QED BY <2>1, <1>1, FS_Subset
<1>3. /\ NextDatasetId(mem) \in Nat \ {0} /\ NextExperimentId(mem) \in Nat \ {0}
      /\ \A id \in Nat : HasDataset(mem, id) => id < NextDatasetId(mem)
      /\ \A id \in Nat : HasExperiment(mem, id) => id < NextExperimentId(mem)
  BY <1>1, NextIsNew
<1>4. /\ d \in Nat /\ e \in Nat
      /\ \A id \in Nat : HasDataset(mem, id) => id <= d
      /\ \A id \in Nat : HasExperiment(mem, id) => id <= e
  BY <1>3
<1>5. x = <<Counters(d, e)>> \o SetToSeq(S)
  BY DEF PurgedLines, Floors
<1>6. /\ IsSequence(x) /\ ToSet(x) = {Counters(d, e)} \cup S
      /\ n.records = S /\ n.datasetFloor = d /\ n.experimentFloor = e
  <2> HIDE DEF d, e, S
  <2>1. /\ \A r \in S : LogLine(r) /\ r.kind # "counters"
        /\ \A r, s \in S : SameEntity(r, s) => r = s
    BY <1>1, <1>2
  <2> HIDE DEF x
  <2>2. LET y == <<Counters(d, e)>> \o SetToSeq(S) IN
        /\ IsSequence(y) /\ ToSet(y) = {Counters(d, e)} \cup S
        /\ Replay(y).records = S
        /\ Replay(y).datasetFloor = d /\ Replay(y).experimentFloor = e
    BY <1>2, <1>4, <2>1, RewrittenReplay
  <2> QED BY <2>2, <1>5
<1>7. (\A r \in ToSet(x) : LogLine(r)) /\ Torn \notin ToSet(x)
  <2>1. LogLine(Counters(d, e))
    BY <1>4 DEF LogLine, IsRecord, Counters
  <2>2. \A r \in ToSet(x) : LogLine(r)
    BY <2>1, <1>1, <1>2, <1>6
  <2>3. ~LogLine(Torn)
    BY DEF LogLine, IsRecord, Torn
  <2> QED BY <2>2, <2>3
<1> HIDE DEF n, d, e, x
<1>8. \A r : r \in S <=> /\ r \in mem.records
                         /\ IF r.kind = "example" THEN r.body \in Surviving(t) ELSE r.tenant # t
  BY DEF Survivors
<1> HIDE DEF S
<1>9. ASSUME NEW r \in S PROVE Relies(r, n)
  <2>1. r \in mem.records /\ Relies(r, mem) /\ LogLine(r)
    BY <1>1, <1>8
  <2>2. CASE r.kind = "version"
    <3>1. r.tenant # t
      BY <2>2, <1>8
    <3>2. Dataset(r.version.dataset, r.tenant) \in S
      <4>1. Dataset(r.version.dataset, r.tenant) \in mem.records
        BY <2>1, <2>2 DEF Relies
      <4> QED BY <4>1, <3>1, <1>8 DEF Dataset
    <3>3. r.version.parent # Nil => /\ Version(r.version.parent, r.tenant) \in S
                                    /\ r.version.parent.dataset = r.version.dataset
      <4>1. r.version.parent # Nil => /\ Version(r.version.parent, r.tenant) \in mem.records
                                      /\ r.version.parent.dataset = r.version.dataset
        BY <2>1, <2>2 DEF Relies
      <4> QED BY <4>1, <3>1, <1>8 DEF Version
    <3> QED BY <2>2, <3>2, <3>3, <1>6 DEF Relies
  <2>3. CASE r.kind = "experiment"
    <3>1. r.tenant # t /\ Version(r.on, r.tenant) \in mem.records
      BY <2>1, <2>3, <1>8 DEF Relies
    <3>2. Version(r.on, r.tenant) \in S
      BY <3>1, <1>8 DEF Version
    <3> QED BY <2>3, <3>2, <1>6 DEF Relies
  <2>4. CASE r.kind = "tombstone"
    <3>1. r.tenant # t /\ Version(r.version, r.tenant) \in mem.records
      BY <2>1, <2>4, <1>8 DEF Relies
    <3>2. Version(r.version, r.tenant) \in S
      BY <3>1, <1>8 DEF Version
    <3> QED BY <2>4, <3>2, <1>6 DEF Relies
  <2>5. CASE r.kind = "run"
    <3>1. PICK f \in Of(mem, "experiment") : /\ f.experiment = r.experiment
                                            /\ f.tenant = r.tenant
                                            /\ r.body \in f.on.bodies
      BY <2>1, <2>5 DEF Relies
    <3>2. f \in mem.records /\ f.kind = "experiment" /\ r.tenant # t
      BY <3>1, <2>5, <1>8 DEF Of
    <3>3. f \in S
      BY <3>1, <3>2, <1>8
    <3> QED BY <2>5, <3>1, <3>2, <3>3, <1>6 DEF Relies, Of
  <2>6. CASE r.kind \notin {"version", "experiment", "tombstone", "run"}
    BY <2>6 DEF Relies
  <2> QED BY <2>2, <2>3, <2>4, <2>5, <2>6
<1>10. Filled(n)
  <2>1. SUFFICES ASSUME NEW v \in S, v.kind = "version", NEW b \in v.version.bodies
                 PROVE  Example(b) \in S
    BY <1>6 DEF Filled, Of
  <2>2. v \in mem.records /\ v.tenant # t
    BY <2>1, <1>8
  <2>3. Example(b) \in mem.records
    BY <2>1, <2>2, <1>1 DEF Filled, Of
  <2>4. b \in Surviving(t)
    BY <2>1, <2>2 DEF Surviving, Of
  <2> QED BY <2>3, <2>4, <1>8 DEF Example
<1>11. Whole(n)
  BY <1>6, <1>9, <1>10 DEF Whole
<1>12. /\ \A id \in Nat : HasDataset(mem, id) => HasDataset(n, id)
       /\ \A id \in Nat : HasExperiment(mem, id) => HasExperiment(n, id)
  BY <1>4, <1>6 DEF HasDataset, HasExperiment
<1> QED BY <1>2, <1>4, <1>6, <1>7, <1>11, <1>12 DEF n, x, S

\* The log after a purge: as it was, or what survives.
LEMMA PurgeLeaves ==
    ASSUME EvalsInv, NEW t \in Tenants, NEW o, PurgeTenant(t, o)
    PROVE  /\ up /\ up' = (o # "died") /\ t \in pending
           /\ \/ /\ log' = log /\ mem' = mem
                 /\ o = "ok" => Survivors(t) = mem.records
              \/ /\ FileTyped(log') /\ Closed(log') /\ log'.lines = PurgedLines(t)
                 /\ Left(log') = {PurgedLines(t)}
                 /\ (o = "ok" /\ mem' = Replay(PurgedLines(t))) \/ (o = "died" /\ mem' = mem)
<1> DEFINE x == PurgedLines(t)
<1>1. /\ up /\ up' = (o # "died") /\ stage[t] = "evals"
      /\ IF Survivors(t) = mem.records
         THEN UNCHANGED <<log, mem>>
         ELSE /\ log' \in Rewritten(log, x, o)
              /\ mem' = IF o = "ok" THEN Replay(x) ELSE mem
  BY DEF PurgeTenant, Outcome
<1>2. t \in pending
  BY <1>1 DEF EvalsInv, ControlInv
<1>3. IsSequence(x) /\ Torn \notin ToSet(x)
  BY <1>1, SurvivorsHold DEF EvalsInv
<1> HIDE DEF x
<1>4. CASE Survivors(t) = mem.records
  BY <1>1, <1>2, <1>4
<1>5. CASE Survivors(t) # mem.records
  <2>1. log' \in Rewritten(log, x, o) /\ mem' = IF o = "ok" THEN Replay(x) ELSE mem
    BY <1>1, <1>5
  <2>2. /\ log' = log \/ (/\ FileTyped(log') /\ Closed(log') /\ log'.lines = x /\ Left(log') = {x})
        /\ o = "ok" => log'.lines = x /\ Left(log') = {x}
    BY ONLY <1>3, <2>1, RewriteLeaves
  <2>3. /\ o = "ok" => log' = [lines |-> x, synced |-> Len(x)]
        /\ o \notin {"ok", "died"} => log' = log
    BY <2>1 DEF Rewritten
  <2>4. o = "ok" => FileTyped(log') /\ Closed(log')
    <3>1. Opens(x) /\ Healed(x) = x
      BY <1>3, ClosedOpens
    <3>2. FileTyped([lines |-> x, synced |-> Len(x)])
      BY <1>3, <3>1, SyncedFile
    <3> QED BY <2>3, <3>2, <1>3 DEF Closed
  <2>5. CASE o = "ok"
    <3>1. mem' = Replay(x) /\ FileTyped(log') /\ Closed(log') /\ log'.lines = x /\ Left(log') = {x}
      BY <2>1, <2>2, <2>4, <2>5
    <3>2. up /\ up' = (o # "died") /\ t \in pending
      BY <1>1, <1>2
    <3> QED BY ONLY <3>1, <3>2, <2>5 DEF x
  <2>6. CASE o # "ok" /\ log' = log
    BY <2>1, <2>6, <1>1, <1>2
  <2>7. CASE o # "ok" /\ log' # log
    BY <2>1, <2>2, <2>3, <2>7, <1>1, <1>2 DEF x
  <2> QED BY <2>5, <2>6, <2>7
<1> QED BY <1>4, <1>5

\* The purge of a tenant's records.
LEMMA PurgeTenantKeeps ==
    ASSUME EvalsInv, NEW t \in Tenants, NEW o, PurgeTenant(t, o)
    PROVE  EvalsInv'
<1> DEFINE x == PurgedLines(t)
<1>1. /\ up /\ up' = (o # "died") /\ t \in pending
      /\ \/ /\ log' = log /\ mem' = mem
            /\ o = "ok" => Survivors(t) = mem.records
         \/ /\ FileTyped(log') /\ Closed(log') /\ log'.lines = x
            /\ Left(log') = {x}
            /\ (o = "ok" /\ mem' = Replay(x)) \/ (o = "died" /\ mem' = mem)
  BY PurgeLeaves
<1>2. /\ stage' = IF o = "ok" THEN [stage EXCEPT ![t] = "settle"] ELSE stage
      /\ UNCHANGED <<scope, notes, entries, pending, acked, issued, erasures>>
  BY DEF PurgeTenant, history
<1>3. ControlInv'
  BY <1>1, <1>2 DEF EvalsInv, ControlInv
<1>4. CASE log' = log /\ mem' = mem
  <2>1. UNCHANGED <<logs, issued>> /\ (up' => up) /\ acked' \subseteq acked
    BY <1>1, <1>2, <1>4 DEF logs
  <2>2. \A r \in acked' : r.tenant \notin pending'
    BY <1>2 DEF EvalsInv, AckedInv
  <2> QED BY <2>1, <2>2, <1>3, LogsStay
<1>5. CASE /\ FileTyped(log') /\ Closed(log') /\ log'.lines = x /\ Left(log') = {x}
           /\ (o = "ok" /\ mem' = Replay(x)) \/ (o = "died" /\ mem' = mem)
  <2>1. /\ \A r \in ToSet(x) : LogLine(r)
        /\ Replay(x).records = Survivors(t)
        /\ Replay(x).datasetFloor \in Nat /\ Replay(x).experimentFloor \in Nat
        /\ Whole(Replay(x))
        /\ \A id \in Nat : HasDataset(mem, id) => HasDataset(Replay(x), id)
        /\ \A id \in Nat : HasExperiment(mem, id) => HasExperiment(Replay(x), id)
    BY <1>1, SurvivorsHold DEF EvalsInv
  <2> HIDE DEF x
  <2>2. FilesInv'
    <3>1. /\ FileTyped(notes') /\ Closed(notes')
          /\ \A a \in ToSet(notes'.lines) : a # Torn => IsNote(a)
      BY <1>1, <1>2 DEF EvalsInv, FilesInv, Closed
    <3>2. \A r \in ToSet(log'.lines) : LogLine(r)
      BY <1>5, <2>1
    <3> QED BY <1>5, <3>1, <3>2 DEF FilesInv
  <2>3. up' => mem' = Replay(x)
    BY <1>1, <1>5
  <2>4. FoundInv'
    <3>1. mem'.datasetFloor \in Nat /\ mem'.experimentFloor \in Nat
      BY <1>5, <2>1 DEF EvalsInv, FoundInv
    <3>2. Based(Replay(x), x) /\ Filled(Replay(x))
      BY <2>1, ReplayIsBased DEF Whole
    <3>3. \A y \in Left(log') : Whole(Replay(y))
      BY <1>5, <2>1
    <3>4. up' => Filled(mem') /\ \A y \in Left(log') : Based(mem', y)
      BY <1>5, <2>3, <3>2
    <3> QED BY <3>1, <3>3, <3>4 DEF FoundInv, Left, Filled, Of
  <2>5. IdsInv'
    <3>1. /\ HasIds(mem)
          /\ ToSet(issued.datasets) \subseteq Nat /\ ToSet(issued.experiments) \subseteq Nat
      BY <1>1 DEF EvalsInv, IdsInv
    <3>2. /\ \A id \in ToSet(issued.datasets) : HasDataset(Replay(x), id)
          /\ \A id \in ToSet(issued.experiments) : HasExperiment(Replay(x), id)
      BY <3>1, <2>1 DEF HasIds
    <3>3. (up' => HasIds(mem)') /\ \A y \in Left(log') : HasIds(Replay(y))'
      BY <3>2, <2>3, <1>2, <1>5 DEF HasIds
    <3> QED BY <1>2, <3>3 DEF EvalsInv, IdsInv, HasIds, Left
  <2>6. AckedInv'
    <3>1. ASSUME NEW r \in acked, r.kind \in LogKinds PROVE r \in Replay(x).records
      <4>1. r \in mem.records /\ r.tenant # t
        BY <3>1, <1>1 DEF EvalsInv, AckedInv
      <4>2. r.kind # "example"
        BY <3>1 DEF LogKinds
      <4> QED BY <4>1, <4>2, <2>1 DEF Survivors
    <3>2. \A r \in acked' : r.kind \in LogKinds \cup NoteKinds /\ r.tenant \notin pending'
      BY <1>2 DEF EvalsInv, AckedInv
    <3>3. \A r \in acked' : r.kind \in LogKinds =>
              (up' => r \in mem'.records) /\ \A y \in Left(log') : r \in Replay(y).records
      BY <1>2, <1>5, <2>3, <3>1
    <3>4. \A r \in acked' : r.kind \in NoteKinds =>
              (up' => r \in entries') /\ \A n \in Left(notes') : r \in ToSet(n)
      BY <1>1, <1>2 DEF EvalsInv, AckedInv
    <3> QED BY <3>2, <3>3, <3>4 DEF AckedInv, Left
  <2>7. NotesInv'
    BY <1>1, <1>2 DEF EvalsInv, NotesInv, Left
  <2> QED BY <1>3, <2>2, <2>4, <2>5, <2>6, <2>7 DEF EvalsInv
<1> QED BY <1>1, <1>4, <1>5

\* The files to begin with.
LEMMA EvalsBegin ==
    ASSUME EvalsInit
    PROVE  /\ scope \in Scopes /\ up = TRUE
           /\ FileTyped(log) /\ Closed(log) /\ Left(log) = {log.lines} /\ mem = Replay(log.lines)
           /\ FileTyped(notes) /\ Closed(notes) /\ Left(notes) = {<< >>} /\ ToSet(<< >>) = {}
           /\ notes.lines = << >> /\ entries = {}
           /\ IsSequence(log.lines) /\ \A r \in ToSet(log.lines) : LogLine(r)
           /\ Sound(log.lines) /\ Whole(mem)
           /\ mem.datasetFloor \in Nat /\ mem.experimentFloor \in Nat
           /\ IsFiniteSet(mem.records)
           /\ \A r \in mem.records : LogLine(r) /\ r.kind # "counters"
<1>1. /\ scope \in Scopes /\ up = TRUE /\ entries = {} /\ mem = Replay(scope.lines)
      /\ log = [lines |-> scope.lines, synced |-> Len(scope.lines)]
      /\ notes = [lines |-> << >>, synced |-> 0]
  BY DEF EvalsInit, Empty
<1> DEFINE l == scope.lines
<1>2. Sound(l)
  BY <1>1, LogsAreSound
<1>3. IsSequence(l) /\ \A r \in ToSet(l) : LogLine(r)
  BY <1>2 DEF Sound, IsSequence, LogLine
<1>4. Torn \notin ToSet(l)
  <2>1. ~LogLine(Torn)
    BY DEF LogLine, IsRecord, Torn
  <2> QED BY <2>1, <1>3
<1> HIDE DEF l
<1>5. Opens(l) /\ Healed(l) = l
  BY <1>3, <1>4, ClosedOpens
<1>6. /\ FileTyped([lines |-> l, synced |-> Len(l)])
      /\ Left([lines |-> l, synced |-> Len(l)]) = {Healed(l)}
  BY <1>3, <1>5, SyncedFile
<1>7. log = [lines |-> l, synced |-> Len(l)] /\ log.lines = l
  BY <1>1 DEF l
<1>8. FileTyped(log) /\ Closed(log) /\ Left(log) = {l}
  BY <1>4, <1>5, <1>6, <1>7 DEF Closed
<1>9. IsSequence(<< >>) /\ Len(<< >>) = 0 /\ ToSet(<< >>) = {}
  BY Single
<1>10. Opens(<< >>) /\ Healed(<< >>) = << >>
  BY <1>9, ClosedOpens
<1>11. FileTyped(notes) /\ Closed(notes) /\ Left(notes) = {<< >>} /\ notes.lines = << >>
  BY <1>1, <1>9, <1>10, SyncedFile DEF Closed
<1>12. Replay(l).datasetFloor \in Nat /\ Replay(l).experimentFloor \in Nat
  BY <1>3, FloorsAreNat
<1>13. /\ IsFiniteSet(Replay(l).records)
       /\ \A r \in Replay(l).records : LogLine(r) /\ r.kind # "counters"
  BY <1>3, StandingIsLine
<1>14. Whole(Replay(l)) /\ mem = Replay(l)
  BY <1>1, <1>2 DEF Sound, l
<1> QED BY <1>1, <1>2, <1>3, <1>7, <1>8, <1>9, <1>11, <1>12, <1>13, <1>14

\* The invariant holds to begin with.
LEMMA EvalsInvBegins ==
    ASSUME EvalsInit
    PROVE  EvalsInv
<1>1. /\ scope \in Scopes /\ up = TRUE
      /\ FileTyped(log) /\ Closed(log) /\ Left(log) = {log.lines} /\ mem = Replay(log.lines)
      /\ FileTyped(notes) /\ Closed(notes) /\ Left(notes) = {<< >>} /\ ToSet(<< >>) = {}
      /\ notes.lines = << >> /\ entries = {}
      /\ \A r \in ToSet(log.lines) : LogLine(r)
      /\ Whole(mem)
      /\ mem.datasetFloor \in Nat /\ mem.experimentFloor \in Nat
      /\ IsFiniteSet(mem.records)
      /\ \A r \in mem.records : LogLine(r) /\ r.kind # "counters"
  BY EvalsBegin
<1>2. FilesInv
  BY <1>1 DEF FilesInv
<1>3. ControlInv
  BY <1>1 DEF EvalsInit, ControlInv
<1>4. FoundInv
  BY <1>1, ReplayIsBased DEF FoundInv, Whole
<1>5. IdsInv
  <2> DEFINE D == Of(mem, "dataset")
             T == {r.dataset : r \in D}
  <2>1. IsFiniteSet(D)
    <3>1. D \in SUBSET mem.records
      BY DEF Of
    <3> QED BY <3>1, <1>1, FS_Subset
  <2>2. \A r \in D : r \in mem.records /\ r.kind = "dataset" /\ r.dataset \in Nat
    BY <1>1 DEF Of, LogLine, IsRecord
  <2>3. issued = [datasets |-> SetToSeq(T), experiments |-> << >>]
    BY DEF EvalsInit
  <2> HIDE DEF D
  <2>4. IsFiniteSet(T) /\ T \subseteq Nat
    <3>1. [r \in D |-> r.dataset] \in Surjection(D, T)
      BY DEF Surjection
    <3> QED BY <2>1, <2>2, <3>1, FS_Surjection
  <2>5. \A id \in T : HasDataset(mem, id)
    BY <2>2 DEF HasDataset
  <2> HIDE DEF T
  <2>6. IsSequence(SetToSeq(T)) /\ ToSet(SetToSeq(T)) = T /\ IsInjective(SetToSeq(T))
    BY <2>4, SetAsSeq
  <2>7. IsSequence(<< >>) /\ ToSet(<< >>) = {} /\ IsInjective(<< >>)
    <3>1. IsSequence(<< >>) /\ ToSet(<< >>) = {} /\ Len(<< >>) = 0
      BY Single
    <3>2. DOMAIN << >> = {}
      BY <3>1, SeqIs
    <3> QED BY <3>1, <3>2 DEF IsInjective
  <2>8. issued.datasets = SetToSeq(T) /\ issued.experiments = << >>
    BY <2>3
  <2>9. HasIds(mem)
    BY <2>5, <2>6, <2>7, <2>8 DEF HasIds
  <2>10. \A x \in Left(log) : HasIds(Replay(x))
    BY <2>9, <1>1
  <2>11. /\ issued = [datasets |-> issued.datasets, experiments |-> issued.experiments]
         /\ \A s \in {issued.datasets, issued.experiments} :
               IsSequence(s) /\ IsInjective(s) /\ ToSet(s) \subseteq Nat
    BY <2>3, <2>4, <2>6, <2>7, <2>8
  <2> QED BY <2>9, <2>10, <2>11 DEF IdsInv
<1>6. AckedInv
  <2>1. acked = {r \in mem.records : r.kind # "example"} /\ pending = {}
    BY DEF EvalsInit
  <2>2. \A r \in acked : r \in mem.records /\ r.kind \in LogKinds /\ r.kind \notin NoteKinds
    BY <2>1, <1>1 DEF LogLine, IsRecord, LogKinds, NoteKinds
  <2>3. \A r \in acked : \A x \in Left(log) : r \in Replay(x).records
    BY <2>2, <1>1
  <2> QED BY <2>1, <2>2, <2>3 DEF AckedInv
<1>7. NotesInv
  BY <1>1 DEF NotesInv
<1> QED BY <1>2, <1>3, <1>4, <1>5, <1>6, <1>7 DEF EvalsInv

\* Every step keeps it.
LEMMA EvalsStepKeeps ==
    ASSUME EvalsInv, [EvalsNext]_evalsVars
    PROVE  EvalsInv'
<1>1. ASSUME NEW o, NEW t \in Tenants, CreateDataset(t, o) PROVE EvalsInv'
  BY <1>1, CreateDatasetKeeps
<1>2. ASSUME NEW o, NEW who, NEW d \in Of(mem, "dataset"), NEW parent,
             NEW bodies \in SUBSET Bodies, CreateVersion(who, d, parent, bodies, o)
      PROVE  EvalsInv'
  BY <1>2, CreateVersionKeeps
<1>3. ASSUME NEW o, NEW who, NEW v \in Of(mem, "version"),
             CreateExperiment(who, v, o) \/ TombstoneVersion(who, v, o)
      PROVE  EvalsInv'
  BY <1>3, CreateExperimentKeeps, TombstoneVersionKeeps
<1>4. ASSUME NEW o, NEW who, NEW e \in Of(mem, "experiment"), NEW b \in Bodies,
             RecordRun(who, e, b, o)
      PROVE  EvalsInv'
  BY <1>4, RecordRunKeeps
<1>5. ASSUME NEW o, NEW a, IsNote(a), Annotate(a, o) PROVE EvalsInv'
  BY <1>5, AnnotateKeeps
<1>6. ASSUME NEW o, DropOlderThan(o) PROVE EvalsInv'
  BY <1>6, DropOlderThanKeeps
<1>7. ASSUME NEW o, NEW t \in Tenants, DropAnnotations(t, o) \/ PurgeTenant(t, o) PROVE EvalsInv'
  BY <1>7, DropAnnotationsKeeps, PurgeTenantKeeps
<1>8. ASSUME NEW who, NEW r \in Of(mem, "version") \cup Of(mem, "tombstone"), Refind(who, r)
      PROVE  EvalsInv'
  BY <1>8, RefindKeeps
<1>9. ASSUME NEW t \in Tenants, BeginErasure(t) \/ Settle(t) PROVE EvalsInv'
  BY <1>9, BeginErasureKeeps, SettleKeeps
<1>10. ASSUME LosePower \/ Open PROVE EvalsInv'
  BY <1>10, LosePowerKeeps, OpenKeeps
<1>11. ASSUME UNCHANGED evalsVars PROVE EvalsInv'
  BY <1>11, EvalsStutterKeeps
<1>12. /\ \A e, b, t : t \in Tenants => IsNote(Score(e, b, t))
       /\ \A t \in Tenants : \A aged : IsNote(Note(t, aged))
  BY DEF IsNote, NoteKinds, Score, Note
<1> QED BY <1>1, <1>2, <1>3, <1>4, <1>5, <1>6, <1>7, <1>8, <1>9, <1>10, <1>11, <1>12 DEF EvalsNext

\* The invariant of the two logs: what a loss of power may leave of the log is whole and
\* has what is in force and every id that was answered, what was answered is in the files,
\* and the tenants under erasure are those whose purge is under way.
THEOREM EvalsAlways == EvalsSpec => []EvalsInv
<1>1. EvalsInit => EvalsInv
  BY EvalsInvBegins
<1>2. EvalsInv /\ [EvalsNext]_evalsVars => EvalsInv'
  BY EvalsStepKeeps
<1> QED BY <1>1, <1>2, PTL DEF EvalsSpec

\* No id is answered twice, whatever was purged or lost in between (evals.rs:477-494).
THEOREM IdsStayFresh == EvalsSpec => []IdsAreFresh
<1>1. EvalsInv => IdsAreFresh
  BY DEF EvalsInv, IdsInv, IdsAreFresh
<1> QED BY <1>1, EvalsAlways, PTL

\* What a client was answered for is in force, and would be after a loss of power now,
\* unless its tenant was erased or it is an annotation past its window (evals.rs:613).
THEOREM AnswersSurvive == EvalsSpec => []AckedSurvives
<1>1. ASSUME EvalsInv PROVE AckedSurvives
  <2>1. FileTyped(log) /\ FileTyped(notes)
    BY <1>1 DEF EvalsInv, FilesInv
  <2>2. \A r \in acked : r.kind \in LogKinds \/ r.kind \in NoteKinds
    BY <1>1 DEF EvalsInv, AckedInv
  <2>3. up => acked \subseteq mem.records \cup entries
    BY <1>1, <2>2 DEF EvalsInv, AckedInv
  <2>4. ASSUME NEW l \in Images(log), NEW n \in Images(notes)
        PROVE  /\ Opens(l) /\ Opens(n)
               /\ acked \subseteq Replay(Healed(l)).records \cup ToSet(Healed(n))
    <3>1. Opens(l) /\ Opens(n)
      BY <2>1, ImageIs
    <3>2. Healed(l) \in Left(log) /\ Healed(n) \in Left(notes)
      BY DEF Left
    <3> QED BY <3>1, <3>2, <2>2, <1>1 DEF EvalsInv, AckedInv
  <2> QED BY <2>3, <2>4 DEF AckedSurvives
<1> QED BY <1>1, EvalsAlways, PTL

----------------------------------------------------------------------------
(* What an erasure leaves.                                                  *)

\* No scope has both erasures and mutations that fail after their bytes reached the file.
ErasuresAreCertain == \A s \in Scopes : "unsynced" \in s.outcomes => s.erasures = 0

\* A score stays addressed when there is more.
LEMMA AddressedInMore ==
    ASSUME NEW a, NEW m, NEW n, m.records \subseteq n.records, AddressedIn(a, m)
    PROVE  AddressedIn(a, n)
BY DEF AddressedIn, Of

\* The outcomes of a mutation.
LEMMA OutcomeIs ==
    ASSUME EvalsInv, NEW o, Outcome(o)
    PROVE  up /\ up' = (o # "died") /\ o \in scope.outcomes
           /\ o \in {"ok", "failed", "unsynced", "died"}
BY EvalsAssumption DEF EvalsInv, ControlInv, Outcome

\* A log with no more than could be found before.
LEMMA WritersStay ==
    ASSUME WritersInv, \A x \in Left(log') : \A r \in Replay(x).records :
                           \E p \in Left(log) : r \in Replay(p).records,
           written \subseteq written',
           \A t \in Tenants : stage'[t] = "settle" => stage[t] = "settle"
    PROVE  WritersInv'
<1>1. ASSUME NEW x \in Left(log'), NEW r \in Replay(x).records
      PROVE  /\ r.kind = "example" =>
                    \E t \in Tenants : stage'[t] # "settle" /\ <<t, r.body>> \in written'
             /\ r.kind # "example" => /\ r.tenant \in Tenants
                                      /\ <<r.tenant, Nil>> \in written'
                                      /\ stage'[r.tenant] # "settle"
             /\ r.kind = "version" => \A b \in r.version.bodies : <<r.tenant, b>> \in written'
  <2>1. PICK p \in Left(log) : r \in Replay(p).records
    BY <1>1
  <2>2. /\ r.kind = "example" =>
                    \E t \in Tenants : stage[t] # "settle" /\ <<t, r.body>> \in written
        /\ r.kind # "example" => /\ r.tenant \in Tenants
                                 /\ <<r.tenant, Nil>> \in written /\ stage[r.tenant] # "settle"
        /\ r.kind = "version" => \A b \in r.version.bodies : <<r.tenant, b>> \in written
    BY <2>1 DEF WritersInv
  <2> QED BY <2>2
<1> QED BY <1>1 DEF WritersInv, Left

\* Scores that could be found before, on a log that has all that was in force.
LEMMA ScoresStay ==
    ASSUME ScoresInv, up, mem.records \subseteq mem'.records,
           \A x \in Left(log') : mem.records \subseteq Replay(x).records,
           \A n \in Left(notes') : \A a \in ToSet(n) : \E p \in Left(notes) : a \in ToSet(p),
           written \subseteq written', stage' = stage
    PROVE  ScoresInv'
<1>1. ASSUME NEW n \in Left(notes'), NEW a \in ToSet(n)
      PROVE  /\ AddressedIn(a, mem') /\ \A x \in Left(log') : AddressedIn(a, Replay(x))
             /\ a.tenant \in Tenants /\ <<a.tenant, Nil>> \in written'
             /\ stage'[a.tenant] \notin {"evals", "settle"}
  <2>1. PICK p \in Left(notes) : a \in ToSet(p)
    BY <1>1
  <2>2. AddressedIn(a, mem) /\ a.tenant \in Tenants /\ <<a.tenant, Nil>> \in written
        /\ stage[a.tenant] \notin {"evals", "settle"}
    BY <2>1 DEF ScoresInv
  <2>3. AddressedIn(a, mem') /\ \A x \in Left(log') : AddressedIn(a, Replay(x))
    BY <2>2, AddressedInMore
  <2> QED BY <2>2, <2>3
<1> QED BY <1>1 DEF ScoresInv, Left, AddressedIn, Of

\* A mutation of lines that fit, with their writer noted.
LEMMA MutateErases ==
    ASSUME EvalsInv, PurgeInv, NEW t \in Tenants, NEW recs, NEW o,
           Mutate(t, recs, o), Fits(recs, mem), written \subseteq written', <<t, Nil>> \in written',
           \A r \in ToSet(recs) :
               /\ r.kind # "example" => r.tenant = t
               /\ r.kind = "example" => <<t, r.body>> \in written'
               /\ r.kind = "version" => \A b \in r.version.bodies : <<t, b>> \in written'
    PROVE  PurgeInv'
<1>1. /\ up
      /\ mem.records \subseteq mem'.records
      /\ \A x \in Left(log') : Based(mem', x)
      /\ o = "ok" => mem'.records = mem.records \cup ToSet(recs)
      /\ o # "ok" => mem' = mem
  BY MutateGrows DEF EvalsInv
<1>2. /\ notes' = notes /\ entries' = entries /\ pending' = pending /\ stage' = stage
      /\ scope' = scope /\ t \notin pending /\ Outcome(o)
      /\ log' \in Appended(log, recs, o)
  BY DEF Mutate
<1>3. up' = (o # "died") /\ o \in scope.outcomes /\ o \in {"ok", "failed", "unsynced", "died"}
  BY <1>2, OutcomeIs
<1>4. IsSequence(recs) /\ Torn \notin ToSet(recs)
  BY FitsAreLines
<1>5. /\ FileTyped(log) /\ Closed(log) /\ log.lines \in Left(log) /\ IsSequence(log.lines)
      /\ Based(mem, log.lines)
  BY <1>1, InForce DEF EvalsInv, FilesInv, FoundInv
<1>6. \A x \in Left(log') : x \in Left(log) \/ Continues(x, log.lines, recs)
  BY ONLY <1>2, <1>4, <1>5, AppendLeaves
<1>7. ASSUME NEW x \in Left(log'), NEW r \in Replay(x).records
      PROVE  r \in ToSet(recs) \/ \E p \in Left(log) : r \in Replay(p).records
  <2>1. CASE x \in Left(log)
    BY <2>1, <1>7
  <2>2. CASE Continues(x, log.lines, recs)
    <3>1. PICK k \in 0 .. Len(recs) : x = log.lines \o SubSeq(recs, 1, k)
      BY <2>2 DEF Continues
    <3>2. Fits(SubSeq(recs, 1, k), mem) /\ ToSet(SubSeq(recs, 1, k)) \subseteq ToSet(recs)
      BY <1>4, <3>1, FitsPrefix, FirstOf
    <3> DEFINE p == SubSeq(recs, 1, k)
    <3> HIDE DEF p
    <3>3. x = log.lines \o p /\ Fits(p, mem) /\ ToSet(p) \subseteq ToSet(recs)
      BY <3>1, <3>2 DEF p
    <3>4. Replay(log.lines \o p).records \subseteq Replay(log.lines).records \cup ToSet(p)
      BY <3>3, <1>5, StaysBased
    <3> QED BY <3>3, <3>4, <1>5, <1>7
  <2> QED BY <2>1, <2>2, <1>6
<1>8. CertainInv'
  <2>1. pending' # {} => "unsynced" \notin scope'.outcomes
    BY <1>2 DEF PurgeInv, CertainInv
  <2>2. ASSUME up', "unsynced" \notin scope'.outcomes
        PROVE  /\ \A x \in Left(log') : Replay(x).records \subseteq mem'.records
               /\ \A n \in Left(notes') : ToSet(n) \subseteq entries'
    <3>1. /\ \A x \in Left(log) : Replay(x).records \subseteq mem.records
          /\ \A n \in Left(notes) : ToSet(n) \subseteq entries
      BY <2>2, <1>1, <1>2 DEF PurgeInv, CertainInv
    <3>2. CASE o = "ok"
      BY <3>1, <3>2, <1>1, <1>2, <1>7
    <3>3. CASE o = "failed"
      <4>1. log' = log
        BY <3>3, <1>2 DEF Appended
      <4> QED BY <4>1, <3>1, <3>3, <1>1, <1>2
    <3> QED BY <2>2, <3>2, <3>3, <1>2, <1>3
  <2> QED BY <2>1, <2>2 DEF CertainInv, Left
<1>9. ScoresInv'
  <2>1. \A x \in Left(log') : mem.records \subseteq Replay(x).records
    BY <1>1 DEF Based
  <2>2. \A n \in Left(notes') : \A a \in ToSet(n) : \E p \in Left(notes) : a \in ToSet(p)
    BY <1>2
  <2> QED BY <2>1, <2>2, <1>1, <1>2, ScoresStay DEF PurgeInv
<1>10. WritersInv'
  <2>1. stage[t] # "settle"
    BY <1>2 DEF EvalsInv, ControlInv
  <2>2. ASSUME NEW x \in Left(log'), NEW r \in Replay(x).records
        PROVE  /\ r.kind = "example" =>
                      \E s \in Tenants : stage'[s] # "settle" /\ <<s, r.body>> \in written'
               /\ r.kind # "example" => /\ r.tenant \in Tenants
                                        /\ <<r.tenant, Nil>> \in written'
                                        /\ stage'[r.tenant] # "settle"
               /\ r.kind = "version" => \A b \in r.version.bodies : <<r.tenant, b>> \in written'
    <3>1. CASE r \in ToSet(recs)
      BY <3>1, <2>1, <1>2
    <3>2. CASE \E p \in Left(log) : r \in Replay(p).records
      <4>1. PICK p \in Left(log) : r \in Replay(p).records
        BY <3>2
      <4>2. /\ r.kind = "example" =>
                      \E s \in Tenants : stage[s] # "settle" /\ <<s, r.body>> \in written
            /\ r.kind # "example" => /\ r.tenant \in Tenants
                                     /\ <<r.tenant, Nil>> \in written /\ stage[r.tenant] # "settle"
            /\ r.kind = "version" => \A b \in r.version.bodies : <<r.tenant, b>> \in written
        BY <4>1 DEF PurgeInv, WritersInv
      <4> QED BY <4>2, <1>2
    <3> QED BY <3>1, <3>2, <2>2, <1>7
  <2> QED BY <2>2 DEF WritersInv, Left
<1> QED BY <1>8, <1>9, <1>10 DEF PurgeInv

\* What is written with a mutation.
LEMMA WritesAll ==
    ASSUME NEW t, NEW bodies, Writes(t, bodies)
    PROVE  /\ written \subseteq written' /\ <<t, Nil>> \in written'
           /\ \A b \in bodies : <<t, b>> \in written'
BY DEF Writes

\* A mutation of one record that has no bodies.
LEMMA OneRecordErases ==
    ASSUME EvalsInv, PurgeInv, NEW r, NEW o, r.tenant \in Tenants, Mutate(r.tenant, <<r>>, o),
           Fits(<<r>>, mem), ToSet(<<r>>) = {r}, r.kind \notin {"example", "version"},
           Writes(r.tenant, {})
    PROVE  PurgeInv'
<1> DEFINE l == <<r>>
<1>1. /\ written \subseteq written' /\ <<r.tenant, Nil>> \in written'
  BY WritesAll
<1>2. Mutate(r.tenant, l, o) /\ Fits(l, mem) /\ ToSet(l) = {r}
  OBVIOUS
<1> HIDE DEF l
<1>3. \A s \in ToSet(l) :
          /\ s.kind # "example" => s.tenant = r.tenant
          /\ s.kind = "example" => <<r.tenant, s.body>> \in written'
          /\ s.kind = "version" => \A b \in s.version.bodies : <<r.tenant, b>> \in written'
  BY <1>2
<1> QED BY <1>1, <1>2, <1>3, MutateErases

\* A dataset is created.
LEMMA CreateDatasetErases ==
    ASSUME EvalsInv, PurgeInv, NEW o, NEW t \in Tenants,
           CreateDataset(t, o)
    PROVE  PurgeInv'
<1> DEFINE r == Dataset(NextDatasetId(mem), t)
<1>1. up /\ Mutate(t, <<r>>, o) /\ Writes(t, {})
  BY DEF CreateDataset, Mutate, Outcome
<1>2. r.kind = "dataset" /\ r.tenant = t /\ Fits(<<r>>, mem) /\ ToSet(<<r>>) = {r}
  BY <1>1, DatasetIsNew
<1> HIDE DEF r
<1> QED BY <1>1, <1>2, OneRecordErases

\* A version is created: its tenant is noted for each of its bodies.
LEMMA CreateVersionErases ==
    ASSUME EvalsInv, PurgeInv, NEW o, NEW who, NEW d \in Of(mem, "dataset"), NEW parent,
           NEW bodies \in SUBSET Bodies, CreateVersion(who, d, parent, bodies, o)
    PROVE  PurgeInv'
<1> DEFINE v == Version(VersionId(d.dataset, parent, bodies), d.tenant)
           recs == Append(Unstored(bodies), v)
<1>1. up /\ Derives(d.dataset, parent) /\ Mutate(d.tenant, recs, o) /\ Writes(d.tenant, bodies)
  BY DEF CreateVersion, Mutate, Outcome
<1>2. Fits(recs, mem) /\ \A r \in ToSet(recs) : r.kind # "example" => r.tenant = d.tenant
  BY <1>1, VersionFits
<1>3. \A r \in ToSet(recs) : /\ r.kind = "example" => r.body \in bodies
                             /\ r.kind = "version" => r.version.bodies = bodies
  BY <1>1, VersionWrites, ZenonT(60)
<1>4. d.tenant \in Tenants
  BY <1>1, InForce DEF EvalsInv, Of, LogLine
<1> HIDE DEF recs
<1>5. /\ written \subseteq written' /\ <<d.tenant, Nil>> \in written'
      /\ \A b \in bodies : <<d.tenant, b>> \in written'
  BY <1>1, WritesAll
<1>6. \A r \in ToSet(recs) :
          /\ r.kind # "example" => r.tenant = d.tenant
          /\ r.kind = "example" => <<d.tenant, r.body>> \in written'
          /\ r.kind = "version" => \A b \in r.version.bodies : <<d.tenant, b>> \in written'
  BY <1>2, <1>3, <1>5
<1> QED BY <1>1, <1>2, <1>4, <1>5, <1>6, MutateErases

\* An experiment is created.
LEMMA CreateExperimentErases ==
    ASSUME EvalsInv, PurgeInv, NEW o, NEW who, NEW v \in Of(mem, "version"),
           CreateExperiment(who, v, o)
    PROVE  PurgeInv'
<1> DEFINE r == Experiment(NextExperimentId(mem), v.version, v.tenant)
<1>1. up /\ Mutate(v.tenant, <<r>>, o) /\ Writes(v.tenant, {})
  BY DEF CreateExperiment, Mutate, Outcome
<1>2. /\ r.kind = "experiment" /\ r.tenant = v.tenant /\ r.tenant \in Tenants
      /\ Fits(<<r>>, mem) /\ ToSet(<<r>>) = {r}
  BY <1>1, ExperimentIsNew
<1> HIDE DEF r
<1> QED BY <1>1, <1>2, OneRecordErases

\* A version is taken back.
LEMMA TombstoneVersionErases ==
    ASSUME EvalsInv, PurgeInv, NEW o, NEW who, NEW v \in Of(mem, "version"),
           TombstoneVersion(who, v, o)
    PROVE  PurgeInv'
<1> DEFINE r == Tombstone(v.version, v.tenant)
<1>1. up /\ Live(v) /\ Mutate(v.tenant, <<r>>, o) /\ Writes(v.tenant, {})
  BY DEF TombstoneVersion, Mutate, Outcome
<1>2. /\ r.kind = "tombstone" /\ r.tenant = v.tenant /\ r.tenant \in Tenants
      /\ Fits(<<r>>, mem) /\ ToSet(<<r>>) = {r}
  BY <1>1, TombstoneFits
<1> HIDE DEF r
<1> QED BY <1>1, <1>2, OneRecordErases

\* A run is recorded.
LEMMA RecordRunErases ==
    ASSUME EvalsInv, PurgeInv, NEW o, NEW who, NEW e \in Of(mem, "experiment"), NEW b \in Bodies,
           RecordRun(who, e, b, o)
    PROVE  PurgeInv'
<1> DEFINE r == Run(e.experiment, b, e.tenant)
<1>1. up /\ InManifest(e, b) /\ Mutate(e.tenant, <<r>>, o) /\ Writes(e.tenant, {})
  BY DEF RecordRun, Mutate, Outcome
<1>2. /\ r.kind = "run" /\ r.tenant = e.tenant /\ r.tenant \in Tenants
      /\ Fits(<<r>>, mem) /\ ToSet(<<r>>) = {r}
  BY <1>1, RunFits
<1> HIDE DEF r
<1> QED BY <1>1, <1>2, OneRecordErases

\* A score that is addressed, by what its experiment's version lists.
LEMMA AddressedIs ==
    ASSUME FilesInv, FoundInv, up, NEW a
    PROVE  Addressed(a) <=> AddressedIn(a, mem)
<1>1. /\ \A r \in mem.records : Relies(r, mem)
  BY InForce
<1>2. ASSUME NEW e \in Of(mem, "experiment")
      PROVE  InManifest(e, a.body) <=> a.body \in e.on.bodies
  <2>1. Version(e.on, e.tenant) \in mem.records
    BY <1>1 DEF Of, Relies
  <2>2. Version(e.on, e.tenant) \in Of(mem, "version") /\ Version(e.on, e.tenant).version = e.on
    BY <2>1 DEF Of, Version
  <2> QED BY <2>2 DEF InManifest
<1> QED BY <1>2 DEF Addressed, AddressedIn

\* What was in force is in every file that could be found.
LEMMA FoundHas ==
    ASSUME FoundInv, up
    PROVE  \A x \in Left(log) : mem.records \subseteq Replay(x).records
BY DEF FoundInv, Based

\* An annotation is addressed when it is written.
LEMMA AnnotateErases ==
    ASSUME EvalsInv, PurgeInv, NEW a, IsNote(a), NEW o, Annotate(a, o)
    PROVE  PurgeInv'
<1>1. /\ up /\ a.tenant \notin pending /\ Outcome(o) /\ Addressed(a)
      /\ notes' \in Appended(notes, <<a>>, o)
      /\ IF o = "ok"
         THEN entries' = entries \cup {a} /\ acked' = acked \cup {a}
         ELSE UNCHANGED <<entries, acked>>
      /\ UNCHANGED <<scope, log, mem, pending, stage>>
      /\ Writes(a.tenant, {})
  BY DEF Annotate, Outcome
<1>2. /\ \A n \in Left(notes') : \A b \in ToSet(n) : b = a \/ \E p \in Left(notes) : b \in ToSet(p)
  BY AnnotateLeaves
<1>3. up' = (o # "died") /\ o \in scope.outcomes /\ o \in {"ok", "failed", "unsynced", "died"}
  BY <1>1, OutcomeIs
<1>4. written \subseteq written' /\ <<a.tenant, Nil>> \in written'
  BY <1>1, WritesAll
<1>5. AddressedIn(a, mem) /\ \A x \in Left(log) : mem.records \subseteq Replay(x).records
  BY <1>1, AddressedIs, FoundHas DEF EvalsInv
<1>6. a.tenant \in Tenants /\ stage[a.tenant] = "idle"
  BY <1>1 DEF IsNote, EvalsInv, ControlInv
<1>7. CertainInv'
  <2>1. pending' # {} => "unsynced" \notin scope'.outcomes
    BY <1>1 DEF PurgeInv, CertainInv
  <2>2. ASSUME up', "unsynced" \notin scope'.outcomes
        PROVE  /\ \A x \in Left(log') : Replay(x).records \subseteq mem'.records
               /\ \A n \in Left(notes') : ToSet(n) \subseteq entries'
    <3>1. /\ \A x \in Left(log) : Replay(x).records \subseteq mem.records
          /\ \A n \in Left(notes) : ToSet(n) \subseteq entries
      BY <2>2, <1>1 DEF PurgeInv, CertainInv
    <3>2. CASE o = "ok"
      BY <3>1, <3>2, <1>1, <1>2
    <3>3. CASE o = "failed"
      <4>1. notes' = notes
        BY <3>3, <1>1 DEF Appended
      <4> QED BY <4>1, <3>1, <3>3, <1>1
    <3> QED BY <2>2, <3>2, <3>3, <1>1, <1>3
  <2> QED BY <2>1, <2>2 DEF CertainInv, Left
<1>8. ScoresInv'
  <2>1. ASSUME NEW n \in Left(notes'), NEW b \in ToSet(n)
        PROVE  /\ AddressedIn(b, mem) /\ \A x \in Left(log) : AddressedIn(b, Replay(x))
               /\ b.tenant \in Tenants /\ <<b.tenant, Nil>> \in written'
               /\ stage[b.tenant] \notin {"evals", "settle"}
    <3>1. CASE b = a
      BY <3>1, <1>4, <1>5, <1>6, AddressedInMore
    <3>2. CASE \E p \in Left(notes) : b \in ToSet(p)
      BY <3>2, <1>1, <1>4 DEF PurgeInv, ScoresInv
    <3> QED BY <3>1, <3>2, <2>1, <1>2
  <2> QED BY <2>1, <1>1 DEF ScoresInv, Left, AddressedIn, Of
<1>9. WritersInv'
  <2>1. \A x \in Left(log') : \A r \in Replay(x).records :
            \E p \in Left(log) : r \in Replay(p).records
    BY <1>1
  <2> QED BY <2>1, <1>1, <1>4, WritersStay DEF PurgeInv
<1> QED BY <1>7, <1>8, <1>9 DEF PurgeInv

\* What a rewrite of the annotations keeps, but for the scores of an erased tenant.
LEMMA KeepingErases ==
    ASSUME EvalsInv, PurgeInv, NEW kept \in SUBSET entries, NEW o, RewriteKeeping(kept, o),
           Outcome(o), UNCHANGED <<scope, log, mem, pending, written>>
    PROVE  /\ CertainInv'
           /\ \A n \in Left(notes') : \A a \in ToSet(n) : \E p \in Left(notes) : a \in ToSet(p)
           /\ o = "ok" => entries' = kept
<1>1. up /\ up' = (o # "died")
  BY DEF Outcome
<1>2. /\ \A n \in Left(notes') : \A a \in ToSet(n) : \E p \in Left(notes) : a \in ToSet(p)
      /\ o = "ok" /\ kept # entries => \A n \in Left(notes') : ToSet(n) = kept
      /\ o = "ok" => entries' = kept
      /\ o # "ok" => entries' = entries
      /\ o \notin {"ok", "died"} => notes' = notes
  BY <1>1, KeepingLeaves
<1>3. kept = entries => notes' = notes
  BY DEF RewriteKeeping
<1>4. ASSUME up', "unsynced" \notin scope'.outcomes
      PROVE  /\ \A x \in Left(log') : Replay(x).records \subseteq mem'.records
             /\ \A n \in Left(notes') : ToSet(n) \subseteq entries'
  <2>1. /\ \A x \in Left(log) : Replay(x).records \subseteq mem.records
        /\ \A n \in Left(notes) : ToSet(n) \subseteq entries
    BY <1>1, <1>4 DEF PurgeInv, CertainInv
  <2>2. CASE o = "ok" /\ kept # entries
    BY <2>1, <2>2, <1>2
  <2>3. CASE o = "ok" /\ kept = entries
    BY <2>1, <2>3, <1>2, <1>3
  <2>4. CASE o \notin {"ok", "died"}
    BY <2>1, <2>4, <1>2
  <2> QED BY <2>2, <2>3, <2>4, <1>1, <1>4
<1>5. CertainInv'
  <2>1. pending' # {} => "unsynced" \notin scope'.outcomes
    BY DEF PurgeInv, CertainInv
  <2> QED BY <2>1, <1>4 DEF CertainInv, Left
<1> QED BY <1>2, <1>5

\* Annotations age out.
LEMMA DropOlderThanErases ==
    ASSUME EvalsInv, PurgeInv, NEW o, DropOlderThan(o)
    PROVE  PurgeInv'
<1> DEFINE kept == {a \in entries : ~Ages(a)}
<1>1. /\ up /\ Outcome(o) /\ RewriteKeeping(kept, o)
      /\ UNCHANGED <<scope, log, mem, pending, stage, written>>
  BY DEF DropOlderThan, Outcome
<1>2. kept \in SUBSET entries
  OBVIOUS
<1> HIDE DEF kept
<1>3. /\ CertainInv'
      /\ \A n \in Left(notes') : \A a \in ToSet(n) : \E p \in Left(notes) : a \in ToSet(p)
  BY <1>1, <1>2, KeepingErases
<1>4. ScoresInv'
  <2>1. \A x \in Left(log') : mem.records \subseteq Replay(x).records
    BY <1>1, FoundHas DEF EvalsInv
  <2> QED BY <2>1, <1>1, <1>3, ScoresStay DEF PurgeInv
<1>5. WritersInv'
  <2>1. \A x \in Left(log') : \A r \in Replay(x).records :
            \E p \in Left(log) : r \in Replay(p).records
    BY <1>1
  <2> QED BY <2>1, <1>1, WritersStay DEF PurgeInv
<1> QED BY <1>3, <1>4, <1>5 DEF PurgeInv

\* A step of neither the files nor what is in force, that ends no erasure.
LEMMA LogsStayErased ==
    ASSUME PurgeInv, UNCHANGED <<logs, written>>, up' => up, scope' = scope,
           pending' # {} => "unsynced" \notin scope.outcomes,
           \A t \in Tenants : stage'[t] = stage[t] \/ stage'[t] \in {"idle", "notes"}
    PROVE  PurgeInv'
<1>1. UNCHANGED <<log, mem, notes, entries>>
  BY DEF logs
<1>2. CertainInv'
  BY <1>1 DEF PurgeInv, CertainInv, Left
<1>3. ScoresInv'
  <2>1. \A n \in Left(notes) : \A a \in ToSet(n) :
            /\ a.tenant \in Tenants
            /\ <<a.tenant, Nil>> \in written /\ stage'[a.tenant] \notin {"evals", "settle"}
    BY DEF PurgeInv, ScoresInv
  <2> QED BY <1>1, <2>1 DEF PurgeInv, ScoresInv, Left, AddressedIn, Of
<1>4. WritersInv'
  <2>1. \A x \in Left(log') : \A r \in Replay(x).records :
            \E p \in Left(log) : r \in Replay(p).records
    BY <1>1
  <2>2. \A t \in Tenants : stage'[t] = "settle" => stage[t] = "settle"
    OBVIOUS
  <2> QED BY <2>1, <2>2, WritersStay DEF PurgeInv
<1> QED BY <1>2, <1>3, <1>4 DEF PurgeInv

\* An erasure begins.
LEMMA BeginErasureErases ==
    ASSUME ErasuresAreCertain, EvalsInv, PurgeInv, NEW t \in Tenants, BeginErasure(t)
    PROVE  PurgeInv'
<1>1. /\ up' = up /\ erasures < scope.erasures /\ scope' = scope
      /\ stage' = [stage EXCEPT ![t] = "notes"]
      /\ UNCHANGED <<logs, written>>
  BY DEF BeginErasure
<1>2. /\ scope \in Scopes /\ erasures \in Nat
      /\ stage \in [Tenants -> {"idle", "notes", "evals", "settle"}]
  BY DEF EvalsInv, ControlInv
<1>3. "unsynced" \notin scope.outcomes
  BY <1>1, <1>2, EvalsAssumption DEF ErasuresAreCertain
<1>4. \A s \in Tenants : stage'[s] = stage[s] \/ stage'[s] \in {"idle", "notes"}
  BY <1>1, <1>2
<1> QED BY <1>1, <1>3, <1>4, LogsStayErased

\* The version or tombstone that stands is answered, and nothing else moves.
LEMMA RefindErases ==
    ASSUME EvalsInv, PurgeInv, NEW who, NEW r, Refind(who, r)
    PROVE  PurgeInv'
<1>1. UNCHANGED <<scope, logs, up, pending, stage, written>>
  BY DEF Refind
<1> QED BY <1>1, LogsStayErased DEF PurgeInv, CertainInv

\* A step of none of the variables.
LEMMA StutterErases ==
    ASSUME EvalsInv, PurgeInv, UNCHANGED evalsVars
    PROVE  PurgeInv'
<1>1. UNCHANGED <<scope, logs, up, pending, stage, written>>
  BY DEF evalsVars, history
<1> QED BY <1>1, LogsStayErased DEF PurgeInv, CertainInv

\* The annotations of the tenant are gone before its purge goes on to the log.
LEMMA DropAnnotationsErases ==
    ASSUME EvalsInv, PurgeInv, NEW t \in Tenants, NEW o, DropAnnotations(t, o)
    PROVE  PurgeInv'
<1> DEFINE kept == {a \in entries : a.tenant # t}
<1>1. /\ up /\ up' = (o # "died") /\ Outcome(o) /\ RewriteKeeping(kept, o)
      /\ stage[t] = "notes"
      /\ stage' = IF o = "ok" THEN [stage EXCEPT ![t] = "evals"] ELSE stage
      /\ UNCHANGED <<scope, log, mem, pending, written>>
  BY DEF DropAnnotations, Outcome, history
<1>2. kept \in SUBSET entries /\ \A a \in kept : a.tenant # t
  OBVIOUS
<1> HIDE DEF kept
<1>3. /\ CertainInv'
      /\ \A n \in Left(notes') : \A a \in ToSet(n) : \E p \in Left(notes) : a \in ToSet(p)
      /\ o = "ok" => entries' = kept
  BY <1>1, <1>2, KeepingErases
<1>4. t \in pending /\ stage \in [Tenants -> {"idle", "notes", "evals", "settle"}]
  BY <1>1 DEF EvalsInv, ControlInv
<1>5. ASSUME o = "ok" PROVE \A n \in Left(notes') : ToSet(n) \subseteq kept
  <2>1. "unsynced" \notin scope'.outcomes /\ up'
    BY <1>1, <1>4, <1>5 DEF PurgeInv, CertainInv
  <2> QED BY <2>1, <1>3, <1>5 DEF CertainInv, Left
<1>6. ScoresInv'
  <2>1. ASSUME NEW n \in Left(notes'), NEW a \in ToSet(n)
        PROVE  /\ AddressedIn(a, mem) /\ \A x \in Left(log) : AddressedIn(a, Replay(x))
               /\ a.tenant \in Tenants /\ <<a.tenant, Nil>> \in written
               /\ stage'[a.tenant] \notin {"evals", "settle"}
    <3>1. /\ AddressedIn(a, mem) /\ \A x \in Left(log) : AddressedIn(a, Replay(x))
          /\ a.tenant \in Tenants /\ <<a.tenant, Nil>> \in written
          /\ stage[a.tenant] \notin {"evals", "settle"}
      BY <1>1, <1>3 DEF PurgeInv, ScoresInv
    <3>2. o = "ok" => a.tenant # t
      BY <1>2, <1>5
    <3> QED BY <3>1, <3>2, <1>1, <1>4
  <2> QED BY <2>1, <1>1 DEF ScoresInv, Left, AddressedIn, Of
<1>7. WritersInv'
  <2>1. \A x \in Left(log') : \A r \in Replay(x).records :
            \E p \in Left(log) : r \in Replay(p).records
    BY <1>1
  <2>2. \A s \in Tenants : stage'[s] = "settle" => stage[s] = "settle"
    BY <1>1, <1>4
  <2> QED BY <2>1, <2>2, <1>1, WritersStay DEF PurgeInv
<1> QED BY <1>3, <1>6, <1>7 DEF PurgeInv

\* What survives the purge of a tenant: records of others, and bodies another lists.
LEMMA SurvivorsAreOthers ==
    ASSUME EvalsInv, PurgeInv, up, NEW t \in Tenants, NEW r \in Survivors(t)
    PROVE  /\ r \in mem.records
           /\ r.kind = "example" =>
                 \E s \in Tenants \ {t} : stage[s] # "settle" /\ <<s, r.body>> \in written
           /\ r.kind # "example" => /\ r.tenant \in Tenants /\ r.tenant # t
                                    /\ <<r.tenant, Nil>> \in written /\ stage[r.tenant] # "settle"
           /\ r.kind = "version" => \A b \in r.version.bodies : <<r.tenant, b>> \in written
<1>1. /\ r \in mem.records
      /\ IF r.kind = "example" THEN r.body \in Surviving(t) ELSE r.tenant # t
  BY DEF Survivors
<1>2. \A q \in mem.records :
          /\ q.kind # "example" => /\ q.tenant \in Tenants
                                   /\ <<q.tenant, Nil>> \in written /\ stage[q.tenant] # "settle"
          /\ q.kind = "version" => \A b \in q.version.bodies : <<q.tenant, b>> \in written
  <2>1. log.lines \in Left(log)
    BY InForce DEF EvalsInv
  <2>2. mem.records \subseteq Replay(log.lines).records
    BY <2>1, FoundHas DEF EvalsInv
  <2> QED BY <2>1, <2>2 DEF PurgeInv, WritersInv
<1>3. ASSUME r.kind = "example"
      PROVE  \E s \in Tenants \ {t} : stage[s] # "settle" /\ <<s, r.body>> \in written
  <2>1. PICK v \in Of(mem, "version") : v.tenant # t /\ r.body \in v.version.bodies
    BY <1>1, <1>3 DEF Surviving
  <2>2. v \in mem.records /\ v.kind = "version"
    BY <2>1 DEF Of
  <2> QED BY <2>1, <2>2, <1>2
<1> QED BY <1>1, <1>2, <1>3

\* The purge of the log.
LEMMA PurgeTenantErases ==
    ASSUME EvalsInv, PurgeInv, NEW t \in Tenants, NEW o, PurgeTenant(t, o)
    PROVE  PurgeInv'
<1> DEFINE x == PurgedLines(t)
<1>1. /\ up /\ up' = (o # "died") /\ t \in pending
      /\ \/ /\ log' = log /\ mem' = mem
            /\ o = "ok" => Survivors(t) = mem.records
         \/ /\ Left(log') = {x}
            /\ (o = "ok" /\ mem' = Replay(x)) \/ (o = "died" /\ mem' = mem)
  BY PurgeLeaves
<1>2. Replay(x).records = Survivors(t)
  BY <1>1, SurvivorsHold DEF EvalsInv
<1> HIDE DEF x
<1>3. /\ stage[t] = "evals"
      /\ stage' = IF o = "ok" THEN [stage EXCEPT ![t] = "settle"] ELSE stage
      /\ UNCHANGED <<scope, notes, entries, pending, written>>
  BY DEF PurgeTenant, history
<1>4. stage \in [Tenants -> {"idle", "notes", "evals", "settle"}]
  BY DEF EvalsInv, ControlInv
<1>5. /\ "unsynced" \notin scope.outcomes
      /\ \A y \in Left(log) : Replay(y).records \subseteq mem.records
      /\ \A n \in Left(notes) : ToSet(n) \subseteq entries
  BY <1>1 DEF PurgeInv, CertainInv
<1>6. \A r \in Survivors(t) :
          /\ r.kind = "example" =>
                \E s \in Tenants \ {t} : stage[s] # "settle" /\ <<s, r.body>> \in written
          /\ r.kind # "example" => /\ r.tenant \in Tenants /\ r.tenant # t
                                   /\ <<r.tenant, Nil>> \in written /\ stage[r.tenant] # "settle"
          /\ r.kind = "version" => \A b \in r.version.bodies : <<r.tenant, b>> \in written
  BY <1>1, SurvivorsAreOthers
<1>7. \A s \in Tenants \ {t} : stage'[s] = stage[s]
  BY <1>3, <1>4
<1>8. ASSUME NEW y \in Left(log'), NEW r \in Replay(y).records
      PROVE  r \in Survivors(t) \/ (o # "ok" /\ log' = log)
  BY <1>1, <1>2, <1>5, <1>8
<1>9. CertainInv'
  <2>1. ASSUME up', NEW y \in Left(log') PROVE Replay(y).records \subseteq mem'.records
    BY <2>1, <1>1, <1>5
  <2> QED BY <2>1, <1>3, <1>5 DEF CertainInv, Left
<1>10. ScoresInv'
  <2>1. ASSUME NEW n \in Left(notes), NEW a \in ToSet(n)
        PROVE  /\ \A m : Survivors(t) \subseteq m.records => AddressedIn(a, m)
               /\ AddressedIn(a, mem) /\ \A y \in Left(log) : AddressedIn(a, Replay(y))
               /\ a.tenant \in Tenants /\ <<a.tenant, Nil>> \in written
               /\ stage'[a.tenant] \notin {"evals", "settle"}
    <3>1. /\ AddressedIn(a, mem) /\ \A y \in Left(log) : AddressedIn(a, Replay(y))
          /\ a.tenant \in Tenants /\ <<a.tenant, Nil>> \in written
          /\ stage[a.tenant] \notin {"evals", "settle"}
      BY <2>1, <1>1 DEF PurgeInv, ScoresInv
    <3>2. a.tenant # t
      BY <3>1, <1>3
    <3>3. stage'[a.tenant] \notin {"evals", "settle"}
      BY <3>1, <3>2, <1>7
    <3>4. ASSUME NEW m, Survivors(t) \subseteq m.records PROVE AddressedIn(a, m)
      <4>1. CASE a.kind = "score"
        <5>1. PICK e \in Of(mem, "experiment") : /\ e.experiment = a.experiment
                                                /\ e.tenant = a.tenant
                                                /\ a.body \in e.on.bodies
          BY <3>1, <4>1 DEF AddressedIn
        <5>2. e \in Survivors(t)
          BY <5>1, <3>2 DEF Survivors, Of
        <5> QED BY <5>1, <5>2, <3>4 DEF AddressedIn, Of
      <4> QED BY <4>1 DEF AddressedIn
    <3> QED BY <3>1, <3>3, <3>4
  <2>2. ASSUME NEW n \in Left(notes), NEW a \in ToSet(n)
        PROVE  /\ up' => AddressedIn(a, mem')
               /\ \A y \in Left(log') : AddressedIn(a, Replay(y))
    <3>1. CASE log' = log /\ mem' = mem
      BY <3>1, <2>1
    <3>2. CASE /\ Left(log') = {x}
               /\ (o = "ok" /\ mem' = Replay(x)) \/ (o = "died" /\ mem' = mem)
      <4>1. AddressedIn(a, Replay(x))
        BY <2>1, <1>2
      <4> QED BY <4>1, <3>2, <1>1
    <3> QED BY <3>1, <3>2, <1>1
  <2>3. \A n \in Left(notes) : \A a \in ToSet(n) :
            /\ a.tenant \in Tenants /\ <<a.tenant, Nil>> \in written
            /\ stage'[a.tenant] \notin {"evals", "settle"}
    BY <2>1
  <2> QED BY <2>2, <2>3, <1>3 DEF ScoresInv, Left, AddressedIn, Of
<1>11. WritersInv'
  <2>1. ASSUME NEW y \in Left(log'), NEW r \in Replay(y).records
        PROVE  /\ r.kind = "example" =>
                      \E s \in Tenants : stage'[s] # "settle" /\ <<s, r.body>> \in written'
               /\ r.kind # "example" => /\ r.tenant \in Tenants
                                        /\ <<r.tenant, Nil>> \in written'
                                        /\ stage'[r.tenant] # "settle"
               /\ r.kind = "version" => \A b \in r.version.bodies : <<r.tenant, b>> \in written'
    <3>1. CASE r \in Survivors(t)
      BY <3>1, <1>3, <1>6, <1>7
    <3>2. CASE o # "ok" /\ log' = log
      BY <3>2, <2>1, <1>3 DEF PurgeInv, WritersInv
    <3> QED BY <3>1, <3>2, <2>1, <1>8
  <2> QED BY <2>1 DEF WritersInv, Left
<1> QED BY <1>9, <1>10, <1>11 DEF PurgeInv

\* An erasure settles: nothing in the files was only written by its tenant.
LEMMA SettleErases ==
    ASSUME EvalsInv, PurgeInv, NEW t \in Tenants, Settle(t)
    PROVE  PurgeInv'
<1>1. /\ stage[t] = "settle" /\ up' = up /\ pending' = pending \ {t}
      /\ stage' = [stage EXCEPT ![t] = "idle"]
      /\ written' = {w \in written : w[1] # t}
      /\ UNCHANGED <<scope, log, mem, notes, entries>>
  BY DEF Settle, logs
<1>2. stage \in [Tenants -> {"idle", "notes", "evals", "settle"}]
  BY DEF EvalsInv, ControlInv
<1>3. \A s, b : s # t /\ <<s, b>> \in written => <<s, b>> \in written'
  BY <1>1
<1>4. \A s \in Tenants : stage[s] # "settle" => s # t /\ stage'[s] = stage[s]
  BY <1>1, <1>2
<1>5. CertainInv'
  <2>1. pending' # {} => pending # {}
    BY <1>1
  <2> QED BY <2>1, <1>1 DEF PurgeInv, CertainInv, Left
<1>6. ScoresInv'
  <2>1. ASSUME NEW n \in Left(notes), NEW a \in ToSet(n)
        PROVE  /\ a.tenant \in Tenants
               /\ <<a.tenant, Nil>> \in written' /\ stage'[a.tenant] \notin {"evals", "settle"}
    BY <1>3, <1>4 DEF PurgeInv, ScoresInv
  <2> QED BY <2>1, <1>1 DEF PurgeInv, ScoresInv, Left, AddressedIn, Of
<1>7. WritersInv'
  <2>1. ASSUME NEW x \in Left(log), NEW r \in Replay(x).records
        PROVE  /\ r.kind = "example" =>
                      \E s \in Tenants : stage'[s] # "settle" /\ <<s, r.body>> \in written'
               /\ r.kind # "example" => /\ r.tenant \in Tenants
                                        /\ <<r.tenant, Nil>> \in written'
                                        /\ stage'[r.tenant] # "settle"
               /\ r.kind = "version" => \A b \in r.version.bodies : <<r.tenant, b>> \in written'
    <3>1. /\ r.kind = "example" =>
                      \E s \in Tenants : stage[s] # "settle" /\ <<s, r.body>> \in written
          /\ r.kind # "example" => /\ r.tenant \in Tenants
                                   /\ <<r.tenant, Nil>> \in written /\ stage[r.tenant] # "settle"
          /\ r.kind = "version" => \A b \in r.version.bodies : <<r.tenant, b>> \in written
      BY <2>1 DEF PurgeInv, WritersInv
    <3>2. r.kind = "example" =>
              \E s \in Tenants : stage'[s] # "settle" /\ <<s, r.body>> \in written'
      BY <3>1, <1>3, <1>4
    <3>3. r.kind # "example" => /\ r.tenant \in Tenants /\ r.tenant # t
                                /\ <<r.tenant, Nil>> \in written' /\ stage'[r.tenant] # "settle"
      BY <3>1, <1>3, <1>4
    <3>4. r.kind = "version" => \A b \in r.version.bodies : <<r.tenant, b>> \in written'
      BY <3>1, <3>3, <1>3
    <3> QED BY <3>2, <3>3, <3>4
  <2>2. Left(log') = Left(log)
    BY <1>1
  <2> QED BY <2>1, <2>2 DEF WritersInv, Left
<1> QED BY <1>5, <1>6, <1>7 DEF PurgeInv

\* A loss of power.
LEMMA LosePowerErases ==
    ASSUME EvalsInv, PurgeInv, LosePower
    PROVE  PurgeInv'
<1>1. up' = FALSE /\ Left(log') \subseteq Left(log) /\ Left(notes') \subseteq Left(notes)
  BY LosePowerLeaves
<1>2. UNCHANGED <<scope, pending, stage, written>>
  BY DEF LosePower, history
<1>3. CertainInv'
  BY <1>1, <1>2 DEF PurgeInv, CertainInv
<1>4. ScoresInv'
  <2>1. \A x \in Left(log'), n \in Left(notes') : \A a \in ToSet(n) : AddressedIn(a, Replay(x))
    BY <1>1 DEF PurgeInv, ScoresInv
  <2>2. \A n \in Left(notes') : \A a \in ToSet(n) :
            /\ a.tenant \in Tenants
            /\ <<a.tenant, Nil>> \in written' /\ stage'[a.tenant] \notin {"evals", "settle"}
    BY <1>1, <1>2 DEF PurgeInv, ScoresInv
  <2> QED BY <2>1, <2>2, <1>1 DEF ScoresInv, Left, AddressedIn, Of
<1>5. WritersInv'
  BY <1>1, <1>2, WritersStay DEF PurgeInv
<1> QED BY <1>3, <1>4, <1>5 DEF PurgeInv

\* An open: every purge under way begins again.
LEMMA OpenErases ==
    ASSUME EvalsInv, PurgeInv, Open
    PROVE  PurgeInv'
<1> DEFINE l == log'.lines
           n == notes'.lines
<1>1. /\ l \in Left(log) /\ Left(log') = {l} /\ mem' = Replay(l)
      /\ n \in Left(notes) /\ Left(notes') = {n}
      /\ entries' = ToSet(n)
  BY OpenLeaves
<1>2. /\ stage' = [t \in Tenants |-> IF t \in pending THEN "notes" ELSE "idle"]
      /\ UNCHANGED <<scope, pending, written>>
  BY DEF Open, history
<1> HIDE DEF l, n
<1>3. CertainInv'
  <2>1. /\ \A x \in Left(log') : Replay(x).records \subseteq mem'.records
        /\ \A k \in Left(notes') : ToSet(k) \subseteq entries'
    BY <1>1
  <2> QED BY <2>1, <1>2 DEF PurgeInv, CertainInv, Left
<1>4. ScoresInv'
  <2>1. \A a \in ToSet(n) : AddressedIn(a, Replay(l)) /\ a.tenant \in Tenants
                            /\ <<a.tenant, Nil>> \in written
    BY <1>1 DEF PurgeInv, ScoresInv
  <2>2. \A a \in ToSet(n) : stage'[a.tenant] \notin {"evals", "settle"}
    BY <2>1, <1>2
  <2>3. /\ \A k \in Left(notes') : \A a \in ToSet(k) : AddressedIn(a, mem')
        /\ \A x \in Left(log'), k \in Left(notes') : \A a \in ToSet(k) : AddressedIn(a, Replay(x))
        /\ \A k \in Left(notes') : \A a \in ToSet(k) :
              /\ a.tenant \in Tenants
              /\ <<a.tenant, Nil>> \in written' /\ stage'[a.tenant] \notin {"evals", "settle"}
    BY <2>1, <2>2, <1>1, <1>2
  <2> QED BY <2>3 DEF ScoresInv, Left, AddressedIn, Of
<1>5. WritersInv'
  <2>1. \A x \in Left(log') : \A r \in Replay(x).records :
            \E p \in Left(log) : r \in Replay(p).records
    BY <1>1
  <2>2. \A t \in Tenants : stage'[t] = "settle" => stage[t] = "settle"
    BY <1>2
  <2> QED BY <2>1, <2>2, <1>2, WritersStay DEF PurgeInv
<1> QED BY <1>3, <1>4, <1>5 DEF PurgeInv

\* It holds to begin with.
LEMMA PurgeInvBegins ==
    ASSUME EvalsInit
    PROVE  PurgeInv
<1>1. /\ scope \in Scopes /\ up = TRUE
      /\ Left(log) = {log.lines} /\ mem = Replay(log.lines)
      /\ Left(notes) = {<< >>} /\ ToSet(<< >>) = {}
      /\ Sound(log.lines)
      /\ \A r \in mem.records : LogLine(r) /\ r.kind # "counters"
  BY EvalsBegin
<1>2. /\ pending = {} /\ stage = [t \in Tenants |-> "idle"]
      /\ acked = {r \in mem.records : r.kind # "example"}
      /\ written = {<<r.tenant, Nil>> : r \in acked}
                   \cup UNION {{v.tenant} \X v.version.bodies : v \in Of(mem, "version")}
  BY DEF EvalsInit
<1>3. CertainInv /\ ScoresInv
  BY <1>1, <1>2 DEF CertainInv, ScoresInv
<1>4. ASSUME NEW r \in mem.records
      PROVE  /\ r.kind # "example" => r.tenant \in Tenants /\ <<r.tenant, Nil>> \in written
             /\ r.kind = "version" => \A b \in r.version.bodies : <<r.tenant, b>> \in written
  BY <1>1, <1>2 DEF LogLine, Of
<1>5. ASSUME NEW r \in mem.records, r.kind = "example"
      PROVE  \E t \in Tenants : <<t, r.body>> \in written
  <2>1. PICK v \in Of(mem, "version") : r.body \in v.version.bodies
    BY <1>1, <1>5 DEF Sound, Of
  <2>2. v \in mem.records /\ v.kind = "version"
    BY <2>1 DEF Of
  <2> QED BY <2>1, <2>2, <1>4
<1>6. WritersInv
  BY <1>1, <1>2, <1>4, <1>5 DEF WritersInv
<1> QED BY <1>3, <1>6 DEF PurgeInv

\* Every step keeps it.
LEMMA PurgeStepKeeps ==
    ASSUME ErasuresAreCertain, EvalsInv, PurgeInv, [EvalsNext]_evalsVars
    PROVE  PurgeInv'
<1>1. ASSUME NEW o, NEW t \in Tenants, CreateDataset(t, o) PROVE PurgeInv'
  BY <1>1, CreateDatasetErases
<1>2. ASSUME NEW o, NEW who, NEW d \in Of(mem, "dataset"), NEW parent,
             NEW bodies \in SUBSET Bodies, CreateVersion(who, d, parent, bodies, o)
      PROVE  PurgeInv'
  BY <1>2, CreateVersionErases
<1>3. ASSUME NEW o, NEW who, NEW v \in Of(mem, "version"),
             CreateExperiment(who, v, o) \/ TombstoneVersion(who, v, o)
      PROVE  PurgeInv'
  BY <1>3, CreateExperimentErases, TombstoneVersionErases
<1>4. ASSUME NEW o, NEW who, NEW e \in Of(mem, "experiment"), NEW b \in Bodies,
             RecordRun(who, e, b, o)
      PROVE  PurgeInv'
  BY <1>4, RecordRunErases
<1>5. ASSUME NEW o, NEW a, IsNote(a), Annotate(a, o) PROVE PurgeInv'
  BY <1>5, AnnotateErases
<1>6. ASSUME NEW o, DropOlderThan(o) PROVE PurgeInv'
  BY <1>6, DropOlderThanErases
<1>7. ASSUME NEW o, NEW t \in Tenants, DropAnnotations(t, o) \/ PurgeTenant(t, o) PROVE PurgeInv'
  BY <1>7, DropAnnotationsErases, PurgeTenantErases
<1>8. ASSUME NEW who, NEW r \in Of(mem, "version") \cup Of(mem, "tombstone"), Refind(who, r)
      PROVE  PurgeInv'
  BY <1>8, RefindErases
<1>9. ASSUME NEW t \in Tenants, BeginErasure(t) \/ Settle(t) PROVE PurgeInv'
  BY <1>9, BeginErasureErases, SettleErases
<1>10. ASSUME LosePower \/ Open PROVE PurgeInv'
  BY <1>10, LosePowerErases, OpenErases
<1>11. ASSUME UNCHANGED evalsVars PROVE PurgeInv'
  BY <1>11, StutterErases
<1>12. /\ \A e, b, t : t \in Tenants => IsNote(Score(e, b, t))
       /\ \A t \in Tenants : \A aged : IsNote(Note(t, aged))
  BY DEF IsNote, NoteKinds, Score, Note
<1> QED BY <1>1, <1>2, <1>3, <1>4, <1>5, <1>6, <1>7, <1>8, <1>9, <1>10, <1>11, <1>12 DEF EvalsNext

\* It holds throughout.
LEMMA PurgeInvHolds == ASSUME ErasuresAreCertain PROVE EvalsSpec => [](EvalsInv /\ PurgeInv)
<1>1. EvalsInit => EvalsInv /\ PurgeInv
  BY EvalsInvBegins, PurgeInvBegins
<1>2. (EvalsInv /\ PurgeInv) /\ [EvalsNext]_evalsVars => (EvalsInv /\ PurgeInv)'
  BY EvalsStepKeeps, PurgeStepKeeps
<1> QED BY <1>1, <1>2, PTL DEF EvalsSpec

\* In memory and in any file a loss of power leaves, a version has its dataset, its parent
\* and all its bodies, experiments and tombstones their version, runs and scores their
\* experiment and example, if no erasure runs beside mutations that fail after their bytes
\* reached the file (evals.rs:606-612, 709-714, 1287, lib.rs:3813).
THEOREM NothingIsLeftDangling == ASSUME ErasuresAreCertain PROVE EvalsSpec => []NothingDangles
<1>1. ASSUME EvalsInv, PurgeInv PROVE NothingDangles
  <2>1. up => Whole(mem)
    BY <1>1, InForce DEF EvalsInv, FoundInv, Whole
  <2>2. \A l \in Images(log) : Opens(l) => Whole(Replay(Healed(l)))
    BY <1>1 DEF EvalsInv, FoundInv, Left
  <2>3. ASSUME up, NEW a \in entries PROVE Addressed(a)
    <3>1. FileTyped(notes)
      BY <1>1 DEF EvalsInv, FilesInv
    <3>2. Healed(notes.lines) \in Left(notes)
      BY <3>1, LeftIs
    <3>3. a \in ToSet(Healed(notes.lines))
      BY <3>2, <2>3, <1>1 DEF EvalsInv, NotesInv
    <3>4. AddressedIn(a, mem)
      BY <3>2, <3>3, <2>3, <1>1 DEF PurgeInv, ScoresInv
    <3> QED BY <3>4, <2>3, <1>1, AddressedIs DEF EvalsInv
  <2> QED BY <2>1, <2>2, <2>3 DEF NothingDangles
<1> QED BY <1>1, PurgeInvHolds, PTL

\* Once the erasure of a tenant has settled there is no record of it, nor a body that only
\* it posted, that was not written since, under the same condition (evals.rs:1287-1420,
\* annotations.rs:440).
THEOREM TheErasedStayErased == ASSUME ErasuresAreCertain PROVE EvalsSpec => []ErasedStaysErased
<1>1. ASSUME EvalsInv, PurgeInv PROVE ErasedStaysErased
  <2>1. SUFFICES ASSUME NEW l \in Images(log), NEW n \in Images(notes), Opens(l), Opens(n),
                        NEW r \in Replay(Healed(l)).records \cup ToSet(Healed(n))
                 PROVE  IF r.kind = "example"
                        THEN \E t \in Tenants : <<t, r.body>> \in written
                        ELSE <<r.tenant, Nil>> \in written
    BY DEF ErasedStaysErased
  <2>2. Healed(l) \in Left(log) /\ Healed(n) \in Left(notes)
    BY DEF Left
  <2>3. CASE r \in Replay(Healed(l)).records
    BY <2>2, <2>3, <1>1 DEF PurgeInv, WritersInv
  <2>4. CASE r \in ToSet(Healed(n))
    <3>1. FileTyped(notes) /\ \A a \in ToSet(notes.lines) : a # Torn => IsNote(a)
      BY <1>1 DEF EvalsInv, FilesInv
    <3>2. r \in ToSet(notes.lines) /\ r # Torn
      BY <2>2, <2>4, <3>1, LeftIs
    <3>3. r.kind # "example"
      BY <3>1, <3>2 DEF IsNote, NoteKinds
    <3>4. <<r.tenant, Nil>> \in written
      BY <2>2, <2>4, <1>1 DEF PurgeInv, ScoresInv
    <3> QED BY <3>3, <3>4
  <2> QED BY <2>1, <2>3, <2>4
<1> QED BY <1>1, PurgeInvHolds, PTL

=============================================================================
