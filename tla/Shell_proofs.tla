---------------------------- MODULE Shell_proofs ----------------------------
(***************************************************************************)
(* Proofs about Shell for any set of plugins and any number of faults.     *)
(*                                                                         *)
(* The invariant has a part for the theme and one for the page. The theme: *)
(* what the provider shows is what it stored, so the script of the next    *)
(* load finds it. The page: once a navigation has changed the location,    *)
(* the boundary holds no error but that of the page on screen, so the page *)
(* committed next finds at most that one.                                  *)
(***************************************************************************)
EXTENDS Shell, TLAPS

Phase == {"painted", "mounted"}
Outcome == {"none", "loading", "loaded", "rejected"}

Paint ==
    /\ phase \in Phase
    /\ system \in Theme /\ stored \in Theme \cup {""} /\ blocked \in BOOLEAN
    /\ class \in Theme /\ theme \in Theme /\ chosen \in Theme \cup {""}
    /\ phase = "painted" => class = Script
    /\ ~ blocked =>
          /\ phase = "mounted" => class = theme /\ stored = theme
          /\ chosen # "" => stored = chosen

Page ==
    /\ phase \in Phase
    /\ location \in Routes /\ match \in Routes /\ came \in Routes
    /\ chunk \in [Plugins -> Outcome]
    /\ boundary \in Routes \cup {""}
    /\ phase = "painted" => boundary = ""
    /\ FallbackOrigin
    /\ match # location => boundary \in {"", match}
    /\ BlankMeansLoading

Count ==
    /\ throws \subseteq Routes
    /\ stale \in BOOLEAN
    /\ faults \in 0..MaxFaults

IInv == Paint /\ Page /\ Count

\* A first document, before its script has run, satisfies the invariant.
THEOREM Initially == Init => IInv
<1> SUFFICES ASSUME Init PROVE IInv
  OBVIOUS
<1>1. Paint
  BY DEF Init, Paint, Phase, Script, Theme
<1>2. Page
  BY DEF Init, Page, Phase, Outcome, Routes, FallbackOrigin, BlankMeansLoading
<1>3. Count
  <2>1. faults = 0
    BY DEF Init
  <2>2. faults \in 0..MaxFaults
    BY <2>1, FaultAssumption
  <2> QED
    BY <2>2 DEF Init, Count
<1> QED
  BY <1>1, <1>2, <1>3 DEF IInv

-----------------------------------------------------------------------------
(* The theme *)

\* A reload's script reads what the provider wrote.
LEMMA PaintKept == Paint /\ [Next]_vars => Paint'
<1> SUFFICES ASSUME Paint, [Next]_vars PROVE Paint'
  OBVIOUS
<1>1. CASE Mount
  BY <1>1 DEF Paint, Phase, Mount, Reflect, Provided, Theme, Script
<1>2. CASE Toggle
  BY <1>2 DEF Paint, Phase, Toggle, Reflect, Opposite, Theme
<1>3. CASE SystemChanges
  BY <1>3 DEF Paint, Phase, SystemChanges, Opposite, Theme
<1>4. CASE Reload
  BY <1>4 DEF Paint, Phase, Reload, Script, Theme
<1>5. CASE UNCHANGED <<phase, painting>>
  BY <1>5 DEF Paint, painting, Script
<1> QED
  BY <1>1, <1>2, <1>3, <1>4, <1>5
     DEF Next, vars, Navigate, Jump, Commit, Loaded, Rejected, Arrive, Break, Heal,
         TryAgain, Deploy

-----------------------------------------------------------------------------
(* The page *)

\* What a render of page p does to the boundary and the chunks.
LEMMA Rendered ==
    ASSUME chunk \in [Plugins -> Outcome], NEW p, Render(p)
    PROVE  /\ boundary' \in {"", p}
           /\ chunk' \in [Plugins -> Outcome]
           /\ boundary' = "" /\ p \in Plugins => chunk'[p] \in {"loading", "loaded"}
<1>1. boundary' \in {"", p} /\ (p # "" => (boundary' = "" => ~ Fails(p)))
  BY DEF Render
<1>2. chunk' \in [Plugins -> Outcome]
  BY DEF Render, Outcome
<1>3. p \in Plugins /\ ~ Fails(p) => chunk'[p] \in {"loading", "loaded"}
  BY DEF Render, Fails, Outcome
<1>4. p \in Plugins => p # ""
  BY PluginsAssumption
<1> QED
  BY <1>1, <1>2, <1>3, <1>4

\* The page is rendered anew: the one that was there, or the next.
LEMMA RenderStep ==
    ASSUME Page, NEW p \in Routes, Render(p), phase' = "mounted", match' = p,
           location' \in Routes, came' \in Routes
    PROVE  Page'
<1>1. /\ boundary' \in {"", p}
      /\ chunk' \in [Plugins -> Outcome]
      /\ boundary' = "" /\ p \in Plugins => chunk'[p] \in {"loading", "loaded"}
  BY Rendered DEF Page
<1> QED
  BY <1>1 DEF Page, Phase, FallbackOrigin, BlankMeansLoading

\* The page that is left is the only one whose error may stand before the new one.
LEMMA NavigateStep ==
    ASSUME Page, NEW r \in Routes, Navigate(r) \/ Jump(r) \/ Commit
    PROVE  Page'
<1>1. CASE Navigate(r) /\ boundary # ""
  BY <1>1, RenderStep DEF Navigate, Reset, Page
<1>2. CASE Navigate(r) /\ boundary = ""
  BY <1>2 DEF Navigate, Page, FallbackOrigin, BlankMeansLoading
<1>3. CASE Jump(r)
  BY <1>3, RenderStep DEF Jump, Reset, Page
<1>4. CASE Commit /\ boundary = ""
  BY <1>4, RenderStep DEF Commit, Page
<1>5. CASE Commit /\ boundary # ""
  BY <1>5 DEF Commit, Page, FallbackOrigin, BlankMeansLoading
<1> QED
  BY <1>1, <1>2, <1>3, <1>4, <1>5

\* A chunk that fails while its page waits for it becomes that page's error.
LEMMA ArriveStep ==
    ASSUME Page, NEW p \in Plugins, NEW o \in {"loaded", "rejected"}, Arrive(p, o)
    PROVE  Page'
<1>1. /\ boundary' = boundary \/ (boundary = "" /\ boundary' = match)
      /\ boundary' = "" => boundary = "" /\ (match = p => o = "loaded")
  BY PluginsAssumption DEF Arrive
<1>2. /\ chunk' \in [Plugins -> Outcome]
      /\ chunk'[p] = o
      /\ \A q \in Plugins : q # p => chunk'[q] = chunk[q]
  BY DEF Arrive, Page, Outcome
<1>3. /\ UNCHANGED <<phase, location, match, came>>
      /\ phase = "mounted"
  BY DEF Arrive
<1> QED
  BY <1>1, <1>2, <1>3 DEF Page, FallbackOrigin, BlankMeansLoading

LEMMA BreakStep ==
    ASSUME Page, NEW p \in Routes, Break(p)
    PROVE  Page'
<1>1. /\ boundary' = boundary \/ (boundary = "" /\ boundary' = match)
      /\ boundary' = "" => boundary = ""
      /\ UNCHANGED <<phase, location, match, came, chunk>>
      /\ phase = "mounted"
  BY PluginsAssumption DEF Break, Routes
<1> QED
  BY <1>1 DEF Page, FallbackOrigin, BlankMeansLoading

LEMMA PageKept == Page /\ [Next]_vars => Page'
<1> SUFFICES ASSUME Page, [Next]_vars PROVE Page'
  OBVIOUS
<1>1. CASE Mount
  BY <1>1, RenderStep DEF Mount, Page
<1>2. CASE TryAgain
  <2>1. phase = "mounted"
    BY <1>2 DEF TryAgain, Page, Phase
  <2> QED
    BY <1>2, <2>1, RenderStep DEF TryAgain, Page
<1>3. CASE Reload
  BY <1>3 DEF Reload, Page, Phase, Outcome, FallbackOrigin, BlankMeansLoading
<1>4. ASSUME NEW r \in Routes, Navigate(r) \/ Jump(r) \/ Break(r) PROVE Page'
  BY <1>4, NavigateStep, BreakStep
<1>5. CASE Commit
  BY <1>5, NavigateStep DEF Page
<1>6. ASSUME NEW p \in Plugins, Loaded(p) \/ Rejected(p) PROVE Page'
  BY <1>6, ArriveStep DEF Loaded, Rejected
<1>7. CASE UNCHANGED <<phase, routing>>
  BY <1>7 DEF routing, Page, FallbackOrigin, BlankMeansLoading
<1> QED
  BY <1>1, <1>2, <1>3, <1>4, <1>5, <1>6, <1>7
     DEF Next, vars, Toggle, SystemChanges, Heal, Deploy

-----------------------------------------------------------------------------

LEMMA CountKept == Count /\ [Next]_vars => Count'
<1> SUFFICES ASSUME Count, [Next]_vars PROVE Count'
  OBVIOUS
<1>1. throws' \subseteq Routes
  BY DEF Count, Next, vars, Mount, Toggle, SystemChanges, Navigate, Jump, Commit, Loaded,
         Rejected, Arrive, Break, Heal, TryAgain, Reload, Deploy
<1>2. stale' \in BOOLEAN
  BY DEF Count, Next, vars, Mount, Toggle, SystemChanges, Navigate, Jump, Commit, Loaded,
         Rejected, Arrive, Break, Heal, TryAgain, Reload, Deploy
<1>3. faults' = faults \/ (faults < MaxFaults /\ faults' = faults + 1)
  BY DEF Next, vars, Mount, Toggle, SystemChanges, Navigate, Jump, Commit, Loaded,
         Rejected, Arrive, Break, Heal, TryAgain, Reload, Deploy
<1>4. faults \in 0..MaxFaults
  BY DEF Count
<1>5. faults' \in 0..MaxFaults
  BY <1>3, <1>4, FaultAssumption
<1> QED
  BY <1>1, <1>2, <1>5 DEF Count

\* Whatever renders fail, chunks are missing and tabs do: the paint follows the
\* provider's choice, and the page is the route's, its loading state or a fallback.
THEOREM Invariance == Spec => []IInv
<1>1. IInv /\ [Next]_vars => IInv'
  BY PaintKept, PageKept, CountKept DEF IInv
<1> QED
  BY <1>1, Initially, PTL DEF Spec

\* The variables keep their types.
THEOREM Types == Spec => []TypeOK
<1>1. IInv => TypeOK
  BY DEF IInv, Paint, Page, Count, TypeOK, Phase, Outcome
<1> QED
  BY <1>1, Invariance, PTL

\* An error on screen belongs to the page on screen or to the one just left.
THEOREM FallbackIsRecent == Spec => []FallbackOrigin
<1>1. IInv => FallbackOrigin
  BY DEF IInv, Page
<1> QED
  BY <1>1, Invariance, PTL

\* A page whose chunk failed is never a blank one.
THEOREM NeverBlankForGood == Spec => []BlankMeansLoading
<1>1. IInv => BlankMeansLoading
  BY DEF IInv, Page
<1> QED
  BY <1>1, Invariance, PTL

\* The last choice of a theme is the one shown, whatever happened since.
THEOREM ChoiceIsKept == Spec => []ChoiceSurvives
<1>1. IInv => ChoiceSurvives
  BY DEF IInv, Paint, ChoiceSurvives
<1> QED
  BY <1>1, Invariance, PTL

\* The script and the provider agree at every load that can read the storage.
THEOREM ScriptAgrees == Spec => NoFlash
<1>1. ASSUME IInv, [Next]_vars, phase = "painted", phase' = "mounted", ~ blocked
      PROVE  class' = class
  <2>1. Mount
    BY <1>1 DEF Next, vars, Toggle, SystemChanges, Navigate, Jump, Commit, Loaded, Rejected,
                Arrive, Break, Heal, TryAgain, Reload, Deploy
  <2> QED
    BY <1>1, <2>1 DEF Mount, Reflect, IInv, Paint, Script, Provided
<1>2. IInv /\ [Next]_vars =>
         [phase = "painted" /\ phase' = "mounted" /\ ~ blocked => class' = class]_vars
  BY <1>1
<1> QED
  BY <1>2, Invariance, PTL DEF Spec, NoFlash
=============================================================================
