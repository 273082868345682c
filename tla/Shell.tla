------------------------------- MODULE Shell -------------------------------
(***************************************************************************)
(* A tab of the web interface from one load of the document to the next:   *)
(* the script in index.html that paints the theme before React runs, the   *)
(* theme provider, the router with its lazily loaded plugin pages, and the *)
(* boundary around the page that turns a render error into a fallback.     *)
(*                                                                         *)
(* A plugin's page is a chunk of its own. React.lazy keeps the outcome of  *)
(* its first load for the life of the document. Chunks are named by their  *)
(* content: after the server has been replaced by another release a chunk  *)
(* of the old document may be gone, and the server answers the request     *)
(* with index.html (frontend.rs), which is no module.                      *)
(*                                                                         *)
(* TanStack Router is external. It changes its location, which the         *)
(* boundary's resetKeys watch, before it commits the matching page that    *)
(* <Outlet> renders; whether React renders in between is left open here.   *)
(* The startup gate is behind us (Desktop); one tab uses the storage.      *)
(***************************************************************************)
EXTENDS Naturals, FiniteSets

CONSTANTS
    Plugins,    \* routes contributed by the registry
    MaxFaults   \* bound: failed loads and pages that begin to throw

ASSUME PluginsAssumption == "/" \notin Plugins /\ "" \notin Plugins
ASSUME FaultAssumption == MaxFaults \in Nat

Routes == {"/"} \cup Plugins
Theme == {"light", "dark"}

VARIABLES
    phase,    \* "painted": the script ran; "mounted": React rendered
    system,   \* prefers-color-scheme
    stored,   \* the stored theme, "" for none
    blocked,  \* localStorage throws
    class,    \* the theme on <html>
    theme,    \* the provider's state
    chosen,   \* (history) the user's last choice, "" for none
    location, \* the router's location
    match,    \* the page <Outlet> renders
    came,     \* (history) the page it rendered before
    chunk,    \* plugin -> its lazy component: none, loading, loaded, rejected
    throws,   \* pages whose render fails at present
    boundary, \* the page whose error the boundary holds, "" for none
    stale,    \* the server has another release than the document
    faults

painting == <<system, stored, blocked, class, theme, chosen>>
routing == <<location, match, came, chunk, boundary>>
vars == <<phase, painting, routing, throws, stale, faults>>

-----------------------------------------------------------------------------
(* The theme *)

\* index.html: nothing is set when storage throws, which CSS paints light.
SystemOnly == IF blocked THEN "light" ELSE system   \* mutation of Script: the key is not read
Script == IF blocked THEN "light"
          ELSE IF stored # "" THEN stored ELSE system

\* readStored() ?? systemTheme().
Provided == IF ~ blocked /\ stored # "" THEN stored ELSE system

\* The effect on every change: the class, and the storage if it lets us.
ClassOnly(t) == class' = t /\ UNCHANGED stored      \* mutation of Reflect: not persisted
Reflect(t) == class' = t /\ stored' = IF blocked THEN stored ELSE t

-----------------------------------------------------------------------------
(* The page *)

\* A lazy component whose load failed throws the error again at every render.
Swallows(p) == p \in throws /\ (p \in Plugins => chunk[p] = "loaded")  \* mutation of Fails
Fails(p) == IF p \in Plugins /\ chunk[p] # "loaded" THEN chunk[p] = "rejected" ELSE p \in throws

\* The boundary's children are rendered anew, with page p in the outlet.
Render(p) ==
    /\ boundary' = IF Fails(p) THEN p ELSE ""
    /\ chunk' = [q \in Plugins |-> IF q = p /\ chunk[q] = "none" THEN "loading" ELSE chunk[q]]

\* The boundary is reset by a change of pathname.
NoResetKeys(p) ==                                   \* mutation of Reset
    IF boundary = "" THEN Render(p) ELSE UNCHANGED <<boundary, chunk>>
Reset(p) == Render(p)

-----------------------------------------------------------------------------

Init ==
    /\ phase = "painted"
    /\ system \in Theme
    /\ stored \in Theme \cup {""}
    /\ blocked \in BOOLEAN
    /\ class = Script
    /\ theme = "light"
    /\ chosen = ""
    /\ location \in Routes
    /\ match = location
    /\ came = location
    /\ chunk = [p \in Plugins |-> "none"]
    /\ throws = {}
    /\ boundary = ""
    /\ stale = FALSE
    /\ faults = 0

\* main.tsx: the provider resolves the theme, the router renders the route.
Mount ==
    /\ phase = "painted"
    /\ phase' = "mounted"
    /\ theme' = Provided
    /\ Reflect(Provided)
    /\ Render(match)
    /\ UNCHANGED <<system, blocked, chosen, location, match, came, throws, stale, faults>>

Opposite(t) == IF t = "dark" THEN "light" ELSE "dark"

\* ThemeToggle, in the navigation, which no page's error takes down.
Toggle ==
    /\ phase = "mounted"
    /\ theme' = Opposite(theme)
    /\ chosen' = Opposite(theme)
    /\ Reflect(Opposite(theme))
    /\ UNCHANGED <<phase, system, blocked, routing, throws, stale, faults>>

SystemChanges ==
    /\ phase = "mounted"
    /\ system' = Opposite(system)
    /\ UNCHANGED <<phase, stored, blocked, class, theme, chosen, routing, throws, stale, faults>>

\* A link is followed and the location's change is rendered with the old page.
Navigate(r) ==
    /\ phase = "mounted"
    /\ r # location
    /\ location' = r
    /\ IF boundary = "" THEN UNCHANGED <<boundary, chunk>> ELSE Reset(match)
    /\ UNCHANGED <<phase, painting, match, came, throws, stale, faults>>

\* The new page takes the old one's place, behind a fallback that stands.
Commit ==
    /\ phase = "mounted"
    /\ match # location
    /\ match' = location
    /\ came' = match
    /\ IF boundary = "" THEN Render(location) ELSE UNCHANGED <<boundary, chunk>>
    /\ UNCHANGED <<phase, painting, location, throws, stale, faults>>

\* Both at once.
Jump(r) ==
    /\ phase = "mounted"
    /\ r # location
    /\ location' = r
    /\ match' = r
    /\ came' = match
    /\ Reset(r)
    /\ UNCHANGED <<phase, painting, throws, stale, faults>>

\* The import settles; a page that waits for it renders.
Arrive(p, outcome) ==
    /\ phase = "mounted"
    /\ chunk[p] = "loading"
    /\ chunk' = [chunk EXCEPT ![p] = outcome]
    /\ boundary' = IF match = p /\ boundary = "" /\ (outcome = "rejected" \/ p \in throws)
                     THEN p ELSE boundary
    /\ UNCHANGED <<phase, painting, location, match, came, throws, stale>>
Loaded(p) == Arrive(p, "loaded") /\ UNCHANGED faults
Rejected(p) ==
    /\ Arrive(p, "rejected")
    /\ IF stale THEN UNCHANGED faults ELSE faults < MaxFaults /\ faults' = faults + 1

\* A page's render begins to fail, by its data or state; or it stops to.
Break(p) ==
    /\ phase = "mounted"
    /\ p \notin throws
    /\ faults < MaxFaults
    /\ faults' = faults + 1
    /\ throws' = throws \cup {p}
    /\ boundary' = IF match = p /\ boundary = "" /\ (p \in Plugins => chunk[p] = "loaded")
                     THEN p ELSE boundary
    /\ UNCHANGED <<phase, painting, location, match, came, chunk, stale>>
Heal(p) ==
    /\ p \in throws
    /\ throws' = throws \ {p}
    /\ UNCHANGED <<phase, painting, routing, stale, faults>>

\* ErrorFallback's two buttons; the second is any reload of the document.
TryAgain ==
    /\ boundary # ""
    /\ Render(match)
    /\ UNCHANGED <<phase, painting, location, match, came, throws, stale, faults>>
Reload ==
    /\ phase = "mounted"
    /\ phase' = "painted"
    /\ class' = Script
    /\ match' = location
    /\ came' = location
    /\ chunk' = [p \in Plugins |-> "none"]
    /\ boundary' = ""
    /\ stale' = FALSE
    /\ UNCHANGED <<system, stored, blocked, theme, chosen, location, throws, faults>>

\* The server is replaced by another release.
Deploy ==
    /\ ~ stale
    /\ stale' = TRUE
    /\ UNCHANGED <<phase, painting, routing, throws, faults>>

Next ==
    \/ Mount \/ Toggle \/ SystemChanges
    \/ \E r \in Routes : Navigate(r) \/ Jump(r)
    \/ Commit
    \/ \E p \in Plugins : Loaded(p) \/ Rejected(p)
    \/ \E p \in Routes : Break(p) \/ Heal(p)
    \/ TryAgain \/ Reload \/ Deploy

Spec == Init /\ [][Next]_vars

-----------------------------------------------------------------------------
(* Properties *)

\* Every variable stays in its range.
TypeOK ==
    /\ phase \in {"painted", "mounted"}
    /\ system \in Theme /\ stored \in Theme \cup {""} /\ blocked \in BOOLEAN
    /\ class \in Theme /\ theme \in Theme /\ chosen \in Theme \cup {""}
    /\ location \in Routes /\ match \in Routes /\ came \in Routes
    /\ chunk \in [Plugins -> {"none", "loading", "loaded", "rejected"}]
    /\ throws \subseteq Routes
    /\ boundary \in Routes \cup {""}
    /\ stale \in BOOLEAN
    /\ faults \in 0..MaxFaults

\* The error on screen is that of the page on screen or of the one just left,
\* never of one left before: every navigation resets the boundary
\* (router.tsx:61-63 and its resetKeys), though the reset may be spent on the
\* page being left.
FallbackOrigin == boundary \in {"", match, came}

\* Without a fallback, the page on screen is a component that loaded or is
\* loading: a chunk that failed, on a new release say, is never a blank page
\* for good (Suspense's fallback is null).
BlankMeansLoading ==
    phase = "mounted" /\ boundary = "" /\ match \in Plugins => chunk[match] \in {"loading", "loaded"}

\* The class the script painted is the one the provider resolves, so nothing
\* flashes (ThemeProvider.tsx:39-42), where storage can be read.
NoFlash == [][phase = "painted" /\ phase' = "mounted" /\ ~ blocked => class' = class]_vars

\* The user's choice survives reloads, releases and a change of the system's
\* preference, where storage can be written.
ChoiceSurvives ==
    phase = "mounted" /\ chosen # "" /\ ~ blocked => theme = chosen /\ class = chosen
=============================================================================
