------------------------------- MODULE AppShell -------------------------------
(* The shell around an App's pages, frontend-shell: SidebarProvider and Sidebar, the resizer,
   and the slot of the sidebar that a page renders into.  One tab, on a screen that may be
   narrowed and widened, beside other tabs of the same browser.

   React runs the effects of a render before the next event: a step is an event with all the
   effects that follow from it.  The observer of the document's mutations and the listener of
   the media query come later, as steps of their own. *)
EXTENDS Integers

CONSTANTS MinWidth, MaxWidth, FirstWidth,  \* of the resizer; a key changes the width by one
          MaxOutside                       \* bound: writes of other tabs, expired cookies, loads

VARIABLES wide, fixed,      \* the screen; collapsible = 'none'
          isMobile, opened, openMobile,
          cookie,           \* sidebar_state, "" when there is none
          stored,           \* sidebar_width, 0 when there is none
          width, dragging,  \* of the resizer that is mounted
          cssWidth,         \* --sidebar-width of the wrapper
          target,           \* the node that the page's portal renders into
          mutated,          \* the observer has not been called yet
          elsewhere,        \* what other tabs wrote since this one was loaded
          outside

shellVars == <<wide, fixed, isMobile, opened, openMobile, cookie, stored, width, dragging, cssWidth,
               target, mutated, elsewhere, outside>>

--------------------------------------------------------------------------------

clampWidth(w) == IF w < MinWidth THEN MinWidth ELSE IF w > MaxWidth THEN MaxWidth ELSE w
Named(o) == IF o THEN "expanded" ELSE "collapsed"

(* The resizer's first effect: a stored width counts when it is within the bounds. *)
Restored(s) == IF s \in MinWidth..MaxWidth THEN s ELSE FirstWidth

(* The resizer's second effect: the sheet has a width of its own, a collapsed bar its icons'. *)
Styled(mobile, o, w, css) == IF mobile \/ ~o THEN css ELSE w

(* Sidebar: one branch for the desktop, one for the sheet, and one for neither. *)
Mounted(mobile, sheet) == fixed \/ ~mobile \/ sheet
HasSlot == Mounted(isMobile, openMobile)
HasHandle == HasSlot /\ ~isMobile /\ opened

(* The sidebar of the other branch is mounted, or the sheet comes or goes: a new slot and a new
   resizer, while the portal keeps the node that it found. *)
Swapped(mobile, sheet) ==
    IF fixed THEN UNCHANGED <<width, dragging, target, mutated, elsewhere>>
    ELSE /\ width' = Restored(stored) /\ dragging' = FALSE
         /\ elsewhere' = elsewhere \ {"width"}
         /\ target' = IF target = "none" THEN "none" ELSE "detached"
         /\ mutated' = TRUE

--------------------------------------------------------------------------------

(* A page load: the server renders what the cookie says for a desktop; the effects read the
   stored width, find the slot and ask for the screen. *)
Loaded(o) ==
    /\ opened' = o /\ openMobile' = FALSE /\ isMobile' = FALSE
    /\ width' = Restored(stored) /\ dragging' = FALSE
    /\ cssWidth' = IF o THEN Restored(stored) ELSE FirstWidth
    /\ target' = "live" /\ mutated' = FALSE
    /\ elsewhere' = {}

Init ==
    /\ wide \in BOOLEAN /\ fixed \in BOOLEAN /\ isMobile = FALSE
    /\ opened \in BOOLEAN /\ openMobile = FALSE /\ cookie = ""
    /\ stored \in {0, MinWidth, MaxWidth + 1} /\ width = Restored(stored) /\ dragging = FALSE
    /\ cssWidth = IF opened THEN Restored(stored) ELSE FirstWidth
    /\ target = "live" /\ mutated = FALSE /\ elsewhere = {} /\ outside = 0

Reload ==
    /\ outside < MaxOutside /\ outside' = outside + 1
    /\ \E o \in IF cookie = "" THEN BOOLEAN ELSE {cookie = "expanded"} : Loaded(o)
    /\ UNCHANGED <<wide, fixed, cookie, stored>>

(* useIsMobile: its listener, or its effect after a load. *)
Media ==
    /\ isMobile # ~wide /\ isMobile' = ~wide
    /\ Swapped(~wide, openMobile)
    /\ cssWidth' = Styled(~wide, opened, width', cssWidth)
    /\ UNCHANGED <<wide, fixed, opened, openMobile, cookie, stored, outside>>

ResizeScreen ==
    /\ wide' = ~wide
    /\ UNCHANGED <<fixed, isMobile, opened, openMobile, cookie, stored, width, dragging, cssWidth,
                   target, mutated, elsewhere, outside>>

(* toggleSidebar, by the trigger or by a key: the sheet on a small screen, else the bar, which
   is remembered. *)
ToggleSheet ==
    /\ isMobile /\ openMobile' = ~openMobile
    /\ Swapped(TRUE, openMobile')
    /\ UNCHANGED <<wide, fixed, isMobile, opened, cookie, stored, cssWidth, outside>>
ToggleBar ==
    /\ ~isMobile /\ opened' = ~opened /\ cookie' = Named(opened')
    /\ elsewhere' = elsewhere \ {"cookie"}
    /\ cssWidth' = Styled(FALSE, opened', width, cssWidth)
    /\ UNCHANGED <<wide, fixed, isMobile, openMobile, stored, width, dragging, target, mutated, outside>>

(* setPersistedWidth *)
SetWidth(w) ==
    /\ width' = clampWidth(w) /\ stored' = width'
    /\ elsewhere' = elsewhere \ {"width"}
    /\ cssWidth' = Styled(isMobile, opened, width', cssWidth)
    /\ UNCHANGED <<wide, fixed, isMobile, opened, openMobile, cookie, target, mutated, outside>>

startResize ==
    /\ HasHandle /\ ~dragging /\ dragging' = TRUE
    /\ UNCHANGED <<wide, fixed, isMobile, opened, openMobile, cookie, stored, width, cssWidth, target,
                   mutated, elsewhere, outside>>
(* The listeners stay while the bar is collapsed under the pointer. *)
MouseMove == dragging /\ (\E w \in (MinWidth - 1)..(MaxWidth + 1) : SetWidth(w)) /\ UNCHANGED dragging
MouseUp ==
    /\ dragging /\ dragging' = FALSE
    /\ UNCHANGED <<wide, fixed, isMobile, opened, openMobile, cookie, stored, width, cssWidth, target,
                   mutated, elsewhere, outside>>
handleKeyDown ==
    HasHandle /\ (\E w \in {width - 1, width + 1} : SetWidth(w)) /\ UNCHANGED dragging

(* SidebarPagePortal: findTarget, as the observer calls it. *)
findTarget ==
    /\ mutated /\ mutated' = FALSE
    /\ target' = IF HasSlot THEN "live" ELSE "none"
    /\ UNCHANGED <<wide, fixed, isMobile, opened, openMobile, cookie, stored, width, dragging, cssWidth,
                   elsewhere, outside>>

(* Another tab, or the end of the cookie's week. *)
OtherTab ==
    /\ outside < MaxOutside /\ outside' = outside + 1
    /\ \/ \E w \in MinWidth..MaxWidth :
             stored' = w /\ elsewhere' = elsewhere \cup {"width"} /\ UNCHANGED cookie
       \/ \E c \in {"", "expanded", "collapsed"} :
             cookie' = c /\ elsewhere' = elsewhere \cup {"cookie"} /\ UNCHANGED stored
    /\ UNCHANGED <<wide, fixed, isMobile, opened, openMobile, width, dragging, cssWidth, target, mutated>>

Next ==
    \/ Reload \/ Media \/ ResizeScreen \/ ToggleSheet \/ ToggleBar
    \/ startResize \/ MouseMove \/ MouseUp \/ handleKeyDown \/ findTarget \/ OtherTab

Spec == Init /\ [][Next]_shellVars

--------------------------------------------------------------------------------
(* Properties *)

(* SidebarPagePortal: once the observer was called, a page's content is in the slot that is in
   the document, however often the branches were swapped. *)
PortalFollows == ~mutated => target = IF HasSlot THEN "live" ELSE "none"

(* SidebarResizer: an expanded bar is as wide as it was left, by this tab or by what another
   had stored when the bar was mounted, and within the bounds. *)
WidthKept ==
    ~isMobile /\ opened =>
        /\ cssWidth = width /\ width \in MinWidth..MaxWidth
        /\ stored \in MinWidth..MaxWidth /\ "width" \notin elsewhere => width = stored

(* SidebarProvider: what the cookie says is how this tab's bar was left, whatever the sheet
   did, unless another tab wrote it. *)
CookieKept == cookie # "" /\ "cookie" \notin elsewhere => cookie = Named(opened)

(* The three for a page's shell. *)
ShellKept == PortalFollows /\ WidthKept /\ CookieKept
================================================================================
