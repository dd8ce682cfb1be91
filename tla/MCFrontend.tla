------------------------------ MODULE MCFrontend ------------------------------
(* The pages of an App, for MCServices: the menu of the notification bell, the widgets of
   the admin pages, and the shell around them.  One behaviour is of one part. *)
EXTENDS Integers

CONSTANTS MenuIds, LinkedIds, ListLength,           \* notifications, those with a page, the list
          MenuLoads, MenuMarks, MenuFaults, MenuReads,
          WidgetCalls, RowEdits,                    \* of a widget, by another tab
          NarrowBar, WideBar, FirstBar, ShellWrites \* widths; other tabs' writes, and loads

(* sidebar-resizer.tsx: the widths are positive, the first one is within the bounds. *)
ASSUME ShellAssumption ==
    /\ NarrowBar \in Nat \ {0} /\ WideBar \in Nat /\ FirstBar \in NarrowBar..WideBar

VARIABLES inbox, recent, optimistic, menuOpen, markingAll, badge, pollingError, loads, marks, made,
          readElsewhere, pageFaults, mixed,
          widget, row, shown, dialog, transition, failed, created, copied, called, changed, last, missed,
          wide, fixed, isMobile, opened, openMobile, barCookie, barWidth, width, dragging, cssWidth,
          portal, mutated, elsewhere, outside

(* The menu. *)
Menu == INSTANCE NotificationMenu
    WITH Ids <- MenuIds, Linked <- LinkedIds, MaxItems <- ListLength, MaxLoads <- MenuLoads,
         MaxMarks <- MenuMarks, MaxFaults <- MenuFaults, MaxReads <- MenuReads,
         open <- menuOpen, count <- badge, reads <- readElsewhere, faults <- pageFaults

(* A widget and its row. *)
Console == INSTANCE AdminConsole
    WITH MaxCalls <- WidgetCalls, MaxEdits <- RowEdits, stored <- row, error <- failed

(* The shell. *)
Shell == INSTANCE AppShell
    WITH MinWidth <- NarrowBar, MaxWidth <- WideBar, FirstWidth <- FirstBar,
         MaxOutside <- ShellWrites, cookie <- barCookie, stored <- barWidth, target <- portal

menuVars    == <<inbox, recent, optimistic, menuOpen, markingAll, badge, pollingError, loads, marks,
                 made, readElsewhere, pageFaults, mixed>>
consoleVars == <<widget, row, shown, dialog, transition, failed, created, copied, called, changed,
                 last, missed>>
barVars     == <<wide, fixed, isMobile, opened, openMobile, barCookie, barWidth, width, dragging,
                 cssWidth, portal, mutated, elsewhere, outside>>
pageVars    == <<menuVars, consoleVars, barVars>>

MenuOff ==
    /\ inbox = {} /\ recent = {} /\ optimistic = {} /\ menuOpen = {} /\ markingAll = {} /\ badge = {}
    /\ pollingError = {} /\ loads = {} /\ marks = {} /\ made = {} /\ readElsewhere = {}
    /\ pageFaults = {} /\ mixed = {}
ConsoleOff ==
    /\ widget = "off" /\ row = {} /\ shown = {} /\ dialog = {} /\ transition = {} /\ failed = {}
    /\ created = {} /\ copied = {} /\ called = {} /\ changed = {} /\ last = {} /\ missed = {}
BarOff ==
    /\ wide = {} /\ fixed = {} /\ isMobile = {} /\ opened = {} /\ openMobile = {} /\ barCookie = {}
    /\ barWidth = {} /\ width = {} /\ dragging = {} /\ cssWidth = {} /\ portal = {} /\ mutated = {}
    /\ elsewhere = {} /\ outside = {}

PageInit(part) ==
    /\ IF part = "menu" THEN Menu!Init ELSE MenuOff
    /\ IF part = "console" THEN Console!Init ELSE ConsoleOff
    /\ IF part = "shell" THEN Shell!Init ELSE BarOff
PageNext(part) ==
    \/ part = "menu" /\ Menu!Next /\ UNCHANGED <<consoleVars, barVars>>
    \/ part = "console" /\ Console!Next /\ UNCHANGED <<menuVars, barVars>>
    \/ part = "shell" /\ Shell!Next /\ UNCHANGED <<menuVars, consoleVars>>
================================================================================
