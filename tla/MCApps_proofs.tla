----------------------------- MODULE MCApps_proofs -----------------------------
(* What an App is built from and shows, for every value of the constants: the pages; permission
   plans and the manifest loader; drift checks and codemods; and the host that composes the
   plugins.  One section has the inductive invariant of one part, how each of its steps keeps it,
   and what it tells; the last one puts the parts together. *)
EXTENDS MCServices, FiniteSetTheorems, TLAPS

--------------------------------------------------------------------------------
(* The shell of a page: what a bar was left as.  Its width is the stored one, whether it is
   shown or not, and the wrapper's width is the bar's while it is expanded. *)
Widths == NarrowBar..WideBar
ShellInv ==
    /\ Shell!PortalFollows
    /\ width \in Widths
    /\ barWidth \in Widths /\ "width" \notin elsewhere => width = barWidth
    /\ ~isMobile /\ opened => cssWidth = width
    /\ barCookie \in {"", "expanded", "collapsed"}
    /\ Shell!CookieKept

(* A width that is read from the store, and one that is set, are within the bounds. *)
LEMMA WidthsWithin ==
    /\ \A w : Shell!Restored(w) \in Widths /\ (w \in Widths => Shell!Restored(w) = w)
    /\ \A w \in Int : Shell!clampWidth(w) \in Widths
  BY ShellAssumption DEF Shell!Restored, Shell!clampWidth, Widths

LEMMA ShellStart == Shell!Init => ShellInv
  <1> SUFFICES ASSUME Shell!Init PROVE ShellInv
    OBVIOUS
  <1>1. width = Shell!Restored(barWidth) /\ (opened => cssWidth = width)
    BY DEF Shell!Init
  <1>2. width \in Widths /\ (barWidth \in Widths => width = barWidth)
    BY <1>1, WidthsWithin
  <1>3. Shell!PortalFollows
    BY DEF Shell!Init, Shell!PortalFollows, Shell!HasSlot, Shell!Mounted
  <1> QED
    BY <1>1, <1>2, <1>3 DEF Shell!Init, ShellInv, Shell!CookieKept

(* Each step of the shell. *)
LEMMA ShellStep == ShellInv /\ [Shell!Next]_barVars => ShellInv'
  <1> SUFFICES ASSUME ShellInv, [Shell!Next]_barVars PROVE ShellInv'
    OBVIOUS
  <1>0. Widths \subseteq Int
    BY ShellAssumption DEF Widths
  <1>1. CASE Shell!Reload
    <2>1. PICK o \in BOOLEAN :
              Shell!Loaded(o) /\ (barCookie # "" => o = (barCookie = "expanded"))
      BY <1>1 DEF Shell!Reload
    <2>2. /\ width' = Shell!Restored(barWidth) /\ opened' = o /\ ~isMobile' /\ elsewhere' = {}
          /\ cssWidth' = IF o THEN Shell!Restored(barWidth) ELSE FirstBar
          /\ portal' = "live"
          /\ UNCHANGED <<fixed, barWidth, barCookie>>
      BY <1>1, <2>1 DEF Shell!Reload, Shell!Loaded
    <2>3. width' \in Widths /\ (barWidth \in Widths => width' = barWidth)
      BY <2>2, WidthsWithin
    <2>4. barCookie # "" => barCookie = Shell!Named(o)
      BY <2>1 DEF ShellInv, Shell!Named
    <2>5. Shell!PortalFollows'
      BY <2>2 DEF Shell!PortalFollows, Shell!HasSlot, Shell!Mounted
    <2>6. Shell!CookieKept'
      BY <2>2, <2>4 DEF Shell!CookieKept
    <2> QED
      BY <2>2, <2>3, <2>5, <2>6 DEF ShellInv
  <1>2. CASE Shell!Media
    <2>1. /\ UNCHANGED <<fixed, opened, openMobile, barCookie, barWidth>>
          /\ ~isMobile' => (opened => cssWidth' = width')
      BY <1>2 DEF Shell!Media, Shell!Styled
    <2>2. CASE fixed
      <3>1. UNCHANGED <<width, portal, mutated, elsewhere>>
        BY <1>2, <2>2 DEF Shell!Media, Shell!Swapped
      <3>2. Shell!PortalFollows' /\ Shell!CookieKept'
        BY <2>1, <2>2, <3>1
        DEF ShellInv, Shell!PortalFollows, Shell!HasSlot, Shell!Mounted, Shell!CookieKept
      <3> QED
        BY <2>1, <3>1, <3>2 DEF ShellInv
    <2>3. CASE ~fixed
      <3>1. /\ width' = Shell!Restored(barWidth) /\ mutated' = TRUE
            /\ elsewhere' = elsewhere \ {"width"}
        BY <1>2, <2>3 DEF Shell!Media, Shell!Swapped
      <3>2. width' \in Widths /\ (barWidth \in Widths => width' = barWidth)
        BY <3>1, WidthsWithin
      <3>3. Shell!PortalFollows' /\ Shell!CookieKept'
        BY <2>1, <3>1 DEF ShellInv, Shell!PortalFollows, Shell!CookieKept
      <3> QED
        BY <2>1, <3>1, <3>2, <3>3 DEF ShellInv
    <2> QED
      BY <2>2, <2>3
  <1>3. CASE Shell!ResizeScreen
    BY <1>3
    DEF Shell!ResizeScreen, ShellInv, Shell!PortalFollows, Shell!HasSlot, Shell!Mounted,
        Shell!CookieKept
  <1>4. CASE Shell!ToggleSheet
    BY <1>4, WidthsWithin
    DEF Shell!ToggleSheet, Shell!Swapped, ShellInv, Shell!PortalFollows, Shell!HasSlot,
        Shell!Mounted, Shell!CookieKept
  <1>5. CASE Shell!ToggleBar
    BY <1>5
    DEF Shell!ToggleBar, Shell!Styled, Shell!Named, ShellInv, Shell!PortalFollows, Shell!HasSlot,
        Shell!Mounted, Shell!CookieKept
  <1>6. ASSUME NEW w \in Int, Shell!SetWidth(w) PROVE ShellInv'
    BY <1>6, WidthsWithin
    DEF Shell!SetWidth, Shell!Styled, ShellInv, Shell!PortalFollows, Shell!HasSlot,
        Shell!Mounted, Shell!CookieKept
  <1>7. CASE Shell!MouseMove \/ Shell!handleKeyDown
    <2>1. width \in Int
      BY <1>0 DEF ShellInv
    <2>2. \A w \in (NarrowBar - 1)..(WideBar + 1) : w \in Int
      BY ShellAssumption
    <2>3. width - 1 \in Int /\ width + 1 \in Int
      BY <2>1
    <2> QED
      BY <1>6, <1>7, <2>2, <2>3 DEF Shell!MouseMove, Shell!handleKeyDown
  <1>8. CASE Shell!startResize \/ Shell!MouseUp
    <2>1. UNCHANGED <<fixed, isMobile, opened, openMobile, barCookie, barWidth, width, cssWidth,
                      portal, mutated, elsewhere>>
      BY <1>8 DEF Shell!startResize, Shell!MouseUp
    <2> QED
      BY <2>1
      DEF ShellInv, Shell!PortalFollows, Shell!HasSlot, Shell!Mounted, Shell!CookieKept
  <1>9. CASE Shell!findTarget
    BY <1>9
    DEF Shell!findTarget, ShellInv, Shell!PortalFollows, Shell!HasSlot, Shell!Mounted,
        Shell!CookieKept
  <1>10. CASE Shell!OtherTab
    BY <1>10
    DEF Shell!OtherTab, ShellInv, Shell!PortalFollows, Shell!HasSlot, Shell!Mounted,
        Shell!CookieKept
  <1>11. CASE UNCHANGED barVars
    BY <1>11
    DEF barVars, ShellInv, Shell!PortalFollows, Shell!HasSlot, Shell!Mounted, Shell!CookieKept
  <1> QED
    BY <1>1, <1>2, <1>3, <1>4, <1>5, <1>7, <1>8, <1>9, <1>10, <1>11 DEF Shell!Next

--------------------------------------------------------------------------------
(* A widget of the admin pages: one call at most; while it runs no error is shown; and the
   dialog of a new key is open while its call runs, unless the administrator left it. *)
CallsTyped ==
    \A c \in transition :
        c = [name |-> c.name, value |-> c.value, left |-> c.left, result |-> c.result]
OneCall == \A c, d \in transition : c = d
OneDialog == \A d, e \in dialog : d = e
Answered ==
    /\ transition # {} => failed = {}
    /\ failed # {} => last.failed /\ failed = {last.name}
KeyAwaited ==
    widget = "create key" => \A c \in transition : c.left \/ c.name \in dialog
SecretsLeft ==
    /\ \A y \in created : y.seen \/ y.why # "hidden"
    /\ "hidden" \notin missed
ConsoleInv == CallsTyped /\ OneCall /\ OneDialog /\ Answered /\ KeyAwaited /\ SecretsLeft

LEMMA ConsoleStart == Console!Init => ConsoleInv
  BY DEF Console!Init, ConsoleInv, CallsTyped, OneCall, OneDialog, Answered, KeyAwaited,
     SecretsLeft

(* A call that is served, succeeds or fails is the only one. *)
LEMMA CallStep ==
    ASSUME ConsoleInv, NEW c \in transition,
           Console!Serve(c) \/ Console!Succeeds(c) \/ Console!Fails(c)
    PROVE  ConsoleInv'
  <1>0. /\ transition = {c} /\ failed = {}
        /\ c = [name |-> c.name, value |-> c.value, left |-> c.left, result |-> c.result]
    BY DEF ConsoleInv, OneCall, Answered, CallsTyped
  <1>1. ASSUME NEW x, Console!Serve(c), transition' = {[c EXCEPT !.result = x]}
        PROVE  ConsoleInv'
    <2>1. PICK d : d = [c EXCEPT !.result = x]
      OBVIOUS
    <2>2. /\ d = [name |-> d.name, value |-> d.value, left |-> d.left, result |-> d.result]
          /\ d.name = c.name /\ d.left = c.left
      BY <1>0, <2>1
    <2>3. transition' = {d}
      BY <1>1, <2>1
    <2> QED
      BY <1>0, <1>1, <2>2, <2>3
      DEF Console!Serve, ConsoleInv, CallsTyped, OneCall, OneDialog, Answered, KeyAwaited,
          SecretsLeft, Console!history
  <1>2. CASE Console!Serve(c)
    <2>1. \E x : transition' = {[c EXCEPT !.result = x]}
      BY <1>0, <1>2 DEF Console!Serve
    <2> QED
      BY <1>1, <1>2, <2>1
  <1>3. CASE Console!Succeeds(c)
    <2>1. transition' = {} /\ failed' = {}
      BY <1>0, <1>3 DEF Console!Succeeds
    <2>2. OneDialog'
      BY <1>3 DEF Console!Succeeds, ConsoleInv, OneDialog
    <2>3. SecretsLeft'
      <3>1. CASE widget = "create key"
        <4>1. dialog' = dialog /\ (c.left \/ c.name \in dialog) /\ missed' = missed
          BY <1>3, <3>1 DEF Console!Succeeds, Console!Closes, ConsoleInv, KeyAwaited
        <4>2. created' = {[seen |-> c.name \in dialog',
                           why |-> IF c.left THEN "left" ELSE "hidden"]}
          BY <1>3, <3>1 DEF Console!Succeeds
        <4>3. CASE c.left
          <5>1. \A y \in created' : y.why = "left"
            BY <4>2, <4>3
          <5> QED
            BY <4>1, <5>1 DEF ConsoleInv, SecretsLeft
        <4>4. CASE ~c.left
          <5>1. (c.name \in dialog') = TRUE
            BY <4>1, <4>4
          <5>2. PICK w : w = IF c.left THEN "left" ELSE "hidden"
            OBVIOUS
          <5>3. created' = {[seen |-> TRUE, why |-> w]}
            BY <4>2, <5>1, <5>2, Zenon
          <5>4. \A y \in created' : y.seen = TRUE
            BY <5>3
          <5> QED
            BY <4>1, <5>4 DEF ConsoleInv, SecretsLeft
        <4> QED
          BY <4>3, <4>4
      <3>2. CASE widget # "create key"
        BY <1>3, <3>2 DEF Console!Succeeds, ConsoleInv, SecretsLeft
      <3> QED
        BY <3>1, <3>2
    <2> QED
      BY <2>1, <2>2, <2>3 DEF ConsoleInv, CallsTyped, OneCall, Answered, KeyAwaited
  <1>4. CASE Console!Fails(c)
    BY <1>0, <1>4
    DEF Console!Fails, Console!Unseen, ConsoleInv, CallsTyped, OneCall, OneDialog, Answered,
        KeyAwaited, SecretsLeft
  <1> QED
    BY <1>2, <1>3, <1>4

(* Each step of a widget. *)
LEMMA ConsoleStep == ConsoleInv /\ [Console!Next]_consoleVars => ConsoleInv'
  <1> SUFFICES ASSUME ConsoleInv, [Console!Next]_consoleVars PROVE ConsoleInv'
    OBVIOUS
  <1>1. ASSUME NEW d, Console!setOpen(d) PROVE ConsoleInv'
    BY <1>1
    DEF Console!setOpen, Console!Unseen, ConsoleInv, CallsTyped, OneCall, OneDialog, Answered,
        KeyAwaited, SecretsLeft
  <1>2. ASSUME NEW d, Console!Close(d) PROVE ConsoleInv'
    <2>1. /\ dialog' = {} /\ d \in dialog /\ \A e \in dialog : e = d
          /\ UNCHANGED <<widget, failed, created, last, missed>>
      BY <1>2 DEF Console!Close, Console!history, ConsoleInv, OneDialog
    <2>2. \A x \in transition' : \E c \in transition :
              x = (IF c.name = d THEN [c EXCEPT !.left = TRUE] ELSE c)
      BY <1>2 DEF Console!Close
    <2>3. ASSUME NEW c \in transition
          PROVE  /\ c = [name |-> c.name, value |-> c.value, left |-> c.left, result |-> c.result]
                 /\ widget = "create key" => c.left \/ c.name = d
      BY <2>1 DEF ConsoleInv, CallsTyped, KeyAwaited
    <2>4. ASSUME NEW x \in transition'
          PROVE  /\ x = [name |-> x.name, value |-> x.value, left |-> x.left, result |-> x.result]
                 /\ widget = "create key" => x.left
      <3>1. PICK c \in transition :
                x = (IF c.name = d THEN [c EXCEPT !.left = TRUE] ELSE c)
        BY <2>2
      <3>2. c = [name |-> c.name, value |-> c.value, left |-> c.left, result |-> c.result]
        BY <2>3
      <3>3. CASE c.name = d
        BY <3>1, <3>2, <3>3
      <3>4. CASE c.name # d
        BY <2>3, <3>1, <3>2, <3>4
      <3> QED
        BY <3>3, <3>4
    <2>5. OneCall'
      BY <2>2 DEF ConsoleInv, OneCall
    <2>6. transition' # {} => transition # {}
      BY <2>2
    <2> QED
      BY <2>1, <2>4, <2>5, <2>6
      DEF ConsoleInv, CallsTyped, OneDialog, Answered, KeyAwaited, SecretsLeft
  <1>3. CASE Console!handleCopy
    BY <1>3
    DEF Console!handleCopy, Console!history, ConsoleInv, CallsTyped, OneCall, OneDialog, Answered,
        KeyAwaited, SecretsLeft
  <1>4. ASSUME NEW n, Console!Call(n) PROVE ConsoleInv'
    <2>1. PICK v : transition' = transition \cup
              {[name |-> n, value |-> v, left |-> FALSE, result |-> "sent"]}
      BY <1>4 DEF Console!Call
    <2>2. PICK c : c = [name |-> n, value |-> v, left |-> FALSE, result |-> "sent"]
      OBVIOUS
    <2>3. /\ transition' = {c} /\ failed' = {}
          /\ UNCHANGED <<widget, dialog, created, last, missed>>
      BY <1>4, <2>1, <2>2
      DEF Console!Call, Console!Enabled, Console!isPending, Console!history
    <2>4. widget = "create key" => n \in dialog
      BY <1>4
      DEF Console!Call, Console!Enabled, Console!Offered, Console!CreateKey, Console!Offer
    <2>5. /\ c = [name |-> c.name, value |-> c.value, left |-> c.left, result |-> c.result]
          /\ c.name = n
      BY <2>2
    <2>6. \A x \in transition' : x = c
      BY <2>3
    <2>7. CallsTyped' /\ OneCall'
      BY <2>5, <2>6 DEF CallsTyped, OneCall
    <2>8. KeyAwaited'
      BY <2>3, <2>4, <2>5, <2>6 DEF KeyAwaited
    <2> QED
      BY <2>3, <2>7, <2>8 DEF ConsoleInv, OneDialog, Answered, SecretsLeft
  <1>5. CASE Console!Elsewhere \/ Console!Render
    BY <1>5
    DEF Console!Elsewhere, Console!Render, Console!history, ConsoleInv, CallsTyped, OneCall,
        OneDialog, Answered, KeyAwaited, SecretsLeft
  <1>6. CASE UNCHANGED consoleVars
    BY <1>6
    DEF consoleVars, ConsoleInv, CallsTyped, OneCall, OneDialog, Answered, KeyAwaited, SecretsLeft
  <1> QED
    BY <1>1, <1>2, <1>3, <1>4, <1>5, <1>6, CallStep DEF Console!Next

LEMMA ConsoleTells == ConsoleInv => Console!ConsoleRight
  <1> SUFFICES ASSUME ConsoleInv PROVE Console!ConsoleRight
    OBVIOUS
  <1>1. Cardinality(transition) <= 1
    <2>1. CASE transition = {}
      BY <2>1, FS_EmptySet
    <2>2. CASE transition # {}
      <3>1. PICK c : transition = {c}
        BY <2>2 DEF ConsoleInv, OneCall
      <3> QED
        BY <3>1, FS_Singleton
    <2> QED
      BY <2>1, <2>2
  <1>2. Console!Cardinality(transition) = Cardinality(transition)
    BY DEF Console!Cardinality, Cardinality
  <1> QED
    BY <1>1, <1>2
    DEF Console!ConsoleRight, Console!SecretShown, Console!ErrorsAreCurrent, ConsoleInv,
        SecretsLeft, Answered

--------------------------------------------------------------------------------
(* The menu of the bell.  A list is held when the server has its notifications, and true when
   the server has those as read that it shows as read. *)
Listed(list, box) == DOMAIN list \subseteq DOMAIN box
Truthful(list, box) == Listed(list, box) /\ \A i \in DOMAIN list : list[i] => box[i]

RecentOK ==
    /\ recent = [items |-> recent.items, loading |-> recent.loading, error |-> recent.error]
    /\ Truthful(recent.items, inbox)
LoadsOK ==
    \A l \in loads :
        /\ l = [n |-> l.n, for |-> l.for, answer |-> l.answer]
        /\ \A x \in l.answer : Truthful(x, inbox)

(* What a mark restores is true, unless it was made amid others. *)
MarkOK(m, box) ==
    /\ m = [n |-> m.n, kind |-> m.kind, what |-> m.what, at |-> m.at, previous |-> m.previous,
            amid |-> m.amid]
    /\ Listed(m.previous, box)
    /\ m.amid \/ Truthful(m.previous, box)
MarksOK == \A m \in marks : MarkOK(m, inbox)

(* What the list shows as read is read, or is of a mark that is under way. *)
Covered(list, box, under) ==
    \A i \in DOMAIN list : list[i] => box[i] \/ \E m \in under : m.at = "sent" /\ i \in m.what
GuessOK ==
    /\ \A g, h \in optimistic : g = h
    /\ \A g \in optimistic : Listed(g, inbox) /\ (mixed \/ Covered(g, inbox, marks))

MenuInv == RecentOK /\ LoadsOK /\ MarksOK /\ GuessOK

(* No row is ever deleted or read back to unread. *)
Grows(box, more) ==
    /\ DOMAIN box \subseteq DOMAIN more
    /\ \A i \in DOMAIN box : box[i] => more[i]

LEMMA MenuStart == Menu!Init => MenuInv
  <1> SUFFICES ASSUME Menu!Init PROVE MenuInv
    OBVIOUS
  <1>1. /\ recent = [items |-> [i \in {} |-> FALSE], loading |-> FALSE, error |-> FALSE]
        /\ loads = {} /\ marks = {} /\ optimistic = {}
    BY DEF Menu!Init, Menu!Page, Menu!Fresh, Menu!None
  <1>2. recent.items = [i \in {} |-> FALSE]
    BY <1>1
  <1>3. Truthful(recent.items, inbox)
    BY <1>2 DEF Truthful, Listed
  <1>4. RecentOK
    BY <1>1, <1>3 DEF RecentOK
  <1> QED
    BY <1>1, <1>4 DEF MenuInv, LoadsOK, MarksOK, GuessOK

LEMMA Growing ==
    ASSUME NEW box, NEW more, Grows(box, more)
    PROVE  /\ \A l : Listed(l, box) => Listed(l, more)
           /\ \A l : Truthful(l, box) => Truthful(l, more)
           /\ \A m : MarkOK(m, box) => MarkOK(m, more)
  <1>1. \A l : Listed(l, box) => Listed(l, more)
    BY DEF Grows, Listed
  <1>2. \A l : Truthful(l, box) => Truthful(l, more)
    BY DEF Grows, Listed, Truthful
  <1> QED
    BY <1>1, <1>2 DEF MarkOK

(* The list that is shown. *)
LEMMA Displayed ==
    ASSUME MenuInv
    PROVE  /\ Listed(Menu!displayItems, inbox)
           /\ mixed \/ Covered(Menu!displayItems, inbox, marks)
           /\ ~mixed /\ Menu!InFlight = {} => Truthful(Menu!displayItems, inbox)
  <1> DEFINE shownList == Menu!displayItems
  <1>1. /\ Listed(shownList, inbox)
        /\ mixed \/ Covered(shownList, inbox, marks)
    <2>1. CASE optimistic = {}
      BY <2>1
      DEF MenuInv, RecentOK, Menu!displayItems, Truthful, Covered
    <2>2. CASE optimistic # {}
      <3>1. shownList \in optimistic
        BY <2>2 DEF Menu!displayItems
      <3> QED
        BY <3>1 DEF MenuInv, GuessOK
    <2> QED
      BY <2>1, <2>2
  <1> QED
    BY <1>1 DEF Covered, Truthful, Menu!InFlight

(* A load that begins, for whomever. *)
LEMMA LoadStep ==
    ASSUME MenuInv, NEW whom, Menu!Load(whom), inbox' = inbox
    PROVE  RecentOK' /\ LoadsOK'
  <1>1. PICK l : l = [n |-> made.load, for |-> whom, answer |-> {}]
    OBVIOUS
  <1>2. /\ recent' = [recent EXCEPT !.loading = TRUE, !.error = FALSE]
        /\ loads' = loads \cup {l}
    BY <1>1 DEF Menu!Load
  <1>3. /\ l = [n |-> l.n, for |-> l.for, answer |-> l.answer] /\ l.answer = {}
    BY <1>1
  <1>4. recent' = [items |-> recent.items, loading |-> TRUE, error |-> FALSE]
    BY <1>2 DEF MenuInv, RecentOK
  <1>5. RecentOK'
    <2>1. recent'.items = recent.items /\ recent'.loading = TRUE /\ recent'.error = FALSE
      BY <1>4
    <2> QED
      BY <1>4, <2>1 DEF MenuInv, RecentOK
  <1>6. LoadsOK'
    BY <1>2, <1>3 DEF MenuInv, LoadsOK
  <1> QED
    BY <1>5, <1>6

(* What the loads answer. *)
LEMMA LoadEnds ==
    ASSUME MenuInv, NEW l \in loads,
           Menu!AnswerLoad(l) \/ Menu!Loaded(l) \/ Menu!LoadFails(l)
    PROVE  MenuInv'
  <1>0. /\ l = [n |-> l.n, for |-> l.for, answer |-> l.answer]
        /\ \A x \in l.answer : Truthful(x, inbox)
    BY DEF MenuInv, LoadsOK
  <1>1. CASE Menu!AnswerLoad(l)
    <2>1. PICK x : x = Menu!Newest(inbox)
      OBVIOUS
    <2>2. Truthful(x, inbox)
      BY <2>1 DEF Menu!Newest, Truthful, Listed
    <2>3. PICK answered : answered = [l EXCEPT !.answer = {x}]
      OBVIOUS
    <2>4. /\ answered = [n |-> answered.n, for |-> answered.for, answer |-> answered.answer] /\ answered.answer = {x}
      BY <1>0, <2>3
    <2>5. loads' = (loads \ {l}) \cup {answered}
      BY <1>1, <2>1, <2>3 DEF Menu!AnswerLoad
    <2>6. UNCHANGED <<inbox, recent, optimistic, marks, mixed>>
      BY <1>1 DEF Menu!AnswerLoad
    <2>7. LoadsOK'
      BY <2>2, <2>4, <2>5, <2>6 DEF MenuInv, LoadsOK
    <2> QED
      BY <2>6, <2>7 DEF MenuInv, RecentOK, MarksOK, GuessOK
  <1>2. CASE Menu!Loaded(l)
    <2>1. PICK x \in l.answer :
              recent' = [items |-> x, loading |-> FALSE, error |-> FALSE]
      BY <1>2 DEF Menu!Loaded
    <2>2. recent'.items = x /\ recent'.loading = FALSE /\ recent'.error = FALSE
      BY <2>1
    <2>3. optimistic' = {} /\ loads' = loads \ {l} /\ UNCHANGED <<inbox, marks>>
      BY <1>2 DEF Menu!Loaded, Menu!Ends
    <2>4. RecentOK'
      BY <1>0, <2>1, <2>2, <2>3 DEF RecentOK
    <2> QED
      BY <2>3, <2>4 DEF MenuInv, LoadsOK, MarksOK, GuessOK
  <1>3. CASE Menu!LoadFails(l)
    <2>1. recent' = [recent EXCEPT !.loading = FALSE, !.error = TRUE]
      BY <1>3 DEF Menu!LoadFails
    <2>2. recent' = [items |-> recent.items, loading |-> FALSE, error |-> TRUE]
      BY <2>1 DEF MenuInv, RecentOK
    <2>3. recent'.items = recent.items /\ recent'.loading = FALSE /\ recent'.error = TRUE
      BY <2>2
    <2>4. loads' = loads \ {l} /\ UNCHANGED <<inbox, marks, optimistic, mixed>>
      BY <1>3 DEF Menu!LoadFails, Menu!Ends
    <2>5. RecentOK'
      BY <2>2, <2>3, <2>4 DEF MenuInv, RecentOK
    <2> QED
      BY <2>4, <2>5 DEF MenuInv, LoadsOK, MarksOK, GuessOK
  <1> QED
    BY <1>1, <1>2, <1>3

(* A mark that is made: the guess is what was shown, and what is marked. *)
LEMMA MarkStep ==
    ASSUME MenuInv, NEW kd, NEW what, NEW guess, Menu!Mark(kd, what, guess),
           DOMAIN guess = DOMAIN Menu!displayItems,
           \A i \in DOMAIN guess : guess[i] => Menu!displayItems[i] \/ i \in what
    PROVE  MenuInv'
  <1>1. PICK items : items = Menu!displayItems
    OBVIOUS
  <1>2. PICK amid : amid = (mixed \/ Menu!InFlight # {})
    OBVIOUS
  <1>3. PICK m : m = [n |-> made.mark, kind |-> kd, what |-> what, at |-> "sent",
                      previous |-> items, amid |-> amid]
    OBVIOUS
  <1>4. /\ m = [n |-> m.n, kind |-> m.kind, what |-> m.what, at |-> m.at,
               previous |-> m.previous, amid |-> m.amid]
        /\ m.at = "sent" /\ m.what = what /\ m.previous = items /\ m.amid = amid
    BY <1>3
  <1>5. /\ marks' = marks \cup {m} /\ optimistic' = {guess}
        /\ UNCHANGED <<inbox, recent, loads, mixed>>
    BY <1>1, <1>2, <1>3 DEF Menu!Mark
  <1>6. /\ Listed(items, inbox) /\ (mixed \/ Covered(items, inbox, marks))
        /\ amid \/ Truthful(items, inbox)
    BY <1>1, <1>2, Displayed
  <1>7. MarkOK(m, inbox)
    BY <1>4, <1>6 DEF MarkOK
  <1>8. MarksOK'
    BY <1>5, <1>7 DEF MenuInv, MarksOK
  <1>9. Listed(guess, inbox)
    BY <1>1, <1>6 DEF Listed
  <1>10. mixed \/ Covered(guess, inbox, marks \cup {m})
    BY <1>1, <1>4, <1>6 DEF Covered
  <1>11. GuessOK'
    BY <1>5, <1>9, <1>10 DEF GuessOK
  <1> QED
    BY <1>5, <1>8, <1>11 DEF MenuInv, RecentOK, LoadsOK

(* The server's update, for a page that waits or one that was left. *)
LEMMA ServerStep ==
    ASSUME MenuInv, NEW m \in marks, Menu!ServerMarks(m)
    PROVE  MenuInv'
  <1>1. PICK box : box = Menu!Applied(m)
    OBVIOUS
  <1>2. /\ DOMAIN box = DOMAIN inbox
        /\ \A i \in DOMAIN inbox : inbox[i] \/ i \in m.what => box[i]
    BY <1>1 DEF Menu!Applied
  <1>3. inbox' = box /\ UNCHANGED <<recent, optimistic, loads, mixed>>
    BY <1>1 DEF Menu!ServerMarks
  <1>4. Grows(inbox, box)
    BY <1>2 DEF Grows
  <1>5. PICK x : x = [m EXCEPT !.at = "applied"]
    OBVIOUS
  <1>6. marks' \subseteq (marks \ {m}) \cup {x} /\ marks \ {m} \subseteq marks'
    BY <1>5 DEF Menu!ServerMarks
  <1>7. MarkOK(m, box)
    BY <1>4, Growing DEF MenuInv, MarksOK
  <1>8. MarkOK(x, box)
    <2>1. /\ x = [n |-> x.n, kind |-> x.kind, what |-> x.what, at |-> x.at,
                 previous |-> x.previous, amid |-> x.amid]
          /\ x.previous = m.previous /\ x.amid = m.amid
      BY <1>5, <1>7 DEF MarkOK
    <2> QED
      BY <1>7, <2>1 DEF MarkOK
  <1>9. \A y \in marks : MarkOK(y, box)
    BY <1>4, Growing DEF MenuInv, MarksOK
  <1>10. MarksOK'
    BY <1>3, <1>6, <1>8, <1>9 DEF MarksOK
  <1>11. RecentOK' /\ LoadsOK'
    BY <1>3, <1>4, Growing DEF MenuInv, RecentOK, LoadsOK
  <1>12. ASSUME NEW g \in optimistic
         PROVE  Listed(g, box) /\ (mixed \/ Covered(g, box, marks'))
    <2>1. Listed(g, inbox) /\ (mixed \/ Covered(g, inbox, marks))
      BY DEF MenuInv, GuessOK
    <2>2. Listed(g, box)
      BY <1>4, <2>1, Growing
    <2>3. ASSUME Covered(g, inbox, marks) PROVE Covered(g, box, marks')
      BY <1>2, <1>6, <2>1, <2>3 DEF Covered, Listed
    <2> QED
      BY <2>1, <2>2, <2>3
  <1>13. GuessOK'
    BY <1>3, <1>12 DEF MenuInv, GuessOK
  <1> QED
    BY <1>10, <1>11, <1>13 DEF MenuInv

(* Marks of a page that was left are late: they restore nothing. *)
LEMMA LateMarks ==
    ASSUME MarksOK, NEW x, NEW y \in marks, x = [y EXCEPT !.at = "late"]
    PROVE  MarkOK(x, inbox)
  <1>1. MarkOK(y, inbox)
    BY DEF MarksOK
  <1>2. /\ x = [n |-> x.n, kind |-> x.kind, what |-> x.what, at |-> x.at,
               previous |-> x.previous, amid |-> x.amid]
        /\ x.previous = y.previous /\ x.amid = y.amid
    BY <1>1 DEF MarkOK
  <1> QED
    BY <1>1, <1>2 DEF MarkOK

(* The page is left: nothing is shown of what it knew. *)
LEMMA LeaveStep ==
    ASSUME MenuInv, Menu!Leave, inbox' = inbox,
           \A x \in marks' : \E y \in marks : x = [y EXCEPT !.at = "late"]
    PROVE  MenuInv'
  <1>1. /\ recent' = [items |-> [i \in {} |-> FALSE], loading |-> FALSE, error |-> FALSE]
        /\ loads' = {} /\ optimistic' = {}
    BY DEF Menu!Leave, Menu!Fresh, Menu!None
  <1>2. /\ recent'.items = [i \in {} |-> FALSE]
        /\ recent'.loading = FALSE /\ recent'.error = FALSE
    BY <1>1
  <1>3. Truthful(recent'.items, inbox')
    BY <1>2 DEF Truthful, Listed
  <1>4. RecentOK'
    BY <1>1, <1>2, <1>3 DEF RecentOK
  <1>5. MarksOK'
    BY LateMarks DEF MenuInv, MarksOK
  <1> QED
    BY <1>1, <1>4, <1>5 DEF MenuInv, LoadsOK, GuessOK

(* A mark ends whose list is restored: the list is true, or it is mixed. *)
LEMMA RestoreStep ==
    ASSUME MenuInv, NEW m \in marks,
           UNCHANGED <<inbox, recent>>, loads' \subseteq loads,
           optimistic' = {m.previous}, mixed' = (mixed \/ m.amid),
           \A x \in marks' : x \in marks \/ x = [m EXCEPT !.at = "late"]
    PROVE  MenuInv'
  <1>1. MarkOK(m, inbox)
    BY DEF MenuInv, MarksOK
  <1>2. MarksOK'
    BY LateMarks DEF MenuInv, MarksOK
  <1>3. mixed' \/ Covered(m.previous, inbox, marks')
    BY <1>1 DEF MarkOK, Truthful, Covered
  <1>4. GuessOK'
    BY <1>1, <1>3 DEF GuessOK, MarkOK
  <1> QED
    BY <1>2, <1>4 DEF MenuInv, RecentOK, LoadsOK

(* A mark that the server carried out ends: what it covered is read. *)
LEMMA MarkEnds ==
    ASSUME MenuInv, NEW m \in marks, m.at = "applied", marks' = marks \ {m},
           UNCHANGED <<inbox, optimistic, mixed>>
    PROVE  MarksOK' /\ GuessOK'
  <1>1. MarksOK'
    BY DEF MenuInv, MarksOK
  <1>2. \A g : Covered(g, inbox, marks) => Covered(g, inbox, marks')
    BY DEF Covered
  <1> QED
    BY <1>1, <1>2 DEF MenuInv, GuessOK

(* Each step of a mark. *)
LEMMA MarksStep ==
    ASSUME MenuInv, NEW m \in marks,
           \/ Menu!ServerMarks(m) \/ Menu!MarkedOne(m) \/ Menu!MarkedAll(m)
           \/ Menu!Fails(m) \/ Menu!TimesOut(m)
    PROVE  MenuInv'
  <1>1. CASE Menu!MarkedOne(m)
    <2>0. m.at = "applied" /\ m.kind = "one" /\ inbox' = inbox
      BY <1>1 DEF Menu!MarkedOne
    <2>1. CASE m.what \subseteq LinkedIds
      <3>1. Menu!Leave /\ marks' = Menu!Abandoned(m)
        BY <1>1, <2>0, <2>1 DEF Menu!MarkedOne, Menu!Follows
      <3> QED
        BY <2>0, <3>1, LeaveStep DEF Menu!Abandoned
    <2>2. CASE ~(m.what \subseteq LinkedIds)
      <3>1. marks' = marks \ {m} /\ UNCHANGED <<loads, recent, optimistic, mixed>>
        BY <1>1, <2>0, <2>2 DEF Menu!MarkedOne, Menu!Follows
      <3>2. MarksOK' /\ GuessOK'
        BY <2>0, <3>1, MarkEnds
      <3> QED
        BY <2>0, <3>1, <3>2 DEF MenuInv, RecentOK, LoadsOK
    <2> QED
      BY <2>1, <2>2
  <1>2. CASE Menu!MarkedAll(m)
    <2>1. /\ m.at = "applied" /\ marks' = marks \ {m} /\ Menu!Load("mark all")
          /\ UNCHANGED <<inbox, optimistic, mixed>>
      BY <1>2 DEF Menu!MarkedAll
    <2>2. RecentOK' /\ LoadsOK'
      BY <2>1, LoadStep
    <2>3. MarksOK' /\ GuessOK'
      BY <2>1, MarkEnds
    <2> QED
      BY <2>2, <2>3 DEF MenuInv
  <1>3. CASE Menu!Fails(m)
    <2>0. inbox' = inbox /\ Menu!Missed(m)
      BY <1>3 DEF Menu!Fails, Menu!Missed
    <2>1. CASE m.kind = "one" /\ m.what \subseteq LinkedIds
      <3>1. Menu!Leave /\ marks' = Menu!Abandoned(m)
        BY <2>0, <2>1 DEF Menu!Missed, Menu!Follows
      <3> QED
        BY <2>0, <3>1, LeaveStep DEF Menu!Abandoned
    <2>2. CASE ~(m.kind = "one" /\ m.what \subseteq LinkedIds)
      <3>1. /\ marks' = marks \ {m} /\ UNCHANGED <<loads, recent>>
            /\ optimistic' = {m.previous} /\ mixed' = (mixed \/ m.amid)
        BY <2>0, <2>2 DEF Menu!Missed, Menu!Follows, Menu!Rollback
      <3> QED
        BY <2>0, <3>1, RestoreStep
    <2> QED
      BY <2>1, <2>2
  <1>4. CASE Menu!TimesOut(m)
    <2>0. inbox' = inbox
      BY <1>4 DEF Menu!TimesOut
    <2>1. CASE m.what \subseteq LinkedIds
      <3>1. Menu!Leave /\ marks' = Menu!Abandoned(m) \cup {[m EXCEPT !.at = "late"]}
        BY <1>4, <2>1 DEF Menu!TimesOut
      <3> QED
        BY <2>0, <3>1, LeaveStep DEF Menu!Abandoned
    <2>2. CASE ~(m.what \subseteq LinkedIds)
      <3>1. /\ marks' = (marks \ {m}) \cup {[m EXCEPT !.at = "late"]}
            /\ optimistic' = {m.previous} /\ mixed' = (mixed \/ m.amid)
            /\ UNCHANGED <<recent, loads>>
        BY <1>4, <2>2 DEF Menu!TimesOut, Menu!Rollback
      <3> QED
        BY <2>0, <3>1, RestoreStep
    <2> QED
      BY <2>1, <2>2
  <1> QED
    BY <1>1, <1>2, <1>3, <1>4, ServerStep

(* Notifications arrive, and are read elsewhere. *)
LEMMA InboxStep ==
    ASSUME MenuInv, NEW more, Grows(inbox, more), inbox' = more,
           UNCHANGED <<recent, optimistic, loads, marks, mixed>>
    PROVE  MenuInv'
  <1>1. \A g : Covered(g, inbox, marks) /\ Listed(g, inbox) => Covered(g, more, marks)
    BY DEF Covered, Listed, Grows
  <1> QED
    BY <1>1, Growing DEF MenuInv, RecentOK, LoadsOK, MarksOK, GuessOK

(* Each step of the menu. *)
LEMMA MenuStep == MenuInv /\ [Menu!Next]_menuVars => MenuInv'
  <1> SUFFICES ASSUME MenuInv, [Menu!Next]_menuVars PROVE MenuInv'
    OBVIOUS
  <1>1. CASE Menu!handleOpenChange \/ Menu!Retry
    <2>1. CASE Menu!Load("user")
      <3>1. UNCHANGED <<inbox, optimistic, marks, mixed>>
        BY <1>1 DEF Menu!handleOpenChange, Menu!Retry
      <3>2. RecentOK' /\ LoadsOK'
        BY <2>1, <3>1, LoadStep
      <3> QED
        BY <3>1, <3>2 DEF MenuInv, MarksOK, GuessOK
    <2>2. CASE UNCHANGED <<inbox, recent, optimistic, loads, marks, mixed>>
      BY <2>2 DEF MenuInv, RecentOK, LoadsOK, MarksOK, GuessOK
    <2> QED
      BY <1>1, <2>1, <2>2 DEF Menu!handleOpenChange, Menu!Retry
  <1>2. CASE Menu!handleMarkAllRead
    <2>1. PICK guess : guess = Menu!AllRead(Menu!displayItems)
      OBVIOUS
    <2>2. PICK what : what = DOMAIN Menu!displayItems
      OBVIOUS
    <2>3. DOMAIN guess = what
      BY <2>1, <2>2 DEF Menu!AllRead
    <2>4. Menu!Mark("all", what, guess)
      BY <1>2, <2>1, <2>2 DEF Menu!handleMarkAllRead
    <2> QED
      BY <2>2, <2>3, <2>4, MarkStep
  <1>3. ASSUME NEW i, Menu!handleNotificationClick(i) PROVE MenuInv'
    <2>1. PICK items : items = Menu!displayItems
      OBVIOUS
    <2>2. PICK guess : guess = [items EXCEPT ![i] = TRUE]
      OBVIOUS
    <2>3. /\ DOMAIN guess = DOMAIN items
          /\ \A j \in DOMAIN guess : guess[j] => items[j] \/ j \in {i}
      BY <2>2
    <2>4. Menu!Mark("one", {i}, guess)
      BY <1>3, <2>1, <2>2 DEF Menu!handleNotificationClick
    <2> QED
      BY <2>1, <2>3, <2>4, MarkStep
  <1>4. ASSUME NEW i, Menu!Visit(i) PROVE MenuInv'
    <2>1. /\ Menu!Leave /\ inbox' = inbox
          /\ \A x \in marks' : \E y \in marks : x = [y EXCEPT !.at = "late"]
      BY <1>4 DEF Menu!Visit
    <2> QED
      BY <2>1, LeaveStep
  <1>5. CASE Menu!Arrives
    <2>1. PICK i : /\ i \notin DOMAIN inbox
                   /\ inbox' = [j \in DOMAIN inbox \cup {i} |-> j # i /\ inbox[j]]
      BY <1>5 DEF Menu!Arrives
    <2>2. PICK more : more = [j \in DOMAIN inbox \cup {i} |-> j # i /\ inbox[j]]
      OBVIOUS
    <2>3. Grows(inbox, more)
      BY <2>1, <2>2 DEF Grows
    <2>4. inbox' = more /\ UNCHANGED <<recent, optimistic, loads, marks, mixed>>
      BY <1>5, <2>1, <2>2 DEF Menu!Arrives, Menu!Client
    <2> QED
      BY <2>3, <2>4, InboxStep
  <1>6. CASE Menu!ReadElsewhere
    <2>1. PICK i \in DOMAIN inbox : inbox' = [inbox EXCEPT ![i] = TRUE]
      BY <1>6 DEF Menu!ReadElsewhere, Menu!Unread
    <2>2. PICK more : more = [inbox EXCEPT ![i] = TRUE]
      OBVIOUS
    <2>3. Grows(inbox, more)
      BY <2>2 DEF Grows
    <2>4. inbox' = more /\ UNCHANGED <<recent, optimistic, loads, marks, mixed>>
      BY <1>6, <2>1, <2>2 DEF Menu!ReadElsewhere, Menu!Client
    <2> QED
      BY <2>3, <2>4, InboxStep
  <1>7. CASE Menu!Poll \/ UNCHANGED menuVars
    <2>1. UNCHANGED <<inbox, recent, optimistic, loads, marks, mixed>>
      BY <1>7 DEF Menu!Poll, Menu!Client, menuVars
    <2> QED
      BY <2>1 DEF MenuInv, RecentOK, LoadsOK, MarksOK, GuessOK
  <1> QED
    BY <1>1, <1>2, <1>3, <1>4, <1>5, <1>6, <1>7, LoadEnds, MarksStep DEF Menu!Next

LEMMA MenuTells == MenuInv => Menu!NoFalseRead
  <1> SUFFICES ASSUME MenuInv, ~mixed PROVE Menu!NoFalseRead
    BY DEF Menu!NoFalseRead
  <1>1. Covered(Menu!displayItems, inbox, marks)
    BY Displayed
  <1> QED
    BY <1>1 DEF Covered, Menu!NoFalseRead

--------------------------------------------------------------------------------
(* The plans for an App's permissions *)

RecordFields == {"label", "retired", "generation"}

(* A release as a plan can be made for it: nothing is declared twice or is an alias of itself. *)
Plannable(d, t) ==
    /\ \A e, f \in d : e.id = f.id => e = f
    /\ \A e \in d : e.aliasOf # e.id /\ (e.aliasOf # "" => e.aliasOf \in DOMAIN t)

(* What is left of a plan is enough: every declaration is there or is to come, what nobody
   declares is retired or is to be, and every operation is for one of the two. *)
Coming(e, p) == \E o \in p : o.id = e.id /\ o.label = e.label /\ o.op \in {"alias", "add", "update-display"}
Leaving(i, p) == \E o \in p : o.id = i /\ o.op = "retire"
Wanted(d) == Plans!IdsOf(d) \cup Plans!AliasedAway(d)
Enough(d, t, p) ==
    /\ \A e \in d : Coming(e, p) \/ (e.id \in DOMAIN t /\ t[e.id].label = e.label)
    /\ \A i \in DOMAIN t : t[i].retired \/ i \in Wanted(d) \/ Leaving(i, p)
    /\ \A o \in p : /\ o.op \in {"alias", "add", "update-display", "no-op", "retire"}
                    /\ o.op = "retire" => o.id \in DOMAIN t \ Wanted(d)
                    /\ o.op # "retire" => \E e \in d : o.id = e.id /\ o.label = e.label

(* What is to be replaced by an alias and was in force when the plan was made. *)
Replaced(d) == Plans!AliasedAway(d) \cap inForce

PlansInv ==
    /\ \A i \in DOMAIN table : DOMAIN table[i] = RecordFields
    /\ ~planned => plan = {}
    /\ planned => /\ Plannable(desired, table) /\ Enough(desired, table, plan)
                  /\ \A i \in Replaced(desired) : i \in DOMAIN table /\ ~table[i].retired

(* reconcilePermissions: a plan that is made is enough. *)
LEMMA MadeEnough ==
    ASSUME NEW t, NEW d, NEW g, Plans!Faults(t, d, g) = {}
    PROVE  Plannable(d, t) /\ Enough(d, t, Plans!Reconcile(t, d))
  <1>1. Plannable(d, t)
    <2>1. /\ "duplicate-permission-id" \notin Plans!Faults(t, d, g)
          /\ "alias-target-not-found" \notin Plans!Faults(t, d, g)
          /\ "self-alias" \notin Plans!Faults(t, d, g)
      OBVIOUS
    <2>2. ~ \E e, f \in d : e # f /\ e.id = f.id
      BY <2>1 DEF Plans!Faults
    <2>3. ~ \E e \in d : e.aliasOf # "" /\ e.aliasOf \notin DOMAIN t
      BY <2>1 DEF Plans!Faults
    <2>4. ~ \E e \in d : e.aliasOf = e.id
      BY <2>1 DEF Plans!Faults
    <2> QED
      BY <2>2, <2>3, <2>4 DEF Plannable
  <1>2. PICK p : p = Plans!Reconcile(t, d)
    OBVIOUS
  <1>3. /\ \A e \in d : Plans!Op(t, e) \in p
        /\ \A i \in Plans!Gone(t, d) : ~t[i].retired => [id |-> i, label |-> t[i].label, op |-> "retire"] \in p
        /\ \A o \in p : \/ \E e \in d : o = Plans!Op(t, e)
                        \/ \E i \in Plans!Gone(t, d) : o = [id |-> i, label |-> t[i].label, op |-> "retire"]
    BY <1>2 DEF Plans!Reconcile, Plans!Retirements
  <1>4. \A e : /\ Plans!Op(t, e).id = e.id /\ Plans!Op(t, e).label = e.label
               /\ Plans!Op(t, e).op \in {"alias", "add", "update-display", "no-op"}
               /\ Plans!Op(t, e).op = "no-op" => e.id \in DOMAIN t /\ t[e.id].label = e.label
    <2>1. SUFFICES ASSUME NEW e
                   PROVE  /\ Plans!Op(t, e).id = e.id /\ Plans!Op(t, e).label = e.label
                          /\ Plans!Op(t, e).op \in {"alias", "add", "update-display", "no-op"}
                          /\ Plans!Op(t, e).op = "no-op" => e.id \in DOMAIN t /\ t[e.id].label = e.label
      OBVIOUS
    <2>2. PICK is : is = IF e.aliasOf # "" THEN "alias"
                         ELSE IF e.id \notin DOMAIN t THEN "add"
                         ELSE IF t[e.id].label # e.label THEN "update-display" ELSE "no-op"
      OBVIOUS
    <2>3. Plans!Op(t, e) = [id |-> e.id, label |-> e.label, op |-> is]
      BY <2>2 DEF Plans!Op
    <2>4. Plans!Op(t, e).id = e.id /\ Plans!Op(t, e).label = e.label /\ Plans!Op(t, e).op = is
      BY <2>3
    <2>5. is \in {"alias", "add", "update-display", "no-op"}
      BY <2>2
    <2>6. is = "no-op" => e.id \in DOMAIN t /\ t[e.id].label = e.label
      BY <2>2
    <2> QED
      BY <2>4, <2>5, <2>6
  <1>5. Plans!Gone(t, d) = DOMAIN t \ Wanted(d)
    BY DEF Plans!Gone, Wanted
  <1>6. \A e \in d : Coming(e, p) \/ (e.id \in DOMAIN t /\ t[e.id].label = e.label)
    BY <1>3, <1>4 DEF Coming
  <1>7. \A i \in DOMAIN t : t[i].retired \/ i \in Wanted(d) \/ Leaving(i, p)
    <2>1. SUFFICES ASSUME NEW i \in DOMAIN t, ~t[i].retired, i \notin Wanted(d) PROVE Leaving(i, p)
      OBVIOUS
    <2>2. PICK o : o = [id |-> i, label |-> t[i].label, op |-> "retire"]
      OBVIOUS
    <2>3. o \in p
      BY <1>3, <1>5, <2>1, <2>2
    <2>4. o.id = i /\ o.op = "retire"
      BY <2>2
    <2> QED
      BY <2>3, <2>4 DEF Leaving
  <1>8. ASSUME NEW o \in p
        PROVE  /\ o.op \in {"alias", "add", "update-display", "no-op", "retire"}
               /\ o.op = "retire" => o.id \in DOMAIN t \ Wanted(d)
               /\ o.op # "retire" => \E e \in d : o.id = e.id /\ o.label = e.label
    BY <1>3, <1>4, <1>5
  <1> QED
    BY <1>1, <1>2, <1>6, <1>7, <1>8 DEF Enough

(* The adapter carries out one operation. *)
LEMMA ApplyStep == PlansInv /\ Plans!Apply => PlansInv'
  <1> SUFFICES ASSUME PlansInv, Plans!Apply PROVE PlansInv'
    OBVIOUS
  <1>1. PICK o \in plan : /\ plan' = plan \ {o}
                          /\ table' = IF o.op = "no-op" THEN table
                                      ELSE [i \in DOMAIN table \cup {o.id} |->
                                               IF i = o.id THEN Plans!Record(o) ELSE table[i]]
    BY DEF Plans!Apply, Plans!Known
  <1>2. UNCHANGED <<desired, planned, inForce>> /\ planned
    BY <1>1 DEF Plans!Apply, PlansInv
  <1>3. Plannable(desired, table) /\ Enough(desired, table, plan)
    BY <1>2 DEF PlansInv
  <1>0. \A i \in Replaced(desired)' : i \in DOMAIN table' /\ ~table'[i].retired
    <2>1. Replaced(desired)' = Replaced(desired)
      BY <1>2 DEF Replaced, Plans!AliasedAway
    <2>2. \A i \in Replaced(desired) : i \in DOMAIN table /\ ~table[i].retired
      BY <1>2 DEF PlansInv
    <2>3. ASSUME o.id \in Replaced(desired) PROVE ~Plans!Record(o).retired
      <3>1. o.id \in DOMAIN table /\ ~table[o.id].retired /\ o.op # "retire"
        BY <1>3, <2>2, <2>3 DEF Enough, Wanted, Replaced
      <3> QED
        BY <3>1 DEF Plans!Record, Plans!Known
    <2> QED
      BY <1>1, <2>1, <2>2, <2>3
  <1>4. PICK w, t, d, p : w = Plans!Record(o) /\ t = table' /\ d = desired /\ p = plan'
    OBVIOUS
  <1>5. CASE o.op = "no-op"
    <2>1. t = table /\ p = plan \ {o}
      BY <1>1, <1>4, <1>5
    <2>2. Enough(d, t, p)
      <3>1. \A e : Coming(e, plan) => Coming(e, p)
        BY <1>5, <2>1 DEF Coming
      <3>2. \A i : Leaving(i, plan) => Leaving(i, p)
        BY <1>5, <2>1 DEF Leaving
      <3> QED
        BY <1>3, <1>4, <2>1, <3>1, <3>2 DEF Enough
    <2> QED
      BY <1>0, <1>2, <1>3, <1>4, <2>1, <2>2 DEF PlansInv
  <1>6. CASE o.op = "retire"
    <2>1. o.id \in DOMAIN table \ Wanted(d)
      BY <1>3, <1>4, <1>6 DEF Enough
    <2>2. w = [table[o.id] EXCEPT !.retired = TRUE, !.generation = target]
      BY <1>4, <1>6 DEF Plans!Record
    <2>3. DOMAIN w = RecordFields /\ w.retired
      BY <2>1, <2>2 DEF PlansInv, RecordFields
    <2>4. /\ DOMAIN t = DOMAIN table /\ p = plan \ {o}
          /\ \A i \in DOMAIN t : t[i] = IF i = o.id THEN w ELSE table[i]
      BY <1>1, <1>4, <1>6, <2>1
    <2>5. \A e \in d : e.id # o.id /\ (Coming(e, plan) => Coming(e, p))
      BY <2>1, <2>4 DEF Wanted, Plans!IdsOf, Coming
    <2>6. \A i : i # o.id => (Leaving(i, plan) => Leaving(i, p))
      BY <2>4 DEF Leaving
    <2>7. Plannable(d, t)
      BY <1>3, <1>4, <2>4 DEF Plannable
    <2>8. /\ \A e \in d : Coming(e, plan) \/ (e.id \in DOMAIN table /\ table[e.id].label = e.label)
          /\ \A i \in DOMAIN table : table[i].retired \/ i \in Wanted(d) \/ Leaving(i, plan)
          /\ \A q \in plan : /\ q.op \in {"alias", "add", "update-display", "no-op", "retire"}
                             /\ q.op = "retire" => q.id \in DOMAIN table \ Wanted(d)
                             /\ q.op # "retire" => \E e \in d : q.id = e.id /\ q.label = e.label
      BY <1>3, <1>4 DEF Enough
    <2>9. \A e \in d : Coming(e, p) \/ (e.id \in DOMAIN t /\ t[e.id].label = e.label)
      BY <2>4, <2>5, <2>8
    <2>10. \A i \in DOMAIN t : t[i].retired \/ i \in Wanted(d) \/ Leaving(i, p)
      BY <2>3, <2>4, <2>6, <2>8
    <2>11. Enough(d, t, p)
      BY <2>4, <2>8, <2>9, <2>10 DEF Enough
    <2>12. \A i \in DOMAIN t : DOMAIN t[i] = RecordFields
      BY <2>3, <2>4 DEF PlansInv
    <2> QED
      BY <1>0, <1>2, <1>4, <2>7, <2>11, <2>12 DEF PlansInv
  <1>7. CASE o.op \notin {"no-op", "retire"}
    <2>1. PICK e \in d : o.id = e.id /\ o.label = e.label
      BY <1>3, <1>4, <1>7 DEF Enough
    <2>2. w = [label |-> o.label, retired |-> o.id \in DOMAIN table /\ table[o.id].retired, generation |-> target]
      BY <1>4, <1>7 DEF Plans!Record, Plans!Known
    <2>3. DOMAIN w = RecordFields /\ w.label = e.label
      BY <2>1, <2>2 DEF RecordFields
    <2>4. /\ DOMAIN t = DOMAIN table \cup {o.id} /\ p = plan \ {o}
          /\ \A i \in DOMAIN t : t[i] = IF i = o.id THEN w ELSE table[i]
      BY <1>1, <1>4, <1>7
    <2>5. \A f \in d : f.id = o.id => f = e
      BY <1>3, <1>4, <2>1 DEF Plannable
    <2>6. \A f \in d : f.id # o.id /\ Coming(f, plan) => Coming(f, p)
      BY <2>4 DEF Coming
    <2>7. \A i : Leaving(i, plan) => Leaving(i, p)
      BY <1>7, <2>4 DEF Leaving
    <2>8. Plannable(d, t)
      BY <1>3, <1>4, <2>4 DEF Plannable
    <2>9. /\ \A f \in d : Coming(f, plan) \/ (f.id \in DOMAIN table /\ table[f.id].label = f.label)
          /\ \A i \in DOMAIN table : table[i].retired \/ i \in Wanted(d) \/ Leaving(i, plan)
          /\ \A q \in plan : /\ q.op \in {"alias", "add", "update-display", "no-op", "retire"}
                             /\ q.op = "retire" => q.id \in DOMAIN table \ Wanted(d)
                             /\ q.op # "retire" => \E f \in d : q.id = f.id /\ q.label = f.label
      BY <1>3, <1>4 DEF Enough
    <2>10. \A f \in d : Coming(f, p) \/ (f.id \in DOMAIN t /\ t[f.id].label = f.label)
      BY <2>1, <2>3, <2>4, <2>5, <2>6, <2>9
    <2>11. o.id \in Wanted(d)
      BY <2>1 DEF Wanted, Plans!IdsOf
    <2>12. \A i \in DOMAIN t : t[i].retired \/ i \in Wanted(d) \/ Leaving(i, p)
      BY <2>4, <2>7, <2>9, <2>11
    <2>13. Enough(d, t, p)
      BY <2>4, <2>9, <2>10, <2>12 DEF Enough
    <2>14. \A i \in DOMAIN t : DOMAIN t[i] = RecordFields
      BY <2>3, <2>4 DEF PlansInv
    <2> QED
      BY <1>0, <1>2, <1>4, <2>8, <2>13, <2>14 DEF PlansInv
  <1> QED
    BY <1>5, <1>6, <1>7

LEMMA PlansStep == ASSUME PlansInv, Plans!Next \/ UNCHANGED planVars PROVE PlansInv'
  <1>1. CASE Plans!Release \/ Plans!RollBack \/ Plans!Stop
    <2>1. plan' = {} /\ planned' = FALSE /\ table' = table
      BY <1>1 DEF Plans!Release, Plans!RollBack, Plans!Stop, Plans!NoPlan
    <2> QED
      BY <2>1 DEF PlansInv
  <1>2. CASE Plans!MakePlan
    <2>1. /\ refused' = Plans!Faults(table, desired, target)
          /\ plan' = IF refused' = {} THEN Plans!Reconcile(table, desired) ELSE {}
          /\ planned' = (refused' = {}) /\ UNCHANGED <<table, desired, target>>
          /\ refused' = {} => inForce' = {i \in DOMAIN table : ~table[i].retired}
      BY <1>2 DEF Plans!MakePlan, Plans!Known
    <2>2. CASE refused' = {}
      <3>1. Plannable(desired, table) /\ Enough(desired, table, plan')
        BY <2>1, <2>2, MadeEnough
      <3>2. \A i \in Replaced(desired)' : i \in DOMAIN table /\ ~table[i].retired
        BY <2>1, <2>2 DEF Replaced
      <3> QED
        BY <2>1, <2>2, <3>1, <3>2 DEF PlansInv
    <2>3. CASE refused' # {}
      BY <2>1, <2>3 DEF PlansInv
    <2> QED
      BY <2>2, <2>3
  <1>3. CASE Plans!Apply
    BY <1>3, ApplyStep
  <1>4. CASE Plans!HandEdit \/ UNCHANGED planVars
    <2>1. UNCHANGED <<table, desired, plan, planned, inForce>>
      BY <1>4 DEF Plans!HandEdit, planVars
    <2>2. Replaced(desired)' = Replaced(desired)
      BY <2>1 DEF Replaced, Plans!AliasedAway
    <2> QED
      BY <2>1, <2>2 DEF PlansInv
  <1> QED
    BY <1>1, <1>2, <1>3, <1>4 DEF Plans!Next

(* reconcilePermissions and the frozen reconcile give a declared permission the same row. *)
LEMMA RowsAgree ==
    ASSUME NEW t, NEW d, NEW e \in d
    PROVE  Plans!Op(t, e) \in Plans!FrozenPlan(t, d)
  <1>1. CASE e.aliasOf # ""
    BY <1>1 DEF Plans!Op, Plans!FrozenPlan
  <1>2. CASE e.aliasOf = "" /\ e.id \notin DOMAIN t
    BY <1>2 DEF Plans!Op, Plans!FrozenPlan
  <1>3. CASE e.aliasOf = "" /\ e.id \in DOMAIN t /\ t[e.id].label # e.label
    BY <1>3 DEF Plans!Op, Plans!FrozenPlan
  <1>4. CASE e.aliasOf = "" /\ e.id \in DOMAIN t /\ t[e.id].label = e.label
    BY <1>4 DEF Plans!Op, Plans!FrozenPlan
  <1> QED
    BY <1>1, <1>2, <1>3, <1>4

(* Both retire what nobody declares or replaces, the package only what is not retired yet; beside
   that the frozen plan has no row that the package's has not. *)
LEMMA RetiredAlike ==
    ASSUME NEW t, NEW d
    PROVE  /\ Plans!Retirements(t, d) \subseteq Plans!FrozenPlan(t, d)
           /\ \A o \in Plans!FrozenPlan(t, d) \ Plans!Reconcile(t, d) :
                 o.op = "retire" /\ t[o.id].retired
  <1> DEFINE retire(i) == [id |-> i, label |-> t[i].label, op |-> "retire"]
             renamed == {e \in d : e.aliasOf # ""}
             absent == {i \in DOMAIN t : (\A e \in d : e.id # i) /\ (\A e \in renamed : e.aliasOf # i)}
  <1>1. absent = Plans!Gone(t, d)
    BY DEF Plans!Gone, Plans!IdsOf, Plans!AliasedAway
  <1>2. {retire(i) : i \in absent} \subseteq Plans!FrozenPlan(t, d)
    BY DEF Plans!FrozenPlan
  <1>3. Plans!Retirements(t, d) = {retire(i) : i \in {q \in absent : ~t[q].retired}}
    BY <1>1 DEF Plans!Retirements
  <1>4. ASSUME NEW o \in Plans!FrozenPlan(t, d), o \notin {retire(i) : i \in absent}
        PROVE  \E e \in d : o = Plans!Op(t, e)
    <2> DEFINE known == {e \in d \ renamed : e.id \in DOMAIN t}
               same == {e \in known : t[e.id].label = e.label}
               entry(e, is) == [id |-> e.id, label |-> e.label, op |-> is]
    <2>1. \/ \E e \in renamed : o = entry(e, "alias")
          \/ \E e \in (d \ renamed) \ known : o = entry(e, "add")
          \/ \E e \in known \ same : o = entry(e, "update-display")
          \/ \E e \in same : o = entry(e, "no-op")
      BY <1>4 DEF Plans!FrozenPlan
    <2> QED
      BY <2>1 DEF Plans!Op
  <1>5. ASSUME NEW o \in Plans!FrozenPlan(t, d), o \notin Plans!Reconcile(t, d)
        PROVE  o.op = "retire" /\ t[o.id].retired
    <2>1. PICK i \in absent : o = retire(i)
      BY <1>4, <1>5 DEF Plans!Reconcile
    <2>2. o.id = i /\ o.op = "retire"
      BY <2>1
    <2>3. t[i].retired
      BY <1>3, <1>5, <2>1 DEF Plans!Reconcile
    <2> QED
      BY <2>2, <2>3
  <1> HIDE DEF absent, retire
  <1>6. Plans!Retirements(t, d) \subseteq Plans!FrozenPlan(t, d)
    BY <1>2, <1>3
  <1> QED
    BY <1>5, <1>6

(* The codes that the one reports and the other does not. *)
LEMMA CodesApart ==
    ASSUME NEW t, NEW d, NEW g, NEW again
    PROVE  /\ Plans!FrozenFaults(t, again, d, g) \ Plans!Faults(t, d, g)
                  \subseteq (IF again THEN {"duplicate-permission-id"} ELSE {})
           /\ Plans!Faults(t, d, g) \ Plans!FrozenFaults(t, again, d, g) \subseteq
                  {"self-alias"} \cup (IF Plans!FrozenUpFront(t, again, d, g) # {}
                                     THEN {"alias-target-not-found"} ELSE {})
  <1> DEFINE down == Plans!Newest(t) > g
             dup == \E e, f \in d : e # f /\ e.id = f.id
             lost == \E e \in d : e.aliasOf # "" /\ e.aliasOf \notin DOMAIN t
             self == \E e \in d : e.aliasOf = e.id
  <1>1. Plans!Faults(t, d, g) =
            (IF down THEN {"downgrade-blocked"} ELSE {})
            \cup (IF dup THEN {"duplicate-permission-id"} ELSE {})
            \cup (IF lost THEN {"alias-target-not-found"} ELSE {})
            \cup (IF self THEN {"self-alias"} ELSE {})
    BY DEF Plans!Faults
  <1>2. (\E e \in d : \E f \in d \ {e} : f.id = e.id) <=> dup
    OBVIOUS
  <1>3. (\E e \in d : e.aliasOf \notin DOMAIN t \cup {""}) <=> lost
    OBVIOUS
  <1>4. Plans!FrozenUpFront(t, again, d, g) =
            (IF again \/ dup THEN {"duplicate-permission-id"} ELSE {})
            \cup (IF down THEN {"downgrade-blocked"} ELSE {})
    BY <1>2 DEF Plans!FrozenUpFront
  <1>5. Plans!FrozenFaults(t, again, d, g) =
            IF Plans!FrozenUpFront(t, again, d, g) # {} THEN Plans!FrozenUpFront(t, again, d, g)
            ELSE IF lost THEN {"alias-target-not-found"} ELSE {}
    BY <1>3 DEF Plans!FrozenFaults
  <1> HIDE DEF down, dup, lost, self
  <1>6. CASE Plans!FrozenUpFront(t, again, d, g) = {}
    <2>1. ~down /\ ~dup
      BY <1>4, <1>6
    <2> QED
      BY <1>1, <1>5, <1>6, <2>1
  <1>7. CASE Plans!FrozenUpFront(t, again, d, g) # {}
    <2>1. Plans!FrozenFaults(t, again, d, g) = Plans!FrozenUpFront(t, again, d, g)
      BY <1>5, <1>7
    <2> QED
      BY <1>1, <1>4, <1>7, <2>1
  <1> QED
    BY <1>6, <1>7

LEMMA PlansTell == PlansInv => Plans!AppliedPlanSettles /\ Plans!AsFrozen
  <1> SUFFICES ASSUME PlansInv PROVE Plans!AppliedPlanSettles /\ Plans!AsFrozen
    OBVIOUS
  <1>1. PICK t, d : t = table /\ d = desired
    OBVIOUS
  <1>2. \A o \in Plans!Retirements(t, d) : \E i \in Plans!Gone(t, d) :
           ~t[i].retired /\ o = [id |-> i, label |-> t[i].label, op |-> "retire"]
    BY DEF Plans!Retirements
  <1>3. ASSUME planned, plan = {}
        PROVE  /\ \A o \in Plans!Reconcile(t, d) : o.op \in {"no-op", "alias"}
               /\ \A e \in d : e.id \in DOMAIN t /\ t[e.id].label = e.label
               /\ \A i \in DOMAIN t : ~t[i].retired => i \in Wanted(d)
    <2>1. /\ \A e \in d : e.id \in DOMAIN t /\ t[e.id].label = e.label
          /\ \A i \in DOMAIN t : t[i].retired \/ i \in Wanted(d)
      BY <1>1, <1>3 DEF PlansInv, Enough, Coming, Leaving
    <2>2. Plans!Retirements(t, d) = {}
      BY <1>2, <2>1 DEF Plans!Gone, Wanted
    <2>3. \A e \in d : Plans!Op(t, e).op \in {"no-op", "alias"}
      BY <2>1 DEF Plans!Op
    <2> QED
      BY <2>1, <2>2, <2>3 DEF Plans!Reconcile
  <1>4. planned => \A i \in Plans!AliasedAway(desired) \cap inForce : ~table[i].retired
    BY DEF PlansInv, Replaced
  <1>5. Plans!AppliedPlanSettles
    BY <1>1, <1>3, <1>4 DEF Plans!AppliedPlanSettles, Plans!Known, Wanted
  <1>6. Plans!Reconcile(t, d) \subseteq Plans!FrozenPlan(t, d)
    BY RowsAgree, RetiredAlike DEF Plans!Reconcile
  <1>7. Plans!AsFrozen
    BY <1>1, <1>6, RetiredAlike, CodesApart DEF Plans!AsFrozen
  <1> QED
    BY <1>5, <1>7

--------------------------------------------------------------------------------
(* The loader of manifests *)

LoaderInv ==
    /\ DOMAIN pkg = {"manifest", "version", "packageJson", "file"} /\ pkg.manifest \in LoaderManifests
    /\ pkg.packageJson \in {"good", "missing", "not JSON", "no version"}
    /\ pkg.file \in {"good", "missing", "not JSON"}
    /\ pin = Loader!NoPin \/ pin = Loader!Digest(pinned)
    /\ Loader!FrozenCodesKept /\ Loader!PinDetectsChange

LEMMA DigestsDiffer ==
    \A p, q : /\ Loader!Digest(p) # Loader!NoPin
              /\ Loader!Digest(p) = Loader!Digest(q) => p.manifest = q.manifest /\ p.version = q.version
  <1> SUFFICES ASSUME NEW p, NEW q
               PROVE  /\ Loader!Digest(p) # Loader!NoPin
                      /\ Loader!Digest(p) = Loader!Digest(q) => p.manifest = q.manifest /\ p.version = q.version
    OBVIOUS
  <1>1. /\ Loader!Digest(p).manifest = {p.manifest} /\ Loader!Digest(p).version = p.version
        /\ Loader!Digest(q).manifest = {q.manifest} /\ Loader!Digest(q).version = q.version
        /\ Loader!NoPin.manifest = {}
    BY DEF Loader!Digest, Loader!NoPin
  <1>2. {p.manifest} # {} /\ ({p.manifest} = {q.manifest} => p.manifest = q.manifest)
    OBVIOUS
  <1> QED
    BY <1>1, <1>2

(* LoaderCode and the frozen checker's codes: where the index expects one, they are the same. *)
LEMMA CodesAgree ==
    ASSUME NEW m \in LoaderManifests, NEW x \in m.broken, Loader!FrozenCode(x) \in Loader!IndexCodes
    PROVE  Loader!LoaderCode(x) = Loader!FrozenCode(x)
  <1>1. x.keyword = "minProperties" => x.at = "facets"
    BY ManifestAssumption
  <1>2. CASE x.keyword \in {"required", "additionalProperties", "minProperties"}
    BY <1>1, <1>2 DEF Loader!LoaderCode, Loader!FrozenCode
  <1>3. CASE x.keyword = "pattern" /\ x.at = "engine"
    BY <1>3 DEF Loader!LoaderCode, Loader!FrozenCode
  <1>4. CASE /\ x.keyword \notin {"required", "additionalProperties", "minProperties"}
             /\ ~(x.keyword = "pattern" /\ x.at = "engine")
    BY <1>4 DEF Loader!FrozenCode, Loader!IndexCodes
  <1> QED
    BY <1>2, <1>3, <1>4

(* A rule that the frozen checker applies, to a list that the loader reads, the loader applies. *)
LEMMA RulesApplied ==
    ASSUME NEW m, NEW code \in Loader!FrozenRules(m), code \notin Loader!Unread(m)
    PROVE  Loader!Error(code) \in Loader!KeptRules(m)
  <1>1. CASE code = "interactive-provider-without-conflicts"
    <2>1. /\ "INTERACTIVE" \in m.provides /\ m.conflicts = {}
          /\ Loader!NoString("provides") \notin m.broken /\ Loader!NoString("conflicts") \notin m.broken
      BY <1>1 DEF Loader!FrozenRules, Loader!Unread, Loader!When
    <2>2. "INTERACTIVE" \in Loader!Strings(m, "provides") /\ Loader!Strings(m, "conflicts") = {}
      BY <2>1 DEF Loader!Strings
    <2> QED
      BY <1>1, <2>2 DEF Loader!KeptRules, Loader!When
  <1>2. CASE code = "self-conflict"
    <2>1. "self" \in m.conflicts /\ Loader!NoString("conflicts") \notin m.broken
      BY <1>2 DEF Loader!FrozenRules, Loader!Unread, Loader!When
    <2> QED
      BY <1>2, <2>1 DEF Loader!KeptRules, Loader!Strings, Loader!When
  <1>3. CASE code = "replacement-not-app-local"
    BY <1>3 DEF Loader!FrozenRules, Loader!KeptRules, Loader!When
  <1>4. CASE code = "secret-field-not-marked-secret"
    BY <1>4 DEF Loader!FrozenRules, Loader!KeptRules, Loader!When
  <1>5. code \in {"interactive-provider-without-conflicts", "self-conflict",
                  "replacement-not-app-local", "secret-field-not-marked-secret"}
    BY DEF Loader!FrozenRules, Loader!When
  <1> QED
    BY <1>1, <1>2, <1>3, <1>4, <1>5

LEMMA RulesKept ==
    ASSUME NEW m \in LoaderManifests, NEW strict, NEW ds, Loader!Complaints(m, strict) \subseteq ds
    PROVE  (Loader!FrozenCodes(m) \cap Loader!IndexCodes) \ Loader!Unread(m) \subseteq {e.code : e \in ds}
  <1>1. Loader!Structural(m) \subseteq ds /\ Loader!KeptRules(m) \subseteq ds
    BY DEF Loader!Complaints, Loader!Semantic
  <1>2. \A code : Loader!Error(code).code = code
    BY DEF Loader!Error
  <1>3. ASSUME NEW x \in m.broken, Loader!FrozenCode(x) \in Loader!IndexCodes
        PROVE  Loader!FrozenCode(x) \in {e.code : e \in ds}
    <2>1. Loader!Error(Loader!FrozenCode(x)) \in ds
      BY <1>1, <1>3, CodesAgree DEF Loader!Structural
    <2> QED
      BY <1>2, <2>1
  <1>4. ASSUME NEW code \in Loader!FrozenRules(m), code \notin Loader!Unread(m)
        PROVE  code \in {e.code : e \in ds}
    <2>1. Loader!Error(code) \in ds
      BY <1>1, <1>4, RulesApplied
    <2> QED
      BY <1>2, <2>1
  <1> QED
    BY <1>3, <1>4 DEF Loader!FrozenCodes

LEMMA RulesAreErrors ==
    ASSUME NEW m PROVE \A e \in Loader!KeptRules(m) : e.severity = "error"
  <1>1. \A e \in Loader!KeptRules(m) : \E code : e = Loader!Error(code)
    <2> SUFFICES ASSUME NEW e \in Loader!KeptRules(m) PROVE \E code : e = Loader!Error(code)
      OBVIOUS
    <2>1. e \in {Loader!Error("interactive-provider-without-conflicts"), Loader!Error("self-conflict"),
                Loader!Error("replacement-not-app-local"), Loader!Error("secret-field-not-marked-secret")}
      BY DEF Loader!KeptRules, Loader!When
    <2> QED
      BY <2>1
  <1>2. \A code : Loader!Error(code).severity = "error"
    BY DEF Loader!Error
  <1> QED
    BY <1>1, <1>2

(* parsePluginManifest: what is accepted breaks no frozen rule, and what is refused is told. *)
LEMMA ParseTells ==
    ASSUME NEW p, p.manifest \in LoaderManifests, NEW host, NEW strict, NEW expected,
           NEW answer, answer = Loader!Parse(p, host, strict, expected), answer.kind # "threw"
    PROVE  /\ (Loader!FrozenCodes(p.manifest) \cap Loader!IndexCodes) \ Loader!Unread(p.manifest)
                 \subseteq {e.code : e \in answer.diagnostics}
           /\ answer.kind = "ok" => Loader!FrozenCodes(p.manifest) = {}
           /\ answer.kind = "ok" /\ expected # Loader!NoPin => expected = Loader!Digest(p)
  <1>1. PICK m, found : /\ m = p.manifest
                        /\ found = Loader!Complaints(m, strict) \cup Loader!Engine(m, host)
                             \cup Loader!When(expected # Loader!NoPin /\ expected # Loader!Digest(p),
                                              Loader!Error("manifest-digest-mismatch"))
    OBVIOUS
  <1>2. answer = IF Loader!SemanticThrows(m) THEN Loader!Answer("threw", {})
                 ELSE IF m.broken # {} THEN Loader!Refused(Loader!Complaints(m, strict))
                 ELSE IF Loader!Errors(found) # {} THEN Loader!Refused(found)
                 ELSE Loader!Answer("ok", found)
    BY <1>1 DEF Loader!Parse
  <1>3. \A kind, ds : Loader!Answer(kind, ds).kind = kind /\ Loader!Answer(kind, ds).diagnostics = ds
    BY DEF Loader!Answer
  <1>4. ~Loader!SemanticThrows(m)
    BY <1>2, <1>3
  <1>5. CASE m.broken # {}
    <2>1. answer.kind = "refused" /\ answer.diagnostics = Loader!Complaints(m, strict)
      BY <1>2, <1>3, <1>4, <1>5 DEF Loader!Refused
    <2> QED
      BY <1>1, <2>1, RulesKept
  <1>6. CASE m.broken = {} /\ Loader!Errors(found) # {}
    <2>1. answer.kind = "refused" /\ answer.diagnostics = found
      BY <1>2, <1>3, <1>4, <1>6 DEF Loader!Refused
    <2> QED
      BY <1>1, <2>1, RulesKept
  <1>7. CASE m.broken = {} /\ Loader!Errors(found) = {}
    <2>1. answer.kind = "ok" /\ answer.diagnostics = found
      BY <1>2, <1>3, <1>4, <1>7
    <2>2. \A e \in found : e.severity # "error"
      BY <1>7 DEF Loader!Errors
    <2>3. Loader!FrozenRules(m) = {}
      <3>1. Loader!KeptRules(m) = {}
        BY <1>1, <2>2, RulesAreErrors DEF Loader!Complaints, Loader!Semantic
      <3>2. Loader!Unread(m) = {}
        BY <1>7 DEF Loader!Unread, Loader!When
      <3> QED
        BY <3>1, <3>2, RulesApplied
    <2>4. Loader!FrozenCodes(m) = {}
      BY <1>7, <2>3 DEF Loader!FrozenCodes
    <2>5. expected # Loader!NoPin => expected = Loader!Digest(p)
      <3>1. Loader!Error("manifest-digest-mismatch").severity = "error"
        BY DEF Loader!Error
      <3> QED
        BY <1>1, <2>2, <3>1 DEF Loader!When
    <2> QED
      BY <1>1, <2>1, <2>4, <2>5, RulesKept
  <1> QED
    BY <1>5, <1>6, <1>7

LEMMA LoadingStep ==
    ASSUME LoaderInv, NEW host, NEW strict, NEW expected \in {pin, Loader!NoPin},
           Loader!Load(host, strict, expected)
    PROVE  LoaderInv'
  <1>1. PICK answer : answer = Loader!Loaded(pkg, host, strict, expected)
    OBVIOUS
  <1>2. /\ result' = [answer EXCEPT !.expected = expected]
        /\ pin' = IF answer.kind = "ok" /\ pin = Loader!NoPin THEN Loader!Digest(pkg) ELSE pin
        /\ pinned' = IF answer.kind = "ok" /\ pin = Loader!NoPin THEN pkg ELSE pinned
        /\ pkg' = pkg
    BY <1>1 DEF Loader!Load
  <1>3. \A ds : /\ DOMAIN Loader!Refused(ds) = {"kind", "diagnostics", "expected"} /\ Loader!Refused(ds).kind = "refused"
                /\ DOMAIN Loader!Answer("ok", ds) = {"kind", "diagnostics", "expected"}
                /\ DOMAIN Loader!Answer("threw", ds) = {"kind", "diagnostics", "expected"}
    BY DEF Loader!Refused, Loader!Answer
  <1>4. CASE Loader!Readable
    <2>1. answer = Loader!Parse(pkg, host, strict, expected)
      BY <1>1, <1>4 DEF Loader!Loaded, Loader!Readable
    <2>2. answer.kind # "threw" =>
             /\ (Loader!FrozenCodes(pkg.manifest) \cap Loader!IndexCodes) \ Loader!Unread(pkg.manifest)
                   \subseteq {e.code : e \in answer.diagnostics}
             /\ answer.kind = "ok" => Loader!FrozenCodes(pkg.manifest) = {}
             /\ answer.kind = "ok" /\ expected # Loader!NoPin => expected = Loader!Digest(pkg)
      BY <2>1, ParseTells DEF LoaderInv
    <2>3. DOMAIN answer = {"kind", "diagnostics", "expected"}
      BY <1>3, <2>1 DEF Loader!Parse
    <2>4. result'.kind = answer.kind /\ result'.diagnostics = answer.diagnostics /\ result'.expected = expected
      BY <1>2, <2>3
    <2>5. Loader!FrozenCodesKept'
      BY <1>2, <2>2, <2>4 DEF Loader!FrozenCodesKept
    <2>6. Loader!PinDetectsChange'
      <3>1. SUFFICES ASSUME answer.kind = "ok", expected # Loader!NoPin
                     PROVE  pkg.manifest = pinned'.manifest /\ pkg.version = pinned'.version
        BY <1>2, <2>4 DEF Loader!PinDetectsChange
      <3>2. expected = pin /\ pin = Loader!Digest(pinned) /\ expected = Loader!Digest(pkg)
        BY <2>2, <3>1 DEF LoaderInv
      <3>3. pinned' = pinned
        BY <1>2, <3>1, <3>2
      <3> QED
        BY <3>2, <3>3, DigestsDiffer
    <2> QED
      BY <1>2, <2>5, <2>6 DEF LoaderInv
  <1>5. CASE ~Loader!Readable
    <2>1. answer.kind # "ok" /\ DOMAIN answer = {"kind", "diagnostics", "expected"}
      <3>1. \E ds : answer = Loader!Refused(ds)
        BY <1>1, <1>5 DEF Loader!Loaded, Loader!Readable, LoaderInv
      <3> QED
        BY <1>3, <3>1
    <2>2. result'.kind = answer.kind
      BY <1>2, <2>1
    <2> QED
      BY <1>2, <1>5, <2>1, <2>2 DEF LoaderInv, Loader!FrozenCodesKept, Loader!PinDetectsChange,
         Loader!Readable
  <1> QED
    BY <1>4, <1>5

LEMMA LoaderStart == Loader!Init => LoaderInv
  <1> SUFFICES ASSUME Loader!Init PROVE LoaderInv
    OBVIOUS
  <1>1. result.kind = "none" /\ pin = Loader!NoPin
    BY DEF Loader!Init, Loader!Answer
  <1>2. DOMAIN pkg = {"manifest", "version", "packageJson", "file"} /\ pkg.manifest \in LoaderManifests
        /\ pkg.packageJson = "good" /\ pkg.file = "good"
    BY DEF Loader!Init
  <1> QED
    BY <1>1, <1>2 DEF LoaderInv, Loader!FrozenCodesKept, Loader!PinDetectsChange

LEMMA LoaderStep == ASSUME LoaderInv, Loader!Next \/ UNCHANGED loaderVars PROVE LoaderInv'
  <1>1. CASE Loader!Edit
    <2>1. result' = Loader!Answer("none", {}) /\ UNCHANGED <<pin, pinned>>
      BY <1>1 DEF Loader!Edit
    <2>2. DOMAIN pkg' = {"manifest", "version", "packageJson", "file"} /\ pkg'.manifest \in LoaderManifests
          /\ pkg'.packageJson \in {"good", "missing", "not JSON", "no version"}
          /\ pkg'.file \in {"good", "missing", "not JSON"}
      BY <1>1 DEF Loader!Edit, LoaderInv
    <2>3. result'.kind = "none"
      BY <2>1 DEF Loader!Answer
    <2> QED
      BY <2>1, <2>2, <2>3 DEF LoaderInv, Loader!FrozenCodesKept, Loader!PinDetectsChange
  <1>2. CASE \E host \in LoaderHosts, strict \in BOOLEAN, expected \in {pin, Loader!NoPin} :
                 Loader!Load(host, strict, expected)
    BY <1>2, LoadingStep
  <1>3. CASE \E e \in LoaderParts : Loader!Define(e)
    <2>1. result' = Loader!Answer("none", {}) /\ UNCHANGED <<pkg, pin, pinned>>
      BY <1>3 DEF Loader!Define
    <2>2. result'.kind = "none"
      BY <2>1 DEF Loader!Answer
    <2> QED
      BY <2>1, <2>2 DEF LoaderInv, Loader!FrozenCodesKept, Loader!PinDetectsChange
  <1>4. CASE UNCHANGED loaderVars
    BY <1>4 DEF loaderVars, LoaderInv, Loader!FrozenCodesKept, Loader!PinDetectsChange,
       Loader!Readable
  <1> QED
    BY <1>1, <1>2, <1>3, <1>4 DEF Loader!Next

--------------------------------------------------------------------------------
(* The drift checks *)

FieldKinds == {"fields", "typed", "optional", "mapped", "list", "id", "default", "relation",
               "updatedAt", "unique", "table"}

(* What the checks expect of a model, and what a check that was green said of an App's. *)
AsExpected(w, m) ==
    /\ \A f \in Drift!Expected[m].fields :
          f \in w.fields /\ \A x \in Drift!Compared(m) : f \in Drift!Expected[m][x] <=> f \in w[x]
    /\ Drift!Expected[m].unique \subseteq w.unique
    /\ m # "Notification" => w.table = {"documented"}

(* A model of the App has the fields that are expected, or fewer, and one of its own. *)
Drawn(w, m) == DOMAIN w = FieldKinds /\ w.fields \subseteq Drift!Expected[m].fields \cup {"own"}

LEMMA ModelsAre ==
    /\ Drift!Models = {"DomainEvent", "DomainEventDelivery", "IntegrationEventReceipt", "Notification"}
    /\ Drift!Expected["DomainEvent"] = Drift!DomainEvent
    /\ Drift!Expected["DomainEventDelivery"] = Drift!DomainEventDelivery
    /\ Drift!Expected["IntegrationEventReceipt"] = Drift!IntegrationEventReceipt
    /\ Drift!Expected["Notification"] = Drift!Notification
  BY DEF Drift!Models, Drift!Expected

LEMMA ModelIs ==
    ASSUME NEW fs, NEW o, NEW mp, NEW ls, NEW df, NEW rl, NEW uq
    PROVE  LET w == Drift!Model(fs, o, mp, ls, df, rl, uq)
           IN  /\ DOMAIN w = FieldKinds /\ w.fields = fs /\ w.typed = fs /\ w.optional = o
               /\ w.mapped = mp /\ w.list = ls /\ w.default = df /\ w.relation = rl
               /\ w.unique = uq /\ w.table = {"documented"}
  BY DEF Drift!Model, FieldKinds

LEMMA ExpectedDrawn == \A m \in Drift!Models :
    /\ Drawn(Drift!Expected[m], m) /\ Drift!Expected[m].table = {"documented"}
    /\ Drift!Expected[m].typed = Drift!Expected[m].fields
  <1>1. \A w : w \in {Drift!DomainEvent, Drift!DomainEventDelivery, Drift!IntegrationEventReceipt}
             => DOMAIN w = FieldKinds /\ w.table = {"documented"} /\ w.typed = w.fields
    <2>1. DOMAIN Drift!DomainEvent = FieldKinds /\ Drift!DomainEvent.table = {"documented"}
          /\ Drift!DomainEvent.typed = Drift!DomainEvent.fields
      BY ModelIs DEF Drift!DomainEvent
    <2>2. DOMAIN Drift!DomainEventDelivery = FieldKinds
          /\ Drift!DomainEventDelivery.table = {"documented"}
          /\ Drift!DomainEventDelivery.typed = Drift!DomainEventDelivery.fields
      BY ModelIs DEF Drift!DomainEventDelivery
    <2>3. DOMAIN Drift!IntegrationEventReceipt = FieldKinds
          /\ Drift!IntegrationEventReceipt.table = {"documented"}
          /\ Drift!IntegrationEventReceipt.typed = Drift!IntegrationEventReceipt.fields
      BY ModelIs DEF Drift!IntegrationEventReceipt
    <2> QED
      BY <2>1, <2>2, <2>3
  <1>2. DOMAIN Drift!Notification = FieldKinds /\ Drift!Notification.table = {"documented"}
        /\ Drift!Notification.typed = Drift!Notification.fields
    BY ModelIs DEF Drift!Notification, FieldKinds
  <1> QED
    BY <1>1, <1>2, ModelsAre DEF Drawn

(* What the statement of a package takes for granted of its model is what the checks expect. *)
Documented(stm) ==
    LET w == Drift!Expected[stm.model]
    IN  /\ stm.model \in Drift!Models
        /\ stm.names \cup stm.sql \subseteq w.fields
        /\ stm.nulls \subseteq w.optional \cap w.fields
        /\ stm.names \cap w.list = stm.lists
        /\ stm.keys \subseteq w.unique
        /\ stm.model = "Notification" => stm.sql = {} /\ stm.lists = {} /\ w.list = {}
        /\ stm.creates => w.fields \ stm.names
                           \subseteq w.optional \cup w.list \cup w.default \cup w.relation

LEMMA EventsDocumented == Documented(Drift!RecordEvent)
  <1>1. PICK w : w = Drift!DomainEvent
    OBVIOUS
  <1>2. PICK t : t = Drift!RecordEvent
    OBVIOUS
  <1>3. /\ t.model = "DomainEvent" /\ t.sql = {} /\ t.lists = {"changedFields"} /\ t.keys = {}
        /\ t.nulls = Drift!Context \cup Drift!Integration
        /\ t.names = Drift!Context \cup Drift!Integration \cup
              {"aggregateType", "aggregateId", "eventType", "operation",
               "schemaVersion", "before", "after", "changedFields", "metadata"}
    BY <1>2 DEF Drift!RecordEvent, Drift!Statement
  <1>4. /\ w.optional = {"before", "after", "metadata"} \cup Drift!Context \cup Drift!Integration
        /\ w.list = {"changedFields", "deliveries"} /\ w.relation = {}
        /\ w.default = {"id", "seq", "schemaVersion", "createdAt"}
        /\ w.fields = {"id", "seq", "operation", "deliveries"}
             \cup {"aggregateType", "aggregateId", "eventType", "schemaVersion", "changedFields", "createdAt"}
             \cup {"before", "after", "metadata"} \cup Drift!Context \cup Drift!Integration
    BY <1>1, ModelIs DEF Drift!DomainEvent
  <1>5. w = Drift!Expected[t.model] /\ t.model \in Drift!Models
    BY <1>1, <1>3, ModelsAre
  <1>6. t.names \subseteq w.fields /\ t.nulls \subseteq w.optional \cap w.fields
    BY <1>3, <1>4
  <1>7. t.names \cap w.list = t.lists
    BY <1>3, <1>4 DEF Drift!Context, Drift!Integration
  <1>8. w.fields \ t.names \subseteq w.optional \cup w.list \cup w.default \cup w.relation
    BY <1>3, <1>4
  <1> QED
    BY <1>2, <1>3, <1>5, <1>6, <1>7, <1>8 DEF Documented

LEMMA DeliveriesDocumented ==
    \A t \in {Drift!RecordDeliveries, Drift!Complete, Drift!Catalog} : Documented(t)
  <1>1. PICK w : w = Drift!DomainEventDelivery
    OBVIOUS
  <1>2. /\ w.fields = {"id", "eventId", "event", "handlerKey", "status", "attempts", "createdAt",
                       "nextAttemptAt", "lockedAt", "lockedBy", "lastError", "processedAt"}
        /\ w.optional = {"nextAttemptAt", "lockedAt", "lockedBy", "lastError", "processedAt"}
        /\ w.list = {} /\ w.default = {"id", "status", "attempts", "createdAt"}
        /\ w.relation = {"event"} /\ w.unique = {{"eventId", "handlerKey"}}
    BY <1>1, ModelIs DEF Drift!DomainEventDelivery
  <1>3. w = Drift!Expected["DomainEventDelivery"] /\ "DomainEventDelivery" \in Drift!Models
    BY <1>1, ModelsAre
  <1>4. Documented(Drift!RecordDeliveries)
    BY <1>2, <1>3 DEF Documented, Drift!Statement, Drift!RecordDeliveries
  <1>5. Documented(Drift!Complete)
    BY <1>2, <1>3 DEF Documented, Drift!Statement, Drift!Complete
  <1>6. Documented(Drift!Catalog)
    BY <1>2, <1>3 DEF Documented, Drift!Statement, Drift!Catalog
  <1> QED
    BY <1>4, <1>5, <1>6
LEMMA ClaimsDocumented == \A t \in Drift!Claim : Documented(t)
  <1>1. \A f \in {"id", "eventId", "status", "nextAttemptAt", "lockedAt", "lockedBy"} :
            f \in Drift!DomainEventDelivery.fields
    BY ModelIs DEF Drift!DomainEventDelivery
  <1>2. "id" \in Drift!DomainEvent.fields /\ "seq" \in Drift!DomainEvent.fields
        /\ "seq" \notin Drift!DomainEvent.list
    BY ModelIs DEF Drift!DomainEvent
  <1>3. Documented(Drift!Statement("DomainEventDelivery", {}, {}, {},
               {"id", "eventId", "status", "nextAttemptAt", "lockedAt", "lockedBy"}, {}, FALSE))
    BY <1>1, ModelsAre DEF Documented, Drift!Statement
  <1>4. Documented(Drift!Statement("DomainEvent", {"seq"}, {}, {}, {"id", "seq"}, {}, FALSE))
    BY <1>2, ModelsAre DEF Documented, Drift!Statement
  <1> QED
    BY <1>3, <1>4 DEF Drift!Claim
LEMMA ReceiptsDocumented == Documented(Drift!Receive)
  <1>1. PICK w : w = Drift!IntegrationEventReceipt
    OBVIOUS
  <1>2. /\ w.fields = {"sourceApp", "eventId", "capabilityId", "capabilityVersion",
                       "capabilityDigest", "bindingId", "bindingVersion", "payloadDigest",
                       "id", "processedAt", "createdAt"}
        /\ w.optional = {} /\ w.list = {} /\ w.default = {"id", "processedAt", "createdAt"}
        /\ w.relation = {} /\ w.unique = {{"sourceApp", "eventId"}}
    BY <1>1, ModelIs DEF Drift!IntegrationEventReceipt
  <1>3. w = Drift!Expected["IntegrationEventReceipt"] /\ "IntegrationEventReceipt" \in Drift!Models
    BY <1>1, ModelsAre
  <1> QED
    BY <1>2, <1>3 DEF Documented, Drift!Statement, Drift!Receive
LEMMA InboxDocumented == Documented(Drift!Notify) /\ Documented(Drift!Read)
  <1>1. PICK w : w = Drift!Notification
    OBVIOUS
  <1>2. /\ w.fields = {"id", "recipient", "type", "category", "severity", "title", "body",
                       "recipientUserId", "idempotencyKey", "sourceApp", "createdAt", "updatedAt",
                       "sourceEventId", "sourceEntityType", "sourceEntityId", "targetPath",
                       "readAt", "archivedAt"}
        /\ w.optional = {"category", "body", "sourceEventId", "sourceEntityType",
                         "sourceEntityId", "targetPath", "readAt", "archivedAt"}
        /\ w.list = {} /\ w.default = {"id", "severity", "createdAt", "updatedAt"}
        /\ w.relation = {"recipient"} /\ w.unique = {{"recipientUserId", "idempotencyKey"}}
    BY <1>1, ModelIs DEF Drift!Notification, FieldKinds
  <1>3. w = Drift!Expected["Notification"] /\ "Notification" \in Drift!Models
    BY <1>1, ModelsAre
  <1>4. Documented(Drift!Notify)
    BY <1>2, <1>3 DEF Documented, Drift!Statement, Drift!Notify
  <1>5. Documented(Drift!Read)
    BY <1>2, <1>3 DEF Documented, Drift!Statement, Drift!Read
  <1> QED
    BY <1>4, <1>5
LEMMA AllDocumented == \A t \in Drift!Statements : Documented(t)
  BY EventsDocumented, DeliveriesDocumented, ClaimsDocumented, ReceiptsDocumented, InboxDocumented
  DEF Drift!Statements

(* A documented statement runs on what a green check saw, unless it is of what no check sees. *)
LEMMA GreenRuns ==
    ASSUME NEW t \in Drift!Statements,
           AsExpected(deployed.models[t.model], t.model), Drawn(deployed.models[t.model], t.model)
    PROVE  Drift!Unchecked(t) \/ Drift!Runs(t)
  <1>1. PICK w, e, m : w = deployed.models[t.model] /\ e = Drift!Expected[t.model] /\ m = t.model
    OBVIOUS
  <1>2. /\ m \in Drift!Models /\ t.names \cup t.sql \subseteq e.fields
        /\ t.nulls \subseteq e.optional \cap e.fields
        /\ t.names \cap e.list = t.lists /\ t.keys \subseteq e.unique
        /\ m = "Notification" => t.sql = {} /\ t.lists = {} /\ e.list = {}
        /\ t.creates => e.fields \ t.names \subseteq e.optional \cup e.list \cup e.default \cup e.relation
    BY <1>1, AllDocumented DEF Documented
  <1>3. /\ e.unique \subseteq w.unique /\ (m # "Notification" => w.table = {"documented"})
        /\ e.typed = e.fields /\ w.fields \subseteq e.fields \cup {"own"}
    BY <1>1, <1>2, ExpectedDrawn DEF AsExpected, Drawn
  <1>4. \A f \in e.fields : /\ f \in w.fields /\ f \in w.typed
                            /\ (f \in e.optional) <=> (f \in w.optional)
                            /\ (f \in e.mapped) <=> (f \in w.mapped)
                            /\ (f \in e.default) <=> (f \in w.default)
                            /\ (f \in e.relation) <=> (f \in w.relation)
    <2>1. {"typed", "optional", "mapped", "default", "relation"} \subseteq Drift!Compared(m)
      BY DEF Drift!Compared
    <2>2. \A f \in e.fields : f \in w.fields /\ \A x \in Drift!Compared(m) : f \in e[x] <=> f \in w[x]
      BY <1>1 DEF AsExpected
    <2> QED
      BY <1>3, <2>1, <2>2
  <1>5. m # "Notification" => \A f \in e.fields : f \in e.list <=> f \in w.list
    <2>1. m # "Notification" => "list" \in Drift!Compared(m)
      BY DEF Drift!Compared
    <2>2. \A f \in e.fields : \A x \in Drift!Compared(m) : f \in e[x] <=> f \in w[x]
      BY <1>1 DEF AsExpected
    <2> QED
      BY <2>1, <2>2
  <1>6. SUFFICES ASSUME ~Drift!Unchecked(t) PROVE Drift!Runs(t)
    OBVIOUS
  <1>7. /\ t.creates => "own" \notin w.fields
        /\ m = "Notification" => w.list = {}
    BY <1>1, <1>6 DEF Drift!Unchecked, Drift!OwnColumn
  <1>8. t.names \cup t.sql \subseteq w.typed /\ t.nulls \subseteq w.optional /\ t.keys \subseteq w.unique
    BY <1>2, <1>3, <1>4
  <1>9. t.names \cap w.list = t.lists
    BY <1>2, <1>5, <1>7
  <1>10. (t.sql # {} => w.table = {"documented"}) /\ t.sql \cap w.mapped = t.sql \cap e.mapped
    BY <1>2, <1>3, <1>4
  <1>11. t.creates => w.fields \ t.names \subseteq w.optional \cup w.list \cup w.default \cup w.relation
    BY <1>2, <1>3, <1>4, <1>5, <1>7
  <1> QED
    BY <1>1, <1>8, <1>9, <1>10, <1>11 DEF Drift!Runs

(* The App's models are drawn, what it deployed was green, and the migrations' indexes are there. *)
ModelsDrawn(ms) == DOMAIN ms = Drift!Models /\ \A m \in Drift!Models : Drawn(ms[m], m)
DriftInv ==
    /\ DOMAIN app = {"models", "enums"} /\ ModelsDrawn(app.models) /\ ModelsDrawn(deployed.models)
    /\ DOMAIN deployed = {"models", "enums"}
    /\ \A m \in Drift!Models : AsExpected(deployed.models[m], m)
    /\ \A e \in DOMAIN Drift!ExpectedEnums : Drift!ExpectedEnums[e] \subseteq deployed.enums[e]
    /\ Drift!LiveIndexesExist

LEMMA DriftStart == Drift!Init => DriftInv
  <1> SUFFICES ASSUME Drift!Init PROVE DriftInv
    OBVIOUS
  <1>1. /\ app = [models |-> Drift!Expected, enums |-> Drift!ExpectedEnums] /\ deployed = app
        /\ live = indexes
        /\ indexes = [n \in {"a", "b"} |-> [table |-> "notifications",
                                            on |-> IF n = "a" THEN Drift!Inbox ELSE Drift!Source]]
    BY DEF Drift!Init
  <1>2. DOMAIN app = {"models", "enums"} /\ app.models = Drift!Expected /\ app.enums = Drift!ExpectedEnums
    BY <1>1
  <1>3. ModelsDrawn(Drift!Expected)
    BY ExpectedDrawn DEF ModelsDrawn, Drift!Models
  <1>4. \A m \in Drift!Models : AsExpected(Drift!Expected[m], m)
    BY ExpectedDrawn DEF AsExpected
  <1>5. Drift!LiveIndexesExist
    <2>1. \A n \in DOMAIN indexes : indexes[n].table = "notifications"
      BY <1>1
    <2>2. {n \in DOMAIN indexes : indexes[n].table = "notifications"} = DOMAIN indexes
      BY <2>1
    <2>3. indexes = [n \in DOMAIN indexes |-> indexes[n]]
      BY <1>1
    <2> QED
      BY <1>1, <2>2, <2>3 DEF Drift!LiveIndexesExist
  <1> QED
    BY <1>1, <1>2, <1>3, <1>4, <1>5 DEF DriftInv

(* What EditSchema makes of a model. *)
EditedAs(v, w) ==
    \/ \E f \in w.fields : v = [x \in DOMAIN w |-> IF x \in {"unique", "table"} THEN w[x] ELSE w[x] \ {f}]
    \/ \E f \in w.fields, x \in {"typed", "optional", "mapped", "list", "default", "relation", "updatedAt"} :
          v = [w EXCEPT ![x] = Drift!Flip(@, f)]
    \/ \E x \in {"optional", "default", "typed"} :
          v = [w EXCEPT !.fields = @ \cup {"own"}, ![x] = @ \cup {"own"}]
    \/ \E u \in w.unique : v = [w EXCEPT !.unique = @ \ {u}]
    \/ v = [w EXCEPT !.table = Drift!Flip(@, "documented")]

(* An edit of a model keeps its kinds of fact, and gives it no field but its own one. *)
LEMMA EditedIsDrawn ==
    ASSUME NEW m \in Drift!Models, NEW w, NEW v, Drawn(w, m), EditedAs(v, w)
    PROVE  Drawn(v, m)
  <1>1. DOMAIN w = FieldKinds /\ w.fields \subseteq Drift!Expected[m].fields \cup {"own"}
    BY DEF Drawn
  <1>2. {"fields", "unique", "table"} \subseteq FieldKinds
    BY DEF FieldKinds
  <1>3. SUFFICES DOMAIN v = DOMAIN w /\ v.fields \subseteq w.fields \cup {"own"}
    BY <1>1 DEF Drawn
  <1>4. CASE \E f \in w.fields :
                 v = [x \in DOMAIN w |-> IF x \in {"unique", "table"} THEN w[x] ELSE w[x] \ {f}]
    BY <1>1, <1>2, <1>4
  <1>5. ASSUME NEW x, x # "fields", NEW y, v = [w EXCEPT ![x] = y]
        PROVE  DOMAIN v = DOMAIN w /\ v.fields \subseteq w.fields \cup {"own"}
    BY <1>1, <1>2, <1>5
  <1>6. CASE \E f \in w.fields,
                x \in {"typed", "optional", "mapped", "list", "default", "relation", "updatedAt"} :
                 v = [w EXCEPT ![x] = Drift!Flip(@, f)]
    <2>1. PICK f \in w.fields,
               x \in {"typed", "optional", "mapped", "list", "default", "relation", "updatedAt"} :
               v = [w EXCEPT ![x] = Drift!Flip(@, f)]
      BY <1>6, Zenon
    <2>2. x # "fields"
      OBVIOUS
    <2>3. v = [w EXCEPT ![x] = Drift!Flip(w[x], f)]
      BY <2>1
    <2> QED
      BY <1>5, <2>2, <2>3, Zenon
  <1>7. CASE \E x \in {"optional", "default", "typed"} :
                 v = [w EXCEPT !.fields = @ \cup {"own"}, ![x] = @ \cup {"own"}]
    <2>1. PICK x \in {"optional", "default", "typed"} :
               v = [w EXCEPT !.fields = @ \cup {"own"}, ![x] = @ \cup {"own"}]
      BY <1>7, Zenon
    <2>2. x # "fields"
      OBVIOUS
    <2> QED
      BY <1>1, <1>2, <2>1, <2>2
  <1>8. CASE \E u \in w.unique : v = [w EXCEPT !.unique = @ \ {u}]
    BY <1>1, <1>2, <1>8
  <1>9. CASE v = [w EXCEPT !.table = Drift!Flip(@, "documented")]
    BY <1>1, <1>2, <1>9
  <1> QED
    BY <1>4, <1>6, <1>7, <1>8, <1>9 DEF EditedAs

(* The invariant in parts. *)
LEMMA DriftParts ==
    ASSUME DriftInv
    PROVE  /\ DOMAIN app = {"models", "enums"} /\ ModelsDrawn(app.models)
           /\ DOMAIN deployed = {"models", "enums"} /\ ModelsDrawn(deployed.models)
           /\ Drift!LiveIndexesExist
  BY DEF DriftInv

(* An edit of the app's schema leaves what is deployed as it was. *)
LEMMA DriftKept ==
    ASSUME DriftInv, UNCHANGED deployed, DOMAIN app' = {"models", "enums"}, ModelsDrawn(app'.models),
           Drift!LiveIndexesExist'
    PROVE  DriftInv'
  <1>1. \A m \in Drift!Models : AsExpected(deployed'.models[m], m)
    BY DEF DriftInv
  <1>2. \A e \in DOMAIN Drift!ExpectedEnums : Drift!ExpectedEnums[e] \subseteq deployed'.enums[e]
    BY DEF DriftInv
  <1>3. DOMAIN deployed' = {"models", "enums"} /\ ModelsDrawn(deployed'.models)
    BY DriftParts
  <1> QED
    BY <1>1, <1>2, <1>3 DEF DriftInv

LEMMA SchemaEditStep == DriftInv /\ (Drift!EditSchema \/ Drift!EditEnum) => DriftInv'
  <1> SUFFICES ASSUME DriftInv, Drift!EditSchema \/ Drift!EditEnum PROVE DriftInv'
    OBVIOUS
  <1>1. UNCHANGED <<deployed, indexes, live, scoped, beyond>>
    <2>1. CASE Drift!EditSchema
      BY <2>1, Zenon DEF Drift!EditSchema
    <2>2. CASE Drift!EditEnum
      BY <2>2, Zenon DEF Drift!EditEnum
    <2> QED
      BY <2>1, <2>2
  <1>2. Drift!LiveIndexesExist'
    <2>1. Drift!LiveIndexesExist
      BY DriftParts
    <2>2. UNCHANGED <<indexes, live, scoped, beyond>>
      BY <1>1
    <2> QED
      BY <2>1, <2>2 DEF Drift!LiveIndexesExist
  <1>3. DOMAIN app' = {"models", "enums"} /\ ModelsDrawn(app'.models)
    <2>1. ASSUME NEW m \in Drift!Models, NEW w, Drawn(w, m), app' = [app EXCEPT !.models[m] = w]
          PROVE  DOMAIN app' = {"models", "enums"} /\ ModelsDrawn(app'.models)
      <3>1. DOMAIN app = {"models", "enums"} /\ DOMAIN app.models = Drift!Models
            /\ \A k_ \in Drift!Models : Drawn(app.models[k_], k_)
        BY DriftParts DEF ModelsDrawn
      <3>2. app' = [app EXCEPT !["models"] = [app["models"] EXCEPT ![m] = w]]
        BY <2>1
      <3>3. DOMAIN app' = {"models", "enums"} /\ app'.models = [app.models EXCEPT ![m] = w]
        BY <3>1, <3>2
      <3>4. DOMAIN app'.models = Drift!Models
            /\ \A k_ \in Drift!Models : app'.models[k_] = IF k_ = m THEN w ELSE app.models[k_]
        BY <3>1, <3>3
      <3> QED
        BY <2>1, <3>1, <3>3, <3>4 DEF ModelsDrawn
    <2>2. CASE Drift!EditSchema
      <3>1. PICK m \in Drift!Models :
              LET w == app.models[m]
                  With(v) == app' = [app EXCEPT !.models[m] = v]
              IN  \/ \E f \in w.fields : With([x \in DOMAIN w |-> IF x \in {"unique", "table"} THEN w[x] ELSE w[x] \ {f}])
                  \/ \E f \in w.fields, x \in {"typed", "optional", "mapped", "list", "default", "relation", "updatedAt"} :
                        With([w EXCEPT ![x] = Drift!Flip(@, f)])
                  \/ \E x \in {"optional", "default", "typed"} :
                        With([w EXCEPT !.fields = @ \cup {"own"}, ![x] = @ \cup {"own"}])
                  \/ \E u \in w.unique : With([w EXCEPT !.unique = @ \ {u}])
                  \/ With([w EXCEPT !.table = Drift!Flip(@, "documented")])
        BY <2>2, Zenon DEF Drift!EditSchema
      <3>2. PICK v : EditedAs(v, app.models[m]) /\ app' = [app EXCEPT !.models[m] = v]
        BY <3>1, Zenon DEF EditedAs
      <3>3. Drawn(app.models[m], m)
        BY DriftParts DEF ModelsDrawn
      <3>4. Drawn(v, m)
        BY <3>2, <3>3, EditedIsDrawn
      <3> QED
        BY <2>1, <3>2, <3>4
    <2>3. CASE Drift!EditEnum
      <3>1. PICK e, v : app' = [app EXCEPT !.enums[e] = Drift!Flip(@, v)]
        BY <2>3 DEF Drift!EditEnum
      <3>2. DOMAIN app' = {"models", "enums"} /\ app'.models = app.models
        BY <3>1, DriftParts
      <3> QED
        BY <3>2, DriftParts
    <2> QED
      BY <2>2, <2>3
  <1>4. app'.models = (app.models)' /\ deployed' = deployed
    BY <1>1
  <1> QED
    BY <1>1, <1>2, <1>3, <1>4, DriftParts, DriftKept

(* What is deployed was green; what was red is taken back. *)
LEMMA DeployStep == DriftInv /\ (Drift!Deploy \/ Drift!Revert) => DriftInv'
  <1> SUFFICES ASSUME DriftInv, Drift!Deploy \/ Drift!Revert PROVE DriftInv'
    OBVIOUS
  <1>1. UNCHANGED <<indexes, live, scoped, beyond>>
    BY DEF Drift!Deploy, Drift!Revert
  <1>2. Drift!LiveIndexesExist'
    BY <1>1 DEF DriftInv, Drift!LiveIndexesExist
  <1>3. CASE Drift!Deploy
    <2>1. deployed' = app /\ app' = app /\ Drift!Green
      BY <1>3 DEF Drift!Deploy
    <2>2. \A m \in Drift!Models : Drift!ModelGreen(m)
      BY <2>1 DEF Drift!Green, Drift!checkDomainEventSchemaDrift,
         Drift!checkNotificationSchemaDrift
    <2>3. \A m \in Drift!Models : AsExpected(app.models[m], m)
      <3>1. SUFFICES ASSUME NEW m \in Drift!Models PROVE AsExpected(app.models[m], m)
        OBVIOUS
      <3>2. PICK w : w = app.models[m]
        OBVIOUS
      <3>3. {f \in Drift!Expected[m].fields :
                f \notin w.fields \/ \E x \in Drift!Compared(m) : (f \in Drift!Expected[m][x]) # (f \in w[x])} = {}
        BY <2>2, <3>2 DEF Drift!ModelGreen, Drift!FieldIssues
      <3>4. \A f \in Drift!Expected[m].fields :
                f \in w.fields /\ \A x \in Drift!Compared(m) : f \in Drift!Expected[m][x] <=> f \in w[x]
        BY <3>3
      <3>5. Drift!Expected[m].unique \subseteq w.unique /\ (m # "Notification" => w.table = {"documented"})
        BY <2>2, <3>2 DEF Drift!ModelGreen
      <3> QED
        BY <3>2, <3>4, <3>5 DEF AsExpected
    <2>4. \A e \in DOMAIN Drift!ExpectedEnums : Drift!ExpectedEnums[e] \subseteq app.enums[e]
      BY <2>1 DEF Drift!Green, Drift!checkDomainEventSchemaDrift
    <2> QED
      BY <1>2, <2>1, <2>3, <2>4 DEF DriftInv
  <1>4. CASE Drift!Revert
    BY <1>2, <1>4 DEF Drift!Revert, DriftInv
  <1> QED
    BY <1>3, <1>4

(* A migration: the scan follows every index that is created or dropped. *)
LEMMA MigrationStep ==
    ASSUME DriftInv,
           \/ \E n \in IndexNames : \/ Drift!DropIndex(n)
                                   \/ \E entry : Drift!CreateIndex(n, entry)
                                   \/ \E to : Drift!RenameIndex(n, to)
           \/ \E c : Drift!DropColumn(c)
    PROVE  DriftInv'
  <1>1. UNCHANGED <<app, deployed, scoped>>
    BY DEF Drift!DropIndex, Drift!CreateIndex, Drift!RenameIndex, Drift!DropColumn, Drift!Migrate
  <1>2. Drift!LiveIndexesExist'
    <2>1. ASSUME NEW n, Drift!DropIndex(n), scoped, ~beyond
          PROVE  live' = [i \in {j \in DOMAIN indexes' : indexes'[j].table = "notifications"} |-> indexes'[i]]
      <3>1. /\ indexes' = [i \in DOMAIN indexes \ {n} |-> indexes[i]]
            /\ live' = [i \in DOMAIN live \ {n} |-> live[i]]
        BY <2>1 DEF Drift!DropIndex, Drift!Less
      <3>2. live = [i \in {j \in DOMAIN indexes : indexes[j].table = "notifications"} |-> indexes[i]]
        BY <2>1 DEF DriftInv, Drift!LiveIndexesExist
      <3>3. DOMAIN live \ {n} = {j \in DOMAIN indexes' : indexes'[j].table = "notifications"}
        BY <3>1, <3>2
      <3>4. \A i \in DOMAIN live \ {n} : live[i] = indexes'[i]
        BY <3>1, <3>2
      <3> QED
        BY <3>1, <3>3, <3>4
    <2>2. ASSUME NEW n, NEW entry, Drift!CreateIndex(n, entry), scoped, ~beyond
          PROVE  live' = [i \in {j \in DOMAIN indexes' : indexes'[j].table = "notifications"} |-> indexes'[i]]
      <3>1. /\ n \notin DOMAIN indexes
            /\ indexes' = [i \in DOMAIN indexes \cup {n} |-> IF i = n THEN entry ELSE indexes[i]]
            /\ live' = IF entry.table # "notifications" THEN live
                       ELSE [i \in DOMAIN live \cup {n} |-> IF i = n THEN entry ELSE live[i]]
        BY <2>2 DEF Drift!CreateIndex, Drift!Put
      <3>2. live = [i \in {j \in DOMAIN indexes : indexes[j].table = "notifications"} |-> indexes[i]]
        BY <2>2 DEF DriftInv, Drift!LiveIndexesExist
      <3>3. CASE entry.table # "notifications"
        <4>1. DOMAIN live = {j \in DOMAIN indexes' : indexes'[j].table = "notifications"}
          BY <3>1, <3>2, <3>3
        <4>2. \A i \in DOMAIN live : live[i] = indexes'[i]
          BY <3>1, <3>2
        <4> QED
          BY <3>1, <3>2, <3>3, <4>1, <4>2
      <3>4. CASE entry.table = "notifications"
        <4>1. DOMAIN live \cup {n} = {j \in DOMAIN indexes' : indexes'[j].table = "notifications"}
          BY <3>1, <3>2, <3>4
        <4>2. \A i \in DOMAIN live \cup {n} : (IF i = n THEN entry ELSE live[i]) = indexes'[i]
          BY <3>1, <3>2
        <4> QED
          BY <3>1, <3>4, <4>1, <4>2
      <3> QED
        BY <3>3, <3>4
    <2>3. ASSUME NEW n, NEW to, Drift!RenameIndex(n, to) PROVE beyond'
      BY <2>3 DEF Drift!RenameIndex
    <2>4. ASSUME NEW c, Drift!DropColumn(c) PROVE beyond'
      BY <2>4 DEF Drift!DropColumn
    <2>5. beyond' = beyond \/ beyond'
      BY DEF Drift!DropIndex, Drift!CreateIndex, Drift!RenameIndex, Drift!DropColumn
    <2> QED
      BY <1>1, <2>1, <2>2, <2>3, <2>4, <2>5 DEF Drift!LiveIndexesExist
  <1> QED
    BY <1>1, <1>2 DEF DriftInv

LEMMA DriftStep == ASSUME DriftInv, Drift!Next \/ UNCHANGED driftVars PROVE DriftInv'
  <1>1. CASE UNCHANGED driftVars
    BY <1>1 DEF driftVars, DriftInv, Drift!LiveIndexesExist
  <1>2. CASE Drift!Next
    <2>1. \/ Drift!EditSchema \/ Drift!EditEnum \/ Drift!Deploy \/ Drift!Revert
          \/ \E n \in IndexNames : \/ Drift!DropIndex(n)
                                  \/ \E entry : Drift!CreateIndex(n, entry)
                                  \/ \E to : Drift!RenameIndex(n, to)
          \/ \E c : Drift!DropColumn(c)
      BY <1>2, Zenon DEF Drift!Next
    <2>2. CASE Drift!EditSchema \/ Drift!EditEnum
      BY <2>2, SchemaEditStep
    <2>3. CASE Drift!Deploy \/ Drift!Revert
      BY <2>3, DeployStep
    <2>4. CASE \/ \E n \in IndexNames : \/ Drift!DropIndex(n)
                                       \/ \E entry : Drift!CreateIndex(n, entry)
                                       \/ \E to : Drift!RenameIndex(n, to)
               \/ \E c : Drift!DropColumn(c)
      BY <2>4, MigrationStep
    <2> QED
      BY <2>1, <2>2, <2>3, <2>4
  <1> QED
    BY <1>1, <1>2

LEMMA DriftTells == DriftInv => Drift!DriftIsCaught
  <1> SUFFICES ASSUME DriftInv PROVE Drift!DriftIsCaught
    OBVIOUS
  <1>1. ASSUME NEW t \in Drift!Statements PROVE Drift!Unchecked(t) \/ Drift!Runs(t)
    <2>1. t.model \in Drift!Models
      BY AllDocumented DEF Documented
    <2> QED
      BY <2>1, GreenRuns DEF DriftInv, ModelsDrawn
  <1> QED
    BY <1>1 DEF DriftInv, Drift!DriftIsCaught, Drift!GreenMeansItRuns

--------------------------------------------------------------------------------
(* The codemods *)

(* The packages that own what a facade exports. *)
PackageOwners == {"@appspine/plugin-host-nest", "@appspine/identity-core", "@appspine/oidc-auth",
           "@appspine/rbac", "@appspine/identity-core/frontend", "@appspine/rbac/frontend",
           "@appspine/notification/frontend", "@appspine/m2m-api-key/frontend"}

(* An owner is no facade: what a name is moved to is the last place it is moved to. *)
LEMMA OwnersOwn ==
    ASSUME NEW n
    PROVE  /\ Codemods!AuthOwner(n) \in PackageOwners \cup {""}
           /\ Codemods!FrontendOwner(n) \in PackageOwners \cup {""}
           /\ Codemods!PageOwner(n) # "" => Codemods!PageOwner(n) = Codemods!FrontendOwner(n)
           /\ Codemods!PageOwner(n) \in PackageOwners \cup {""}
  <1>1. Codemods!AuthOwner(n) \in PackageOwners \cup {""}
    BY DEF Codemods!AuthOwner, Codemods!HostNest, PackageOwners
  <1>2. Codemods!PageOwner(n) \in PackageOwners \cup {""}
    BY DEF Codemods!PageOwner, PackageOwners
  <1>3. CASE n = "ApiKeysTableKey"
    BY <1>1, <1>2, <1>3 DEF Codemods!FrontendOwner, Codemods!PageOwner, PackageOwners
  <1>4. CASE n = "UserRoleOption"
    BY <1>1, <1>2, <1>4 DEF Codemods!FrontendOwner, Codemods!PageOwner, PackageOwners
  <1>5. CASE n \notin {"ApiKeysTableKey", "UserRoleOption"}
    BY <1>1, <1>2, <1>5 DEF Codemods!FrontendOwner
  <1> QED
    BY <1>1, <1>2, <1>3, <1>4, <1>5

LEMMA OwnersDeclare ==
    ASSUME NEW p \in PackageOwners, NEW n
    PROVE  /\ Codemods!Declared(p, n) = <<p, n>>
           /\ p # "" /\ p # Codemods!Auth /\ p \notin Codemods!Shell /\ p # Codemods!KeysPkg
           /\ p # "review"
  BY DEF PackageOwners, Codemods!Declared, Codemods!Auth, Codemods!Shell, Codemods!KeysPkg

(* Where a specifier goes, and what it stands for there. *)
LEMMA Moved ==
    ASSUME NEW d, NEW x, x = [name |-> x.name, local |-> x.local, type |-> x.type],
           Codemods!Target(d, x) # "review"
    PROVE  /\ Codemods!Target(d, x) \in PackageOwners \cup {d.from}
           /\ Codemods!Renamed(d, x).local = x.local /\ Codemods!Renamed(d, x).type = x.type
           /\ Codemods!Declared(Codemods!Target(d, x), Codemods!Renamed(d, x).name)
                = Codemods!Declared(d.from, x.name)
           /\ Codemods!Target(d, x) = d.from => Codemods!Renamed(d, x) = x
           /\ Codemods!Renamed(d, x) = [name |-> Codemods!Renamed(d, x).name,
                                        local |-> x.local, type |-> x.type]
  <1>1. CASE d.from = Codemods!Auth
    <2>1. Codemods!Target(d, x) = Codemods!AuthOwner(x.name) /\ Codemods!AuthOwner(x.name) # ""
      <3>1. Codemods!Target(d, x) = IF Codemods!AuthOwner(x.name) = "" THEN "review"
                                    ELSE Codemods!AuthOwner(x.name)
        <4>1. d.from \notin Codemods!Shell /\ d.from # Codemods!KeysPkg
          BY <1>1 DEF Codemods!Auth, Codemods!Shell, Codemods!KeysPkg
        <4> QED
          BY <1>1, <4>1, Zenon DEF Codemods!Target
      <3> QED
        BY <3>1
    <2>2. Codemods!Renamed(d, x) = x
      BY <1>1 DEF Codemods!Renamed, Codemods!Auth, Codemods!KeysPkg
    <2>3. Codemods!Declared(d.from, x.name) = <<Codemods!AuthOwner(x.name), x.name>>
      BY <1>1, <2>1 DEF Codemods!Declared, Codemods!Auth, Codemods!Shell, Codemods!KeysPkg
    <2> QED
      BY <2>1, <2>2, <2>3, OwnersOwn, OwnersDeclare
  <1>2. CASE d.from \in Codemods!Shell
    <2>1. d.from # Codemods!Auth /\ d.from # Codemods!KeysPkg
      BY <1>2 DEF Codemods!Auth, Codemods!Shell, Codemods!KeysPkg
    <2>2. Codemods!Target(d, x) = IF Codemods!FrontendOwner(x.name) = "" THEN d.from
                                  ELSE Codemods!FrontendOwner(x.name)
      BY <1>2, <2>1 DEF Codemods!Target
    <2>3. Codemods!Renamed(d, x) = x
      BY <2>1 DEF Codemods!Renamed
    <2>4. Codemods!FrontendOwner(x.name) # "" =>
              Codemods!Declared(d.from, x.name) = <<Codemods!FrontendOwner(x.name), x.name>>
      BY <1>2, <2>1 DEF Codemods!Declared
    <2> QED
      BY <2>2, <2>3, <2>4, OwnersOwn, OwnersDeclare
  <1>3. CASE d.from = Codemods!KeysPkg
    <2>1. d.from # Codemods!Auth /\ d.from \notin Codemods!Shell
      BY <1>3 DEF Codemods!Auth, Codemods!Shell, Codemods!KeysPkg
    <2>2. CASE x.name # "JwtOrApiKeyGuard"
      <3>1. Codemods!Target(d, x) = d.from
        BY <1>3, <2>1, <2>2 DEF Codemods!Target
      <3>2. Codemods!Renamed(d, x) = x
        BY <2>2 DEF Codemods!Renamed
      <3> QED
        BY <3>1, <3>2
    <2>3. CASE x.name = "JwtOrApiKeyGuard"
      <3>1. Codemods!Target(d, x) = "@appspine/plugin-host-nest"
        <4>1. Codemods!Target(d, x) = IF x.type THEN "review" ELSE Codemods!HostNest
          BY <1>3, <2>1, <2>3 DEF Codemods!Target
        <4> QED
          BY <4>1 DEF Codemods!HostNest
      <3>2. Codemods!Renamed(d, x) = [x EXCEPT !.name = "AppspineAuthGuard"]
        BY <1>3, <2>3 DEF Codemods!Renamed
      <3>3. [x EXCEPT !.name = "AppspineAuthGuard"]
              = [name |-> "AppspineAuthGuard", local |-> x.local, type |-> x.type]
        OBVIOUS
      <3>4. Codemods!Declared(d.from, x.name) = <<"@appspine/plugin-host-nest", "AppspineAuthGuard">>
        BY <1>3, <2>1, <2>3 DEF Codemods!Declared, Codemods!HostNest
      <3>5. "@appspine/plugin-host-nest" \in PackageOwners /\ "@appspine/plugin-host-nest" # d.from
        BY <1>3 DEF PackageOwners, Codemods!KeysPkg
      <3> QED
        BY <3>1, <3>2, <3>3, <3>4, <3>5, OwnersDeclare
    <2> QED
      BY <2>2, <2>3
  <1>4. CASE d.from \notin Codemods!Shell \cup {Codemods!Auth, Codemods!KeysPkg}
    <2>1. Codemods!Target(d, x) = d.from
      BY <1>4 DEF Codemods!Target
    <2>2. Codemods!Renamed(d, x) = x
      BY <1>4 DEF Codemods!Renamed
    <2> QED
      BY <2>1, <2>2
  <1> QED
    BY <1>1, <1>2, <1>3, <1>4

(* What one statement's names stand for. *)
Means(d) == {[local |-> x.local, type |-> x.type, is |-> Codemods!Declared(d.from, x.name)] : x \in d.names}

(* A statement that neither codemod changes, and that v3 has nothing to say of. *)
Quiet(d) == ~Codemods!Outdated(d) /\ Codemods!Split(d) = {d} /\ Codemods!MovedPages(d) = {d}

(* importEditFor: the statements that v3 makes of one mean what it meant, and are quiet. *)
LEMMA SplitMeans ==
    ASSUME NEW d, Shaped(d), ~Codemods!ForReview(d)
    PROVE  /\ \A e \in Codemods!Split(d) : Shaped(e)
           /\ UNION {Means(e) : e \in Codemods!Split(d)} = Means(d)
  <1>1. CASE Codemods!Split(d) = {d}
    BY <1>1
  <1>2. CASE Codemods!Split(d) # {d}
    <2>1. d.form = "named"
      BY <1>2 DEF Codemods!Split
    <2>2. Codemods!Split(d) =
            {Codemods!Render(t, {Codemods!Renamed(d, x) : x \in {y \in d.names : Codemods!Target(d, y) = t}}) :
                t \in {Codemods!Target(d, x) : x \in d.names}}
      BY <1>2 DEF Codemods!Split
    <2>3. \A x \in d.names : Codemods!Target(d, x) # "review"
      BY <2>1 DEF Codemods!ForReview
    <2>4. \A x \in d.names : x = [name |-> x.name, local |-> x.local, type |-> x.type]
      BY DEF Shaped
    <2>5. \A x \in d.names :
             /\ Codemods!Renamed(d, x).local = x.local /\ Codemods!Renamed(d, x).type = x.type
             /\ Codemods!Declared(Codemods!Target(d, x), Codemods!Renamed(d, x).name)
                  = Codemods!Declared(d.from, x.name)
             /\ Codemods!Renamed(d, x) = [name |-> Codemods!Renamed(d, x).name,
                                           local |-> x.local, type |-> x.type]
      BY <2>3, <2>4, Moved
    <2> DEFINE Of(t) == {Codemods!Renamed(d, x) : x \in {y \in d.names : Codemods!Target(d, y) = t}}
    <2>6. ASSUME NEW t PROVE /\ Shaped(Codemods!Render(t, Of(t)))
                             /\ Means(Codemods!Render(t, Of(t))) =
                                  {[local |-> x.local, type |-> x.type, is |-> Codemods!Declared(d.from, x.name)] :
                                      x \in {y \in d.names : Codemods!Target(d, y) = t}}
      <3>1. PICK e : e = Codemods!Render(t, Of(t))
        OBVIOUS
      <3>2. e = [form |-> "named", from |-> t, names |-> Of(t), typed |-> Codemods!AllTyped(Of(t))]
        BY <3>1 DEF Codemods!Render, Codemods!Statement
      <3>3. e.typed \in BOOLEAN /\ e.from = t /\ e.names = Of(t)
        BY <3>2 DEF Codemods!AllTyped
      <3>4. Shaped(e)
        BY <2>5, <3>2, <3>3 DEF Shaped
      <3>5. Means(e) = {[local |-> y.local, type |-> y.type, is |-> Codemods!Declared(t, y.name)] : y \in Of(t)}
        BY <3>3 DEF Means
      <3>6. \A x \in {y \in d.names : Codemods!Target(d, y) = t} :
               [local |-> Codemods!Renamed(d, x).local, type |-> Codemods!Renamed(d, x).type,
                is |-> Codemods!Declared(t, Codemods!Renamed(d, x).name)]
                = [local |-> x.local, type |-> x.type, is |-> Codemods!Declared(d.from, x.name)]
        BY <2>5
      <3>7. Means(e) = {[local |-> Codemods!Renamed(d, x).local, type |-> Codemods!Renamed(d, x).type,
                         is |-> Codemods!Declared(t, Codemods!Renamed(d, x).name)] :
                            x \in {y \in d.names : Codemods!Target(d, y) = t}}
        BY <3>5
      <3>8. Means(e) = {[local |-> x.local, type |-> x.type, is |-> Codemods!Declared(d.from, x.name)] :
                            x \in {y \in d.names : Codemods!Target(d, y) = t}}
        BY <3>6, <3>7, Zenon
      <3> QED
        BY <3>1, <3>4, <3>8
    <2>7. Codemods!Split(d) = {Codemods!Render(t, Of(t)) : t \in {Codemods!Target(d, x) : x \in d.names}}
      BY <2>2
    <2> HIDE DEF Of
    <2>8. \A e \in Codemods!Split(d) : Shaped(e)
      BY <2>6, <2>7
    <2>9. UNION {Means(e) : e \in Codemods!Split(d)} = Means(d)
      <3>1. ASSUME NEW e \in Codemods!Split(d) PROVE Means(e) \subseteq Means(d)
        BY <2>6, <2>7 DEF Means
      <3>2. ASSUME NEW z \in Means(d) PROVE \E e \in Codemods!Split(d) : z \in Means(e)
        <4>1. PICK x \in d.names :
                 z = [local |-> x.local, type |-> x.type, is |-> Codemods!Declared(d.from, x.name)]
          BY <3>2 DEF Means
        <4>2. PICK t : t = Codemods!Target(d, x)
          OBVIOUS
        <4>3. Codemods!Render(t, Of(t)) \in Codemods!Split(d)
          BY <2>7, <4>2
        <4>4. z \in Means(Codemods!Render(t, Of(t)))
          BY <2>6, <4>1, <4>2
        <4> QED
          BY <4>3, <4>4
      <3> QED
        BY <3>1, <3>2
    <2> QED
      BY <2>8, <2>9
  <1> QED
    BY <1>1, <1>2

(* What v3 makes is quiet: what stays stays, and what was moved is with its owner. *)
LEMMA SplitSettles ==
    ASSUME NEW d, Shaped(d), ~Codemods!ForReview(d), NEW e \in Codemods!Split(d)
    PROVE  Quiet(e)
  <1>1. Shaped(e)
    BY SplitMeans
  <1>2. (e.form \in {"default", "namespace", "bare"} => e.from # Codemods!Auth)
        /\ (e.form = "named" => \A x \in e.names : Codemods!Target(e, x) = e.from)
    <2>1. CASE Codemods!Split(d) = {d}
      <3>1. e = d
        BY <2>1
      <3>2. e.form = "named" => \A x \in e.names : Codemods!Target(e, x) = e.from
        <4>1. SUFFICES ASSUME d.form = "named", NEW x \in d.names, Codemods!Target(d, x) # d.from
                       PROVE  FALSE
          BY <3>1
        <4>2. Codemods!Target(d, x) # "review"
          BY <4>1 DEF Codemods!ForReview
        <4>3. Codemods!Target(d, x) \in PackageOwners
          BY <4>1, <4>2, Moved DEF Shaped
        <4>4. PICK t, names : t = Codemods!Target(d, x)
                 /\ names = {Codemods!Renamed(d, y) : y \in {z \in d.names : Codemods!Target(d, z) = t}}
          OBVIOUS
        <4>5. Codemods!Render(t, names) \in Codemods!Split(d)
          <5>1. Codemods!Split(d) =
                  {Codemods!Render(u, {Codemods!Renamed(d, y) :
                                          y \in {z \in d.names : Codemods!Target(d, z) = u}}) :
                      u \in {Codemods!Target(d, y) : y \in d.names}}
            BY <4>1 DEF Codemods!Split
          <5> QED
            BY <4>1, <4>4, <5>1
        <4>6. d.from = t
          BY <2>1, <4>5 DEF Codemods!Render, Codemods!Statement
        <4> QED
          BY <4>1, <4>4, <4>6
      <3> QED
        BY <3>1, <3>2 DEF Codemods!ForReview
    <2>2. CASE Codemods!Split(d) # {d}
      <3>1. d.form = "named"
        BY <2>2 DEF Codemods!Split
      <3>2. PICK t \in {Codemods!Target(d, x) : x \in d.names} :
               e = Codemods!Render(t, {Codemods!Renamed(d, x) : x \in {y \in d.names : Codemods!Target(d, y) = t}})
        BY <2>2 DEF Codemods!Split
      <3>3. e.form = "named" /\ e.from = t
            /\ e.names = {Codemods!Renamed(d, x) : x \in {y \in d.names : Codemods!Target(d, y) = t}}
        BY <3>2 DEF Codemods!Render, Codemods!Statement
      <3>4. SUFFICES ASSUME NEW x \in d.names, Codemods!Target(d, x) = t
                     PROVE  Codemods!Target(e, Codemods!Renamed(d, x)) = t
        BY <3>3
      <3>5. /\ Codemods!Target(d, x) \in PackageOwners \cup {d.from}
            /\ Codemods!Target(d, x) = d.from => Codemods!Renamed(d, x) = x
        BY <3>1, Moved DEF Codemods!ForReview, Shaped
      <3>6. CASE t = d.from
        BY <3>3, <3>4, <3>5, <3>6, Zenon DEF Codemods!Target
      <3>7. CASE t \in PackageOwners
        <4>1. e.from \notin Codemods!Shell \cup {Codemods!Auth, Codemods!KeysPkg}
          BY <3>3, <3>7, OwnersDeclare
        <4>2. Codemods!Target(e, Codemods!Renamed(d, x)) = e.from
          BY <4>1 DEF Codemods!Target
        <4> QED
          BY <3>3, <4>2
      <3> QED
        BY <3>4, <3>5, <3>6, <3>7
    <2> QED
      BY <2>1, <2>2
  <1>3. ~Codemods!Outdated(e) /\ Codemods!Split(e) = {e}
    BY <1>2 DEF Codemods!Outdated, Codemods!Split
  <1>4. Codemods!MovedPages(e) = {e}
    <2>1. CASE e.form # "named" \/ e.typed \/ e.from \notin Codemods!Shell \/ e.names = {}
      BY <2>1 DEF Codemods!MovedPages
    <2>2. CASE ~(e.form # "named" \/ e.typed \/ e.from \notin Codemods!Shell \/ e.names = {})
      <3>1. ASSUME NEW x \in e.names PROVE Codemods!PageTarget(e, x) = e.from
        <4>1. e.from # Codemods!Auth /\ e.from # Codemods!KeysPkg
          BY <2>2 DEF Codemods!Auth, Codemods!KeysPkg, Codemods!Shell
        <4>2. Codemods!Target(e, x) = IF Codemods!FrontendOwner(x.name) = "" THEN e.from
                                      ELSE Codemods!FrontendOwner(x.name)
          BY <2>2, <4>1, Zenon DEF Codemods!Target
        <4>3. Codemods!FrontendOwner(x.name) = ""
          BY <1>2, <2>2, <3>1, <4>2, OwnersOwn, OwnersDeclare
        <4>4. Codemods!PageOwner(x.name) = ""
          BY <4>3, OwnersOwn
        <4> QED
          BY <4>4 DEF Codemods!PageTarget
      <3>2. {x \in e.names : Codemods!PageTarget(e, x) = e.from} = e.names
            /\ {Codemods!PageTarget(e, x) : x \in e.names} = {e.from}
        BY <2>2, <3>1
      <3>3. Codemods!MovedPages(e) = {Codemods!Statement("named", e.from, e.names, FALSE)}
        <4>1. Codemods!MovedPages(e)
                = {Codemods!Statement("named", t_, {x \in e.names : Codemods!PageTarget(e, x) = t_}, FALSE) :
                     t_ \in {Codemods!PageTarget(e, x) : x \in e.names}}
          BY <2>2, Zenon DEF Codemods!MovedPages
        <4> QED
          BY <3>2, <4>1
      <3>4. e = Codemods!Statement("named", e.from, e.names, FALSE)
        BY <1>1, <2>2 DEF Shaped, Codemods!Statement
      <3> QED
        BY <3>3, <3>4
    <2> QED
      BY <2>1, <2>2
  <1> QED
    BY <1>3, <1>4 DEF Quiet

(* transformSource of pl3: a page that is moved means what it meant. *)
LEMMA PagesMean ==
    ASSUME NEW d, Shaped(d)
    PROVE  /\ \A e \in Codemods!MovedPages(d) : Shaped(e)
           /\ UNION {Means(e) : e \in Codemods!MovedPages(d)} = Means(d)
  <1>1. CASE Codemods!MovedPages(d) = {d}
    BY <1>1
  <1>2. CASE Codemods!MovedPages(d) # {d}
    <2>1. d.form = "named" /\ d.from \in Codemods!Shell
      BY <1>2 DEF Codemods!MovedPages
    <2> DEFINE Of(t) == {x \in d.names : Codemods!PageTarget(d, x) = t}
    <2>2. Codemods!MovedPages(d) = {Codemods!Statement("named", t, Of(t), FALSE) :
                                       t \in {Codemods!PageTarget(d, x) : x \in d.names}}
      BY <1>2 DEF Codemods!MovedPages
    <2>3. ASSUME NEW x \in d.names
          PROVE  Codemods!Declared(Codemods!PageTarget(d, x), x.name) = Codemods!Declared(d.from, x.name)
      <3>1. CASE Codemods!PageOwner(x.name) = ""
        BY <3>1 DEF Codemods!PageTarget
      <3>2. CASE Codemods!PageOwner(x.name) # ""
        <4>1. Codemods!PageTarget(d, x) = Codemods!PageOwner(x.name)
              /\ Codemods!PageOwner(x.name) \in PackageOwners
              /\ Codemods!FrontendOwner(x.name) = Codemods!PageOwner(x.name)
          BY <3>2, OwnersOwn DEF Codemods!PageTarget
        <4>2. d.from # Codemods!Auth /\ d.from # Codemods!KeysPkg
          BY <2>1 DEF Codemods!Auth, Codemods!KeysPkg, Codemods!Shell
        <4>3. Codemods!Declared(d.from, x.name) = <<Codemods!FrontendOwner(x.name), x.name>>
          BY <2>1, <3>2, <4>1, <4>2 DEF Codemods!Declared
        <4> QED
          BY <4>1, <4>3, OwnersDeclare
      <3> QED
        BY <3>1, <3>2
    <2>4. ASSUME NEW t PROVE /\ Shaped(Codemods!Statement("named", t, Of(t), FALSE))
                             /\ Means(Codemods!Statement("named", t, Of(t), FALSE)) =
                                  {[local |-> x.local, type |-> x.type, is |-> Codemods!Declared(d.from, x.name)] :
                                      x \in Of(t)}
      <3>1. PICK e : e = Codemods!Statement("named", t, Of(t), FALSE)
        OBVIOUS
      <3>2. e = [form |-> "named", from |-> t, names |-> Of(t), typed |-> FALSE]
        BY <3>1 DEF Codemods!Statement
      <3>3. Shaped(e)
        BY <3>2 DEF Shaped
      <3>4. Means(e) = {[local |-> x.local, type |-> x.type, is |-> Codemods!Declared(t, x.name)] : x \in Of(t)}
        BY <3>2 DEF Means
      <3>5. \A x \in Of(t) : Codemods!Declared(t, x.name) = Codemods!Declared(d.from, x.name)
        BY <2>3
      <3> QED
        BY <3>1, <3>3, <3>4, <3>5
    <2> HIDE DEF Of
    <2>5. \A e \in Codemods!MovedPages(d) : Shaped(e)
      BY <2>2, <2>4
    <2>6. \A t : Of(t) \subseteq d.names
      BY DEF Of
    <2>7. \A x \in d.names : x \in Of(Codemods!PageTarget(d, x))
      BY DEF Of
    <2>8. UNION {Means(e) : e \in Codemods!MovedPages(d)} = Means(d)
      <3>1. ASSUME NEW e \in Codemods!MovedPages(d) PROVE Means(e) \subseteq Means(d)
        <4>1. PICK t : e = Codemods!Statement("named", t, Of(t), FALSE)
          BY <2>2, <3>1
        <4>2. Means(e) = {[local |-> x.local, type |-> x.type, is |-> Codemods!Declared(d.from, x.name)] :
                              x \in Of(t)}
          BY <2>4, <4>1
        <4> QED
          BY <2>6, <4>2 DEF Means
      <3>2. ASSUME NEW z \in Means(d) PROVE \E e \in Codemods!MovedPages(d) : z \in Means(e)
        <4>1. PICK x \in d.names :
                 z = [local |-> x.local, type |-> x.type, is |-> Codemods!Declared(d.from, x.name)]
          BY <3>2 DEF Means
        <4>2. PICK t : t = Codemods!PageTarget(d, x)
          OBVIOUS
        <4>3. Codemods!Statement("named", t, Of(t), FALSE) \in Codemods!MovedPages(d)
          BY <2>2, <4>2
        <4>4. z \in Means(Codemods!Statement("named", t, Of(t), FALSE))
          BY <2>4, <2>7, <4>1, <4>2
        <4> QED
          BY <4>3, <4>4
      <3> QED
        BY <3>1, <3>2
    <2> QED
      BY <2>5, <2>8
  <1> QED
    BY <1>1, <1>2

(* A file: its statements are shaped, and its names mean what they did. *)
Formed(file) == \A d \in file : Shaped(d)
LEMMA FileMeans ==
    ASSUME NEW file, Formed(file), NEW tool
    PROVE  /\ Formed(Codemods!Rewritten(tool, file))
           /\ Codemods!Meaning(Codemods!Rewritten(tool, file)) = Codemods!Meaning(file)
  <1>1. \A f : Codemods!Meaning(f) = UNION {Means(d) : d \in f}
    BY DEF Codemods!Meaning, Means
  <1>2. CASE tool = "v3" /\ ~Codemods!Reviewed(file)
    <2>1. PICK f : f = UNION {Codemods!Split(d) : d \in file}
      OBVIOUS
    <2>2. Codemods!Rewritten(tool, file) = f
      BY <1>2, <2>1 DEF Codemods!Rewritten, Codemods!Migrated
    <2>3. \A d \in file : /\ \A e \in Codemods!Split(d) : Shaped(e)
                          /\ UNION {Means(e) : e \in Codemods!Split(d)} = Means(d)
      BY <1>2, SplitMeans DEF Formed, Codemods!Reviewed
    <2>4. Formed(f)
      BY <2>1, <2>3 DEF Formed
    <2>5. UNION {Means(d) : d \in f} = UNION {Means(d) : d \in file}
      BY <2>1, <2>3
    <2> QED
      BY <1>1, <2>2, <2>4, <2>5
  <1>3. CASE tool = "v3" /\ Codemods!Reviewed(file)
    BY <1>3 DEF Codemods!Rewritten, Codemods!Migrated
  <1>4. CASE tool # "v3"
    <2>1. PICK f : f = UNION {Codemods!MovedPages(d) : d \in file}
      OBVIOUS
    <2>2. Codemods!Rewritten(tool, file) = f
      BY <1>4, <2>1 DEF Codemods!Rewritten, Codemods!PagesMoved
    <2>3. \A d \in file : /\ \A e \in Codemods!MovedPages(d) : Shaped(e)
                          /\ UNION {Means(e) : e \in Codemods!MovedPages(d)} = Means(d)
      BY PagesMean DEF Formed
    <2>4. Formed(f)
      BY <2>1, <2>3 DEF Formed
    <2>5. UNION {Means(d) : d \in f} = UNION {Means(d) : d \in file}
      BY <2>1, <2>3
    <2> QED
      BY <1>1, <2>2, <2>4, <2>5
  <1> QED
    BY <1>2, <1>3, <1>4

(* A file that is done: neither codemod changes it, and v3 has no complaint. *)
Settled(file) == \A d \in file : Quiet(d)
LEMMA FileSettles ==
    ASSUME NEW file, Formed(file), ~Codemods!Reviewed(file)
    PROVE  Settled(Codemods!Rewritten("v3", file))
  <1>1. Codemods!Rewritten("v3", file) = UNION {Codemods!Split(d) : d \in file}
    BY DEF Codemods!Rewritten, Codemods!Migrated
  <1>2. \A d \in file : \A e \in Codemods!Split(d) : Quiet(e)
    BY SplitSettles DEF Formed, Codemods!Reviewed
  <1> QED
    BY <1>1, <1>2 DEF Settled
LEMMA SettledStays ==
    ASSUME NEW file, Settled(file), NEW tool
    PROVE  Codemods!Rewritten(tool, file) = file
  <1>1. \A d \in file : Codemods!Split(d) = {d} /\ Codemods!MovedPages(d) = {d}
    BY DEF Settled, Quiet
  <1>2. UNION {Codemods!Split(d) : d \in file} = file /\ UNION {Codemods!MovedPages(d) : d \in file} = file
    BY <1>1
  <1>3. UNION {Codemods!Split(st) : st \in file} = file
    BY <1>2, SMT
  <1>4. Codemods!Migrated(file) = file
    BY <1>3, SMT DEF Codemods!Migrated
  <1>5. Codemods!PagesMoved(file) = file
    BY <1>2, SMT DEF Codemods!PagesMoved
  <1> QED
    BY <1>4, <1>5, SMT DEF Codemods!Rewritten

(* The files in their order, each with what it is meant to be; those that a run of v3 has behind
   it, and all after one that ended with 0. *)
CodemodInv ==
    /\ job \in [tool : {"none", "v3", "pl3"}, dry : BOOLEAN, next : Nat, manual : SUBSET Nat]
    /\ \E n \in Nat : DOMAIN files = 1..n /\ job.next <= n + 1
    /\ job.tool # "none" => job.next # 0
    /\ DOMAIN meant = DOMAIN files
    /\ \A i \in DOMAIN files : Formed(files[i]) /\ Codemods!Meaning(files[i]) = meant[i]
    /\ verdictOf = "clean" => \A i \in DOMAIN files : Settled(files[i])
    /\ job.tool = "v3" /\ ~job.dry /\ job.manual = {}
         => \A i \in DOMAIN files : i < job.next => Settled(files[i])

LEMMA CodemodStart == Codemods!Init => CodemodInv
  <1> SUFFICES ASSUME Codemods!Init PROVE CodemodInv
    OBVIOUS
  <1>1. /\ files \in FoundApps /\ meant = [i \in DOMAIN files |-> Codemods!Meaning(files[i])]
        /\ job = [tool |-> "none", dry |-> FALSE, next |-> 0, manual |-> {}] /\ verdictOf = "none"
    BY DEF Codemods!Init, Codemods!Idle
  <1>2. files \in Seq({files[i] : i \in DOMAIN files}) /\ \A i \in DOMAIN files : Formed(files[i])
    BY <1>1, ImportAssumption DEF Formed
  <1>3. Len(files) \in Nat /\ DOMAIN files = 1..Len(files)
    BY <1>2
  <1>4. job \in [tool : {"none", "v3", "pl3"}, dry : BOOLEAN, next : Nat, manual : SUBSET Nat]
    BY <1>1
  <1>5. \E n \in Nat : DOMAIN files = 1..n /\ job.next <= n + 1
    <2>1. job.next = 0
      BY <1>1
    <2>2. PICK n \in Nat : n = Len(files)
      BY <1>3, Zenon
    <2>3. DOMAIN files = 1..n
      BY <1>3, <2>2, Zenon
    <2>4. job.next <= n + 1
      BY <2>1
    <2> QED
      BY <2>3, <2>4, Zenon
  <1>6. DOMAIN meant = DOMAIN files
        /\ \A i \in DOMAIN files : Formed(files[i]) /\ Codemods!Meaning(files[i]) = meant[i]
    <2>1. PICK m : m = [i \in DOMAIN files |-> Codemods!Meaning(files[i])]
      OBVIOUS
    <2>2. meant = m
      BY <1>1, <2>1
    <2>3. DOMAIN m = DOMAIN files /\ \A i \in DOMAIN files : Codemods!Meaning(files[i]) = m[i]
      BY <2>1, Zenon
    <2> QED
      BY <1>2, <2>2, <2>3, Zenon
  <1>7. job.tool = "none" /\ verdictOf # "clean"
    BY <1>1
  <1> QED
    BY <1>4, <1>5, <1>6, <1>7 DEF CodemodInv

(* One file of a run. *)
LEMMA VisitStep == CodemodInv /\ Codemods!Visit => CodemodInv'
  <1> SUFFICES ASSUME CodemodInv, Codemods!Visit PROVE CodemodInv'
    OBVIOUS
  <1>0. PICK i, tool, dry, old : i = job.next /\ tool = job.tool /\ dry = job.dry /\ old = job.manual
    OBVIOUS
  <1>1. /\ i \in DOMAIN files /\ i = job.next /\ tool = job.tool /\ dry = job.dry /\ old = job.manual
        /\ files' = IF dry THEN files ELSE [files EXCEPT ![i] = Codemods!Rewritten(tool, @)]
        /\ job' = [job EXCEPT !.next = i + 1,
                     !.manual = @ \cup {j \in {i} : tool = "v3" /\ Codemods!Reviewed(files[j])}]
        /\ UNCHANGED <<meant, verdictOf>>
    <2>1. /\ i \in DOMAIN files
          /\ files' = IF dry THEN files ELSE [files EXCEPT ![i] = Codemods!Rewritten(tool, @)]
          /\ UNCHANGED <<meant, verdictOf>>
      BY <1>0 DEF Codemods!Visit
    <2>2. job' = [job EXCEPT !.next = i + 1,
                    !.manual = @ \cup {j \in {i} : tool = "v3" /\ Codemods!Reviewed(files[j])}]
      BY <1>0 DEF Codemods!Visit
    <2> QED
      BY <1>0, <2>1, <2>2
  <1>2. PICK n \in Nat : DOMAIN files = 1..n
    BY DEF CodemodInv
  <1>3. i \in Nat /\ i + 1 <= n + 1 /\ old \in SUBSET Nat /\ tool \in {"none", "v3", "pl3"} /\ dry \in BOOLEAN
    BY <1>1, <1>2 DEF CodemodInv
  <1>4. PICK more : more = old \cup {j \in {i} : tool = "v3" /\ Codemods!Reviewed(files[j])}
    OBVIOUS
  <1>5. job' = [tool |-> tool, dry |-> dry, next |-> i + 1, manual |-> more]
    BY <1>1, <1>4 DEF CodemodInv
  <1>6. job' \in [tool : {"none", "v3", "pl3"}, dry : BOOLEAN, next : Nat, manual : SUBSET Nat]
    <2>1. \A j \in more : j \in old \cup {i}
      BY <1>4
    <2>2. \A j \in more : j \in Nat
      BY <1>3, <2>1
    <2>3. more \in SUBSET Nat /\ i + 1 \in Nat
      BY <1>3, <2>2
    <2> QED
      BY <1>3, <1>5, <2>3
  <1>7. PICK new : new = Codemods!Rewritten(tool, files[i])
    OBVIOUS
  <1>8. DOMAIN files' = DOMAIN files
        /\ \A j \in DOMAIN files : files'[j] = IF j = i /\ ~dry THEN new ELSE files[j]
    BY <1>1, <1>7
  <1>9. Formed(new) /\ Codemods!Meaning(new) = Codemods!Meaning(files[i])
    BY <1>1, <1>7, FileMeans DEF CodemodInv
  <1>10. \A j \in DOMAIN files : Formed(files'[j]) /\ Codemods!Meaning(files'[j]) = meant[j]
    BY <1>8, <1>9 DEF CodemodInv
  <1>11. \A j \in DOMAIN files : Settled(files[j]) => files'[j] = files[j]
    BY <1>7, <1>8, SettledStays
  <1>12. ASSUME tool = "v3", ~dry, more = {}, NEW j \in DOMAIN files, j < i + 1
         PROVE  Settled(files'[j])
    <2>1. CASE j = i
      <3>1. ~Codemods!Reviewed(files[i])
        BY <1>4, <1>12
      <3>2. Settled(new)
        BY <1>1, <1>7, <1>12, <3>1, FileSettles DEF CodemodInv
      <3> QED
        BY <1>8, <1>12, <2>1, <3>2
    <2>2. CASE j # i
      <3>1. j < i /\ old = {}
        BY <1>2, <1>3, <1>4, <1>12, <2>2
      <3>2. Settled(files[j])
        BY <1>1, <1>12, <3>1 DEF CodemodInv
      <3> QED
        BY <1>11, <3>2
    <2> QED
      BY <2>1, <2>2
  <1>13. verdictOf' = "clean" => \A j \in DOMAIN files : Settled(files'[j])
    BY <1>1, <1>11 DEF CodemodInv
  <1>14. \E m \in Nat : DOMAIN files' = 1..m /\ i + 1 <= m + 1
    BY <1>2, <1>3, <1>8
  <1>15. /\ job'.tool = tool /\ job'.dry = dry /\ job'.manual = more
         /\ job'.next = i + 1 /\ i + 1 # 0
    BY <1>3, <1>5
  <1>16. DOMAIN meant' = DOMAIN files'
    BY <1>1, <1>8 DEF CodemodInv
  <1>17. \A j \in DOMAIN files' : Formed(files'[j]) /\ Codemods!Meaning(files'[j]) = meant'[j]
    BY <1>1, <1>8, <1>10
  <1> QED
    BY <1>6, <1>8, <1>12, <1>13, <1>14, <1>15, <1>16, <1>17 DEF CodemodInv

(* The team's edit of one file. *)
LEMMA CodeEditStep ==
    ASSUME CodemodInv, NEW i \in DOMAIN files, NEW file, Formed(file), Codemods!Edit(i, file)
    PROVE  CodemodInv'
  <1>1. /\ job = [tool |-> "none", dry |-> FALSE, next |-> 0, manual |-> {}] /\ job' = job
        /\ files' = [files EXCEPT ![i] = file]
        /\ meant' = [meant EXCEPT ![i] = Codemods!Meaning(file)] /\ verdictOf' = "none"
    BY DEF Codemods!Edit, Codemods!Idle
  <1>2. PICK m : m = Codemods!Meaning(file)
    OBVIOUS
  <1>3. /\ DOMAIN files' = DOMAIN files /\ DOMAIN meant' = DOMAIN files
        /\ \A j \in DOMAIN files : files'[j] = (IF j = i THEN file ELSE files[j])
                                  /\ meant'[j] = (IF j = i THEN m ELSE meant[j])
    BY <1>1, <1>2 DEF CodemodInv
  <1>4. \A j \in DOMAIN files : Formed(files'[j]) /\ Codemods!Meaning(files'[j]) = meant'[j]
    BY <1>2, <1>3 DEF CodemodInv
  <1> QED
    BY <1>1, <1>3, <1>4 DEF CodemodInv

LEMMA CodemodStep ==
    ASSUME CodemodInv, Codemods!Next \/ UNCHANGED movedVars
    PROVE  CodemodInv'
  <1>1. CASE \E tool \in {"v3", "pl3"}, dry \in BOOLEAN : Codemods!Start(tool, dry)
    <2>1. PICK tool \in {"v3", "pl3"}, dry \in BOOLEAN : Codemods!Start(tool, dry)
      BY <1>1
    <2>2. /\ job' = [tool |-> tool, dry |-> dry, next |-> 1, manual |-> {}]
          /\ UNCHANGED <<files, meant, verdictOf>>
      BY <2>1 DEF Codemods!Start
    <2>3. \E n \in Nat : DOMAIN files = 1..n /\ 1 <= n + 1
      BY DEF CodemodInv
    <2>4. \A i \in DOMAIN files : ~(i < 1)
      BY <2>3
    <2>5. job' \in [tool : {"none", "v3", "pl3"}, dry : BOOLEAN, next : Nat, manual : SUBSET Nat]
      BY <2>2
    <2> QED
      BY <2>2, <2>3, <2>4, <2>5 DEF CodemodInv
  <1>2. CASE Codemods!Visit
    BY <1>2, VisitStep
  <1>3. CASE Codemods!Finish
    <2>1. /\ job.next \notin DOMAIN files /\ UNCHANGED <<files, meant>>
          /\ job # [tool |-> "none", dry |-> FALSE, next |-> 0, manual |-> {}]
          /\ job' = [tool |-> "none", dry |-> FALSE, next |-> 0, manual |-> {}]
          /\ verdictOf' = IF job.tool # "v3" \/ job.dry THEN verdictOf
                          ELSE IF job.manual = {} THEN "clean" ELSE "review"
      BY <1>3 DEF Codemods!Finish, Codemods!Idle
    <2>2. PICK n \in Nat : DOMAIN files = 1..n /\ job.next <= n + 1
      BY DEF CodemodInv
    <2>3. verdictOf' = "clean" => \A i \in DOMAIN files : Settled(files[i])
      <3>1. CASE verdictOf' = verdictOf
        BY <3>1 DEF CodemodInv
      <3>2. CASE job.tool = "v3" /\ ~job.dry /\ job.manual = {} /\ job.next >= 1
        <4>1. \A i \in DOMAIN files : i < job.next
          BY <2>1, <2>2, <3>2 DEF CodemodInv
        <4> QED
          BY <3>2, <4>1 DEF CodemodInv
      <3> QED
        BY <2>1, <3>1, <3>2 DEF CodemodInv
    <2>4. 0 <= n + 1
      BY <2>2
    <2>5. job' \in [tool : {"none", "v3", "pl3"}, dry : BOOLEAN, next : Nat, manual : SUBSET Nat]
      BY <2>1
    <2> QED
      BY <2>1, <2>2, <2>3, <2>4, <2>5 DEF CodemodInv
  <1>4. CASE Codemods!Killed
    <2>1. /\ job' = [tool |-> "none", dry |-> FALSE, next |-> 0, manual |-> {}]
          /\ UNCHANGED <<files, meant, verdictOf>>
      BY <1>4 DEF Codemods!Killed, Codemods!Idle
    <2>2. \E n \in Nat : DOMAIN files = 1..n /\ 0 <= n + 1
      BY DEF CodemodInv
    <2>3. job' \in [tool : {"none", "v3", "pl3"}, dry : BOOLEAN, next : Nat, manual : SUBSET Nat]
      BY <2>1
    <2> QED
      BY <2>1, <2>2, <2>3 DEF CodemodInv
  <1>5. ASSUME NEW i \in DOMAIN files, NEW file, Codemods!Edit(i, file),
               file \subseteq files[i] \cup WrittenImports
        PROVE  CodemodInv'
    <2>1. Formed(file)
      BY <1>5, ImportAssumption DEF CodemodInv, Formed
    <2> QED
      BY <1>5, <2>1, CodeEditStep
  <1>6. CASE UNCHANGED movedVars
    BY <1>6 DEF movedVars, CodemodInv
  <1>7. CASE \E i \in DOMAIN files :
               \/ \E e \in files[i] : Codemods!Edit(i, files[i] \ {e})
               \/ \E e \in WrittenImports : Codemods!Edit(i, files[i] \cup {e})
    BY <1>5, <1>7
  <1> QED
    BY <1>1, <1>2, <1>3, <1>4, <1>6, <1>7 DEF Codemods!Next

LEMMA CodemodsTell == CodemodInv => Codemods!MigratedRightly
  <1> SUFFICES ASSUME CodemodInv PROVE Codemods!MigratedRightly
    OBVIOUS
  <1>1. \A file : Settled(file) => /\ \A d \in file : ~Codemods!Outdated(d)
                                   /\ \A tool : Codemods!Rewritten(tool, file) = file
    BY SettledStays DEF Settled, Quiet
  <1> QED
    BY <1>1 DEF CodemodInv, Codemods!MigratedRightly, Codemods!MeaningKept, Codemods!CleanIsClean

--------------------------------------------------------------------------------
(* The host *)

(* What the manifests say of the capabilities that some class takes. *)
Declares(m) ==
    /\ m.id \in 1..12
    /\ "audit-sink" \in m.provides <=> m.id = 1
    /\ "identity-store" \in m.provides <=> m.id = 4
    /\ "scope-matcher" \in m.provides <=> m.id = 5
    /\ "identity-delegation" \in m.provides <=> m.id = 11
    /\ "rbac-policy" \in m.provides <=> m.id = 12

AppOffers == {"prisma", "principal-context", "authentication-strategy-registry"}
Asks(m) ==
    /\ m.requires \subseteq (AppOffers \cup {"identity-store", "audit-sink", "identity-delegation"}) \X {0}
    /\ m.id \in {5, 10} => <<"identity-store", 0>> \in m.requires
    /\ m.id = 10 => <<"audit-sink", 0>> \in m.requires
Takes(m) ==
    /\ m.id \in {4, 5, 12} => <<"audit-sink", 0>> \in m.optionalRequires
    /\ m.id \in {5, 10} => <<"rbac-policy", 0>> \in m.optionalRequires
    /\ m.id \in {2, 7, 8} => <<"scope-matcher", 0>> \in m.optionalRequires
    /\ m.id = 4 => <<"rbac-policy", 0>> \notin m.requires \cup m.optionalRequires
    /\ m.id = 3 => <<"AppspinePluginHost", 0>> \notin m.requires \cup m.optionalRequires

LEMMA AllDeclares == \A m \in Host!Manifests : Declares(m)
  <1>1. Declares(Host!AuditLog)
    BY DEF Declares, Host!AuditLog, Host!Official, Host!Names
  <1>2. Declares(Host!DomainEvents)
    BY DEF Declares, Host!DomainEvents, Host!Official, Host!Names
  <1>3. Declares(Host!HealthCheck)
    BY DEF Declares, Host!HealthCheck, Host!Official, Host!Names
  <1>4. Declares(Host!IdentityCore)
    BY DEF Declares, Host!IdentityCore, Host!Official, Host!Names
  <1>5. Declares(Host!M2mApiKey)
    BY DEF Declares, Host!M2mApiKey, Host!Official, Host!Names
  <1>6. Declares(Host!MasterDataClient)
    BY DEF Declares, Host!MasterDataClient, Host!Official, Host!Names
  <1>7. Declares(Host!McpServer)
    BY DEF Declares, Host!McpServer, Host!Official, Host!Names
  <1>8. Declares(Host!MetadataSchema)
    BY DEF Declares, Host!MetadataSchema, Host!Official, Host!Names
  <1>9. Declares(Host!Notification)
    BY DEF Declares, Host!Notification, Host!Official, Host!Names
  <1>10. Declares(Host!OidcAuth)
    BY DEF Declares, Host!OidcAuth, Host!Official, Host!Names
  <1>11. Declares(Host!OidcDelegation)
    BY DEF Declares, Host!OidcDelegation, Host!Official, Host!Names
  <1>12. Declares(Host!Rbac)
    BY DEF Declares, Host!Rbac, Host!Official, Host!Names
  <1> QED
    BY <1>1, <1>2, <1>3, <1>4, <1>5, <1>6, <1>7, <1>8, <1>9, <1>10, <1>11, <1>12
       DEF Host!Manifests

LEMMA AllAsks == \A m \in Host!Manifests : Asks(m)
  <1>1. Asks(Host!AuditLog)
    BY DEF Asks, Host!AuditLog, Host!Official, Host!Names, AppOffers
  <1>2. Asks(Host!DomainEvents)
    BY DEF Asks, Host!DomainEvents, Host!Official, Host!Names, AppOffers
  <1>3. Asks(Host!HealthCheck)
    BY DEF Asks, Host!HealthCheck, Host!Official, Host!Names, AppOffers
  <1>4. Asks(Host!IdentityCore)
    BY DEF Asks, Host!IdentityCore, Host!Official, Host!Names, AppOffers
  <1>5. Asks(Host!M2mApiKey)
    BY DEF Asks, Host!M2mApiKey, Host!Official, Host!Names, AppOffers
  <1>6. Asks(Host!MasterDataClient)
    BY DEF Asks, Host!MasterDataClient, Host!Official, Host!Names, AppOffers
  <1>7. Asks(Host!McpServer)
    BY DEF Asks, Host!McpServer, Host!Official, Host!Names, AppOffers
  <1>8. Asks(Host!MetadataSchema)
    BY DEF Asks, Host!MetadataSchema, Host!Official, Host!Names, AppOffers
  <1>9. Asks(Host!Notification)
    BY DEF Asks, Host!Notification, Host!Official, Host!Names, AppOffers
  <1>10. Asks(Host!OidcAuth)
    BY DEF Asks, Host!OidcAuth, Host!Official, Host!Names, AppOffers
  <1>11. Asks(Host!OidcDelegation)
    BY DEF Asks, Host!OidcDelegation, Host!Official, Host!Names, AppOffers
  <1>12. Asks(Host!Rbac)
    BY DEF Asks, Host!Rbac, Host!Official, Host!Names, AppOffers
  <1> QED
    BY <1>1, <1>2, <1>3, <1>4, <1>5, <1>6, <1>7, <1>8, <1>9, <1>10, <1>11, <1>12
       DEF Host!Manifests

LEMMA AllTakes == \A m \in Host!Manifests : Takes(m)
  <1>1. Takes(Host!AuditLog)
    BY DEF Takes, Host!AuditLog, Host!Official, Host!Names
  <1>2. Takes(Host!DomainEvents)
    BY DEF Takes, Host!DomainEvents, Host!Official, Host!Names
  <1>3. Takes(Host!HealthCheck)
    BY DEF Takes, Host!HealthCheck, Host!Official, Host!Names
  <1>4. Takes(Host!IdentityCore)
    BY DEF Takes, Host!IdentityCore, Host!Official, Host!Names
  <1>5. Takes(Host!M2mApiKey)
    BY DEF Takes, Host!M2mApiKey, Host!Official, Host!Names
  <1>6. Takes(Host!MasterDataClient)
    BY DEF Takes, Host!MasterDataClient, Host!Official, Host!Names
  <1>7. Takes(Host!McpServer)
    BY DEF Takes, Host!McpServer, Host!Official, Host!Names
  <1>8. Takes(Host!MetadataSchema)
    BY DEF Takes, Host!MetadataSchema, Host!Official, Host!Names
  <1>9. Takes(Host!Notification)
    BY DEF Takes, Host!Notification, Host!Official, Host!Names
  <1>10. Takes(Host!OidcAuth)
    BY DEF Takes, Host!OidcAuth, Host!Official, Host!Names
  <1>11. Takes(Host!OidcDelegation)
    BY DEF Takes, Host!OidcDelegation, Host!Official, Host!Names
  <1>12. Takes(Host!Rbac)
    BY DEF Takes, Host!Rbac, Host!Official, Host!Names
  <1> QED
    BY <1>1, <1>2, <1>3, <1>4, <1>5, <1>6, <1>7, <1>8, <1>9, <1>10, <1>11, <1>12
       DEF Host!Manifests

LEMMA ManifestIds ==
    /\ Host!AuditLog.id = 1 /\ Host!HealthCheck.id = 3 /\ Host!IdentityCore.id = 4
    /\ Host!M2mApiKey.id = 5 /\ Host!OidcAuth.id = 10 /\ Host!Rbac.id = 12
  <1>1. Host!AuditLog.id = 1 /\ Host!HealthCheck.id = 3 /\ Host!IdentityCore.id = 4
    BY DEF Host!AuditLog, Host!HealthCheck, Host!IdentityCore, Host!Official
  <1>2. Host!M2mApiKey.id = 5 /\ Host!OidcAuth.id = 10 /\ Host!Rbac.id = 12
    BY DEF Host!M2mApiKey, Host!OidcAuth, Host!Rbac, Host!Official
  <1> QED
    BY <1>1, <1>2

LEMMA ManifestIs ==
    ASSUME NEW e, e.id \in 1..12
    PROVE  Host!Graph!ManifestOf(e) \in Host!Manifests /\ Host!Graph!ManifestOf(e).id = e.id
  <1>1. \E m \in Host!Manifests : m.id = e.id
    <2>1. Host!AuditLog \in Host!Manifests /\ Host!AuditLog.id = 1
      BY DEF Host!AuditLog, Host!Official, Host!Manifests
    <2>2. Host!DomainEvents \in Host!Manifests /\ Host!DomainEvents.id = 2
      BY DEF Host!DomainEvents, Host!Official, Host!Manifests
    <2>3. Host!HealthCheck \in Host!Manifests /\ Host!HealthCheck.id = 3
      BY DEF Host!HealthCheck, Host!Official, Host!Manifests
    <2>4. Host!IdentityCore \in Host!Manifests /\ Host!IdentityCore.id = 4
      BY DEF Host!IdentityCore, Host!Official, Host!Manifests
    <2>5. Host!M2mApiKey \in Host!Manifests /\ Host!M2mApiKey.id = 5
      BY DEF Host!M2mApiKey, Host!Official, Host!Manifests
    <2>6. Host!MasterDataClient \in Host!Manifests /\ Host!MasterDataClient.id = 6
      BY DEF Host!MasterDataClient, Host!Official, Host!Manifests
    <2>7. Host!McpServer \in Host!Manifests /\ Host!McpServer.id = 7
      BY DEF Host!McpServer, Host!Official, Host!Manifests
    <2>8. Host!MetadataSchema \in Host!Manifests /\ Host!MetadataSchema.id = 8
      BY DEF Host!MetadataSchema, Host!Official, Host!Manifests
    <2>9. Host!Notification \in Host!Manifests /\ Host!Notification.id = 9
      BY DEF Host!Notification, Host!Official, Host!Manifests
    <2>10. Host!OidcAuth \in Host!Manifests /\ Host!OidcAuth.id = 10
      BY DEF Host!OidcAuth, Host!Official, Host!Manifests
    <2>11. Host!OidcDelegation \in Host!Manifests /\ Host!OidcDelegation.id = 11
      BY DEF Host!OidcDelegation, Host!Official, Host!Manifests
    <2>12. Host!Rbac \in Host!Manifests /\ Host!Rbac.id = 12
      BY DEF Host!Rbac, Host!Official, Host!Manifests
    <2> QED
      BY <2>1, <2>2, <2>3, <2>4, <2>5, <2>6, <2>7, <2>8, <2>9, <2>10, <2>11, <2>12
  <1>2. Host!Graph!ManifestOf(e) = CHOOSE m \in Host!Manifests : m.id = e.id
    BY DEF Host!Graph!ManifestOf
  <1> QED
    BY <1>1, <1>2

(* What the modules export, cannot do without, and take. *)
Exports(m, i) ==
    /\ "AuditLogService" \in m.exports <=> i = 1
    /\ "audit-sink" \in m.exports <=> i = 1
    /\ "identity-store" \in m.exports <=> i = 4
    /\ "scope-matcher" \in m.exports <=> i = 5
    /\ "identity-delegation" \in m.exports <=> i = 11
    /\ "rbac-policy" \in m.exports <=> i = 12
    /\ "AppspinePluginHost" \notin m.exports
Injects(m, i) ==
    /\ m.injects \subseteq Host!Auth \cup {"AuditLogService", "identity-store", "audit-sink"}
    /\ "identity-store" \in m.injects => i \in {5, 10}
    /\ "audit-sink" \in m.injects => i = 10
    /\ "AuditLogService" \in m.injects => i \in {5, 12}
    /\ m.optional \subseteq {"scope-matcher", "audit-sink", "rbac-policy", "AppspinePluginHost"}
    /\ "scope-matcher" \in m.optional => i \in {2, 7, 8}
    /\ "audit-sink" \in m.optional => i = 4
    /\ "rbac-policy" \in m.optional => i \in {4, 5, 10}
    /\ "AppspinePluginHost" \in m.optional => i = 3

LEMMA AllWired == \A i \in 1..12 : Exports(Host!Backend[i], i) /\ Injects(Host!Backend[i], i)
  <1>1. Exports(Host!AuditLogModule, 1) /\ Injects(Host!AuditLogModule, 1)
    BY DEF Exports, Injects, Host!AuditLogModule, Host!Module, Host!Auth
  <1>2. Exports(Host!DomainEventsModule, 2) /\ Injects(Host!DomainEventsModule, 2)
    BY DEF Exports, Injects, Host!DomainEventsModule, Host!Module, Host!Auth
  <1>3. Exports(Host!HealthModule, 3) /\ Injects(Host!HealthModule, 3)
    BY DEF Exports, Injects, Host!HealthModule, Host!Module, Host!Auth,
       Host!PluginCatalogController
  <1>4. Exports(Host!IdentityCoreModule, 4) /\ Injects(Host!IdentityCoreModule, 4)
    BY DEF Exports, Injects, Host!IdentityCoreModule, Host!Module, Host!Auth,
       Host!UsersService, Host!UsersController
  <1>5. Exports(Host!ApiKeysModule, 5) /\ Injects(Host!ApiKeysModule, 5)
    BY DEF Exports, Injects, Host!ApiKeysModule, Host!Module, Host!Auth, Host!ApiKeysController
  <1>6. Exports(Host!MasterDataModule, 6) /\ Injects(Host!MasterDataModule, 6)
    BY DEF Exports, Injects, Host!MasterDataModule, Host!Module, Host!Auth
  <1>7. Exports(Host!McpModule, 7) /\ Injects(Host!McpModule, 7)
    BY DEF Exports, Injects, Host!McpModule, Host!Module, Host!Auth
  <1>8. Exports(Host!MetaModule, 8) /\ Injects(Host!MetaModule, 8)
    BY DEF Exports, Injects, Host!MetaModule, Host!Module, Host!Auth
  <1>9. Exports(Host!NotificationModule, 9) /\ Injects(Host!NotificationModule, 9)
    BY DEF Exports, Injects, Host!NotificationModule, Host!Module, Host!Auth
  <1>10. Exports(Host!OidcAuthModule, 10) /\ Injects(Host!OidcAuthModule, 10)
    BY DEF Exports, Injects, Host!OidcAuthModule, Host!Module, Host!Auth,
       Host!OidcIdentityService, Host!JwtVerifierService
  <1>11. Exports(Host!OidcDelegationModule, 11) /\ Injects(Host!OidcDelegationModule, 11)
    BY DEF Exports, Injects, Host!OidcDelegationModule, Host!Module, Host!Auth
  <1>12. Exports(Host!RbacModule, 12) /\ Injects(Host!RbacModule, 12)
    BY DEF Exports, Injects, Host!RbacModule, Host!Module, Host!Auth, Host!RolesController
  <1>13. /\ Host!Backend[1] = Host!AuditLogModule /\ Host!Backend[2] = Host!DomainEventsModule
         /\ Host!Backend[3] = Host!HealthModule /\ Host!Backend[4] = Host!IdentityCoreModule
         /\ Host!Backend[5] = Host!ApiKeysModule /\ Host!Backend[6] = Host!MasterDataModule
         /\ Host!Backend[7] = Host!McpModule /\ Host!Backend[8] = Host!MetaModule
         /\ Host!Backend[9] = Host!NotificationModule /\ Host!Backend[10] = Host!OidcAuthModule
         /\ Host!Backend[11] = Host!OidcDelegationModule /\ Host!Backend[12] = Host!RbacModule
    BY DEF Host!Backend
  <1> QED
    BY <1>1, <1>2, <1>3, <1>4, <1>5, <1>6, <1>7, <1>8, <1>9, <1>10, <1>11, <1>12, <1>13
--------------------------------------------------------------------------------

(* The parts of the graph by what they read. *)
LEMMA EntryIds ==
    ASSUME selected \in HostSelections
    PROVE  \A e \in Host!InventoryEntries : e.id \in 1..12
  <1> TAKE e \in Host!InventoryEntries
  <1>1. PICK x \in selected :
           e = [id |-> x[1], n |-> x[2], enabled |-> TRUE, required |-> TRUE, configRef |-> ""]
    BY DEF Host!InventoryEntries
  <1>2. x[1] \in 1..12
    BY SelectionAssumption
  <1> QED
    BY <1>1, <1>2

LEMMA ProvidedIs ==
    ASSUME NEW e, e.id \in 1..12, NEW x
    PROVE  /\ x \in Host!Graph!ManifestOf(e).provides => <<x, 0>> \in Host!Graph!ProvidedCapabilities(e)
           /\ \A c \in Host!Graph!ProvidedCapabilities(e) :
                 c[1] \in Host!Graph!ManifestOf(e).provides
  BY DEF Host!Graph!ProvidedCapabilities, Host!Graph!Bare, Host!Graph!Qualified

LEMMA NeededIs ==
    ASSUME selected \in HostSelections,
           NEW e \in Host!InventoryEntries,
           NEW f \in Host!InventoryEntries \ {e}, NEW x, x \notin AppOffers,
           <<x, 0>> \in Host!Graph!ManifestOf(e).requires
               \cup Host!Graph!ManifestOf(e).optionalRequires,
           x \in Host!Graph!ManifestOf(f).provides
    PROVE  f \in Host!Graph!Needed(e)
  <1>1. f.id \in 1..12
    BY EntryIds
  <1>2. <<x, 0>> \in Host!Graph!ProvidedCapabilities(f)
    BY <1>1, ProvidedIs
  <1>3. f \in Host!Graph!External(e, <<x, 0>>)
    BY <1>2 DEF Host!Graph!External, Host!Graph!Providers
  <1>4. <<x, 0>> \notin Host!Names(Host!HostCapabilityNames)
    BY DEF Host!Names, Host!HostCapabilityNames, Host!HostCapabilities, AppOffers
  <1>5. <<x, 0>> \in Host!Graph!Wanted(e) \cup Host!Graph!Optional(e)
    BY <1>4 DEF Host!Graph!Wanted, Host!Graph!Optional
  <1> QED
    BY <1>3, <1>5 DEF Host!Graph!Needed

LEMMA FaultlessIs ==
    ASSUME Host!Graph!GraphFaults = {}, NEW e \in Host!InventoryEntries
    PROVE  Host!Graph!Unserved(e) = {}
  <1>1. "missing-required-capability" \notin Host!Graph!Report("missing-required-capability",
           \E f \in Host!InventoryEntries : Host!Graph!Unserved(f) # {})
    BY DEF Host!Graph!GraphFaults
  <1> QED
    BY <1>1 DEF Host!Graph!Report

(* What a plugin requires some other plugin provides, and it depends on that one. *)
LEMMA ServedIs ==
    ASSUME NEW e \in Host!InventoryEntries, Host!Graph!Unserved(e) = {},
           NEW c \in Host!Graph!Wanted(e)
    PROVE  \E f \in Host!Graph!Needed(e) :
              f \in Host!InventoryEntries /\ c \in Host!Graph!ProvidedCapabilities(f)
  <1>2. Host!Graph!External(e, c) # {}
    BY DEF Host!Graph!Unserved
  <1>3. PICK f : f \in Host!Graph!External(e, c)
    BY <1>2
  <1>4. f \in Host!Graph!Needed(e)
    BY <1>3 DEF Host!Graph!Needed
  <1>5. f \in Host!InventoryEntries /\ c \in Host!Graph!ProvidedCapabilities(f)
    BY <1>3 DEF Host!Graph!External, Host!Graph!Providers
  <1> QED
    BY <1>4, <1>5

LEMMA NeededEntries ==
    ASSUME NEW e
    PROVE  Host!Graph!Needed(e) \subseteq Host!InventoryEntries \ {e}
  BY DEF Host!Graph!Needed, Host!Graph!External, Host!Graph!Providers

LEMMA WantedIs ==
    ASSUME NEW e, e.id \in 1..12, NEW c \in Host!Graph!Wanted(e)
    PROVE  c \in {<<"identity-store", 0>>, <<"audit-sink", 0>>, <<"identity-delegation", 0>>}
  <1>1. PICK m : m = Host!Graph!ManifestOf(e)
    OBVIOUS
  <1>2. Asks(m)
    BY <1>1, ManifestIs, AllAsks
  <1>3. c \in m.requires /\ c \notin AppOffers \X {0}
    BY <1>1 DEF Host!Graph!Wanted, Host!Names, Host!HostCapabilityNames, Host!HostCapabilities,
       AppOffers
  <1>4. c \in {"identity-store", "audit-sink", "identity-delegation"} \X {0}
    BY <1>2, <1>3 DEF Asks
  <1> QED
    BY <1>4
--------------------------------------------------------------------------------

(* The inventory is all the graph depends on. *)
LEMMA GraphFixed ==
    ASSUME selected' = selected
    PROVE  /\ Host!InventoryEntries' = Host!InventoryEntries
           /\ \A e : Host!Graph!Needed(e)' = Host!Graph!Needed(e)
           /\ \A e : Host!Graph!Unserved(e)' = Host!Graph!Unserved(e)
           /\ \A e : Host!Graph!ProvidedCapabilities(e)' = Host!Graph!ProvidedCapabilities(e)
  <1>1. Host!InventoryEntries' = Host!InventoryEntries
    BY DEF Host!InventoryEntries
  <1>2. \A e : Host!Graph!ManifestOf(e)' = Host!Graph!ManifestOf(e)
    BY DEF Host!Graph!ManifestOf
  <1>3. \A e : Host!Graph!ProvidedCapabilities(e)' = Host!Graph!ProvidedCapabilities(e)
    BY <1>2 DEF Host!Graph!ProvidedCapabilities, Host!Graph!Bare, Host!Graph!Qualified
  <1>4. \A c : Host!Graph!Providers(c)' = Host!Graph!Providers(c)
    BY <1>1, <1>3 DEF Host!Graph!Providers
  <1>5. \A e, c : Host!Graph!External(e, c)' = Host!Graph!External(e, c)
    BY <1>4 DEF Host!Graph!External
  <1>6. \A e : Host!Graph!Wanted(e)' = Host!Graph!Wanted(e)
               /\ Host!Graph!Optional(e)' = Host!Graph!Optional(e)
    BY <1>2 DEF Host!Graph!Wanted, Host!Graph!Optional
  <1> QED
    BY <1>1, <1>3, <1>5, <1>6 DEF Host!Graph!Needed, Host!Graph!Unserved

(* What holds of the host at each stage. *)
Graphed ==
    /\ \A e \in Host!InventoryEntries : Host!Graph!Unserved(e) = {}
    /\ needs = [e \in Host!InventoryEntries |-> Host!Graph!Needed(e)]
Assembled ==
    /\ DOMAIN imports = Host!InventoryEntries
    /\ \A e \in Host!InventoryEntries : imports[e] = Host!Graph!Needed(e)
Assembling ==
    /\ DOMAIN imports \subseteq Host!InventoryEntries
    /\ \A e \in DOMAIN imports : imports[e] = Host!Graph!Needed(e)
    /\ \A e \in round : e \in Host!InventoryEntries /\ needs[e] \subseteq DOMAIN imports
LoggedIn == UNION {Host!Strategy(e) : e \in Host!InventoryEntries}

HostInv ==
    /\ selected \in HostSelections
    /\ stage \in {"resolve", "prepare", "compose", "init", "boot", "ready", "rejected",
                  "invalid-config", "unresolved-dependency", "boot-aborted"}
    /\ stage \in {"resolve", "prepare"} => imports = <<>> /\ round = {}
    /\ stage \in {"prepare", "compose", "init", "boot", "ready", "unresolved-dependency"} => Graphed
    /\ stage = "compose" => Assembling
    /\ stage \in {"init", "boot", "ready", "unresolved-dependency"} => Assembled
    /\ stage = "unresolved-dependency" => \E e \in Host!InventoryEntries : Host!Missing(e) # {}
    /\ strategies \subseteq LoggedIn
    /\ stage \in {"boot", "ready"} => LoggedIn \subseteq strategies
    /\ stage = "ready" => Host!Resolvable \subseteq bound

LEMMA HostStart == Host!Init => HostInv
  BY DEF Host!Init, HostInv

LEMMA HostFixed ==
    ASSUME selected' = selected
    PROVE  /\ needs' = needs /\ Graphed => Graphed'
           /\ imports' = imports /\ Assembled => Assembled'
           /\ imports' = imports => \A e : Host!Missing(e)' = Host!Missing(e)
           /\ LoggedIn' = LoggedIn
           /\ Host!Resolvable' = Host!Resolvable
  <1>1. needs' = needs /\ Graphed => Graphed'
    BY GraphFixed DEF Graphed
  <1>2. imports' = imports /\ Assembled => Assembled'
    BY GraphFixed DEF Assembled
  <1>3. imports' = imports => \A e : Host!Missing(e)' = Host!Missing(e)
    BY DEF Host!Missing, Host!Visible
  <1>4. LoggedIn' = LoggedIn
    BY GraphFixed DEF LoggedIn, Host!Strategy
  <1>5. Host!Resolvable' = Host!Resolvable
    BY GraphFixed DEF Host!Resolvable
  <1> QED
    BY <1>1, <1>2, <1>3, <1>4, <1>5

LEMMA ResolveStep == HostInv /\ Host!Resolve => HostInv'
  <1> SUFFICES ASSUME HostInv, Host!Resolve PROVE HostInv'
    OBVIOUS
  <1>1. UNCHANGED <<selected, round, imports, strategies, bound>> /\ stage = "resolve"
    BY DEF Host!Resolve
  <1>2. LoggedIn' = LoggedIn
    BY <1>1, HostFixed
  <1>3. stage' \in {"prepare", "rejected"}
    BY DEF Host!Resolve
  <1>4. ASSUME stage' = "prepare" PROVE Graphed'
    <2>1. Host!Graph!GraphFaults = {}
      BY <1>4 DEF Host!Resolve
    <2>2. \A e \in Host!InventoryEntries : Host!Graph!Unserved(e) = {}
      BY <2>1, FaultlessIs
    <2>3. needs' = [e \in Host!InventoryEntries |-> Host!Graph!Needed(e)]
      BY DEF Host!Resolve
    <2> QED
      BY <1>1, <2>2, <2>3, GraphFixed DEF Graphed
  <1> QED
    BY <1>1, <1>2, <1>3, <1>4 DEF HostInv

LEMMA PrepareStep == HostInv /\ Host!Prepare => HostInv'
  <1> SUFFICES ASSUME HostInv, Host!Prepare PROVE HostInv'
    OBVIOUS
  <1>1. UNCHANGED <<selected, needs, round, imports, strategies, bound>> /\ stage = "prepare"
    BY DEF Host!Prepare
  <1>2. stage' \in {"compose", "rejected", "invalid-config"}
    BY DEF Host!Prepare
  <1>3. LoggedIn' = LoggedIn /\ Graphed'
    BY <1>1, HostFixed DEF HostInv
  <1>4. Assembling'
    <2>1. imports' = <<>> /\ round' = {}
      BY <1>1 DEF HostInv
    <2> QED
      BY <2>1 DEF Assembling
  <1> QED
    BY <1>1, <1>2, <1>3, <1>4 DEF HostInv

LEMMA ComposeStep ==
    ASSUME HostInv, NEW x \in Host!InventoryEntries, Host!Compose(x)
    PROVE  HostInv'
  <1>1. UNCHANGED <<selected, stage, needs, strategies, bound>> /\ stage = "compose"
    BY DEF Host!Compose
  <1>2. LoggedIn' = LoggedIn /\ Graphed' /\ Graphed
    BY <1>1, HostFixed DEF HostInv
  <1>3. Assembling
    BY <1>1 DEF HostInv
  <1>4. \A e \in Host!Round : e \in Host!InventoryEntries /\ needs[e] \subseteq DOMAIN imports
    BY <1>3 DEF Host!Round, Host!Frontier, Host!Uncomposed, Assembling
  <1>5. x \in Host!Round
    BY DEF Host!Compose, Host!Graph!IsFirst
  <1>6. Host!ResolvedDependencyModules(x) = Host!Graph!Needed(x)
    BY <1>2, <1>4, <1>5 DEF Host!ResolvedDependencyModules, Graphed
  <1>7. PICK more : more = DOMAIN imports \cup {x}
    OBVIOUS
  <1>8. imports' = [e \in more |-> IF e = x THEN Host!Graph!Needed(x) ELSE imports[e]]
    BY <1>6, <1>7 DEF Host!Compose
  <1>9. DOMAIN imports' = more /\ \A e \in more : imports'[e] = Host!Graph!Needed(e)
    BY <1>3, <1>7, <1>8 DEF Assembling
  <1>10. \A e \in round' : e \in Host!InventoryEntries /\ needs[e] \subseteq more
    BY <1>4, <1>7 DEF Host!Compose
  <1>11. Assembling'
    BY <1>1, <1>3, <1>7, <1>9, <1>10, GraphFixed DEF Assembling
  <1> QED
    BY <1>1, <1>2, <1>11 DEF HostInv

LEMMA InstantiateStep == HostInv /\ Host!Instantiate => HostInv'
  <1> SUFFICES ASSUME HostInv, Host!Instantiate PROVE HostInv'
    OBVIOUS
  <1>1. UNCHANGED <<selected, needs, round, imports, strategies, bound>> /\ stage = "compose"
    BY DEF Host!Instantiate
  <1>2. stage' \in {"init", "unresolved-dependency"}
    BY DEF Host!Instantiate
  <1>3. LoggedIn' = LoggedIn /\ Graphed'
    BY <1>1, HostFixed DEF HostInv
  <1>4. Assembled
    <2>1. Assembling /\ Host!Uncomposed = {}
      BY <1>1 DEF HostInv, Host!Instantiate
    <2> QED
      BY <2>1 DEF Assembling, Assembled, Host!Uncomposed
  <1>5. Assembled'
    BY <1>1, <1>4, HostFixed
  <1>6. stage' = "unresolved-dependency" => \E e \in Host!InventoryEntries : Host!Missing(e) # {}
    BY DEF Host!Instantiate
  <1>7. stage' = "unresolved-dependency" =>
           \E e \in Host!InventoryEntries' : Host!Missing(e)' # {}
    BY <1>1, <1>6, HostFixed, GraphFixed
  <1> QED
    BY <1>1, <1>2, <1>3, <1>5, <1>7 DEF HostInv

LEMMA ModuleInitStep ==
    ASSUME HostInv, NEW x \in Host!InventoryEntries, Host!OnModuleInit(x)
    PROVE  HostInv'
  <1>1. UNCHANGED <<selected, stage, needs, round, imports, bound>> /\ stage = "init"
    BY DEF Host!OnModuleInit
  <1>2. LoggedIn' = LoggedIn /\ Graphed' /\ Assembled'
    BY <1>1, HostFixed DEF HostInv
  <1>3. Host!Strategy(x) \subseteq LoggedIn
    BY DEF LoggedIn
  <1>4. strategies' \subseteq LoggedIn
    BY <1>3 DEF HostInv, Host!OnModuleInit
  <1> QED
    BY <1>1, <1>2, <1>4 DEF HostInv

LEMMA InitialisedStep == HostInv /\ Host!Initialised => HostInv'
  <1> SUFFICES ASSUME HostInv, Host!Initialised PROVE HostInv'
    OBVIOUS
  <1>1. UNCHANGED <<selected, needs, round, imports, strategies, bound>> /\ stage = "init" /\ stage' = "boot"
    BY DEF Host!Initialised
  <1>2. LoggedIn' = LoggedIn /\ Graphed' /\ Assembled'
    BY <1>1, HostFixed DEF HostInv
  <1>3. LoggedIn \subseteq strategies
    BY DEF LoggedIn, Host!Initialised
  <1> QED
    BY <1>1, <1>2, <1>3 DEF HostInv

LEMMA BootstrapStep == HostInv /\ Host!OnApplicationBootstrap => HostInv'
  <1> SUFFICES ASSUME HostInv, Host!OnApplicationBootstrap PROVE HostInv'
    OBVIOUS
  <1>1. UNCHANGED <<selected, needs, round, imports, strategies>> /\ stage = "boot"
    BY DEF Host!OnApplicationBootstrap
  <1>2. stage' \in {"ready", "boot-aborted"}
    BY DEF Host!OnApplicationBootstrap
  <1>3. /\ LoggedIn' = LoggedIn /\ Graphed' /\ Assembled'
        /\ Host!Resolvable' = Host!Resolvable
    BY <1>1, HostFixed DEF HostInv
  <1>4. Host!Resolvable \subseteq bound'
    BY DEF Host!OnApplicationBootstrap
  <1> QED
    BY <1>1, <1>2, <1>3, <1>4 DEF HostInv

LEMMA HostStep == ASSUME HostInv, Host!Next \/ UNCHANGED hostVars PROVE HostInv'
  <1>1. CASE UNCHANGED hostVars
    <2>1. UNCHANGED <<selected, stage, needs, round, imports, strategies, bound>>
      BY <1>1 DEF hostVars
    <2>2. /\ Graphed => Graphed'
          /\ Assembled => Assembled'
          /\ LoggedIn' = LoggedIn /\ Host!Resolvable' = Host!Resolvable
      BY <2>1, HostFixed
    <2>3. Assembling => Assembling'
      BY <2>1, GraphFixed DEF Assembling
    <2>4. (\E e \in Host!InventoryEntries : Host!Missing(e) # {}) =>
             \E e \in Host!InventoryEntries' : Host!Missing(e)' # {}
      BY <2>1, HostFixed, GraphFixed
    <2> QED
      BY <2>1, <2>2, <2>3, <2>4 DEF HostInv
  <1>2. CASE Host!Next
    BY <1>2, ResolveStep, PrepareStep, ComposeStep, InstantiateStep, ModuleInitStep,
       InitialisedStep, BootstrapStep DEF Host!Next
  <1> QED
    BY <1>1, <1>2

(* What a selected plugin provides its module exports, and who takes it imports that module. *)
LEMMA ExportedIs ==
    ASSUME NEW e, e.id \in 1..12, NEW f, f.id \in 1..12,
           NEW x \in {"audit-sink", "identity-store", "scope-matcher", "identity-delegation",
                      "rbac-policy"}
    PROVE  x \in Host!Graph!ManifestOf(f).provides <=> x \in Host!Backend[f.id].exports
  <1>1. PICK m : m = Host!Graph!ManifestOf(f)
    OBVIOUS
  <1>2. Declares(m) /\ m.id = f.id
    BY <1>1, ManifestIs, AllDeclares
  <1>3. Exports(Host!Backend[f.id], f.id)
    BY AllWired
  <1>4. x \in m.provides <=> x \in Host!Backend[f.id].exports
    BY <1>2, <1>3 DEF Declares, Exports
  <1> QED
    BY <1>1, <1>4

LEMMA ServedExports ==
    ASSUME selected \in HostSelections, NEW e \in Host!InventoryEntries,
           Host!Graph!Unserved(e) = {}, NEW x, <<x, 0>> \in Host!Graph!Wanted(e)
    PROVE  /\ \E f \in Host!Graph!Needed(e) : x \in Host!Backend[f.id].exports
           /\ <<x, 0>> \in Host!Resolvable
  <1>1. e.id \in 1..12
    BY EntryIds
  <1>2. PICK f \in Host!Graph!Needed(e) :
           f \in Host!InventoryEntries /\ <<x, 0>> \in Host!Graph!ProvidedCapabilities(f)
    BY ServedIs
  <1>3. f.id \in 1..12
    BY <1>2, EntryIds
  <1>4. <<x, 0>> \in {<<"identity-store", 0>>, <<"audit-sink", 0>>, <<"identity-delegation", 0>>}
    BY <1>1, WantedIs
  <1>5. x \in {"identity-store", "audit-sink", "identity-delegation"}
    BY <1>4
  <1>6. <<x, 0>>[1] \in Host!Graph!ManifestOf(f).provides
    BY <1>2, <1>3, ProvidedIs
  <1>7. x \in Host!Graph!ManifestOf(f).provides
    BY <1>6
  <1>8. x \in Host!Backend[f.id].exports
    BY <1>1, <1>3, <1>5, <1>7, ExportedIs
  <1>9. <<x, 0>> \in Host!Resolvable
    BY <1>2, <1>8 DEF Host!Resolvable
  <1> QED
    BY <1>8, <1>9

LEMMA ImportedIs ==
    ASSUME NEW e \in Host!InventoryEntries, imports[e] = Host!Graph!Needed(e),
           NEW f \in Host!Graph!Needed(e), NEW x \in Host!Backend[f.id].exports
    PROVE  x \in Host!Visible(e)
  BY DEF Host!Visible

LEMMA AcceptedTells == HostInv => Host!AcceptedStarts
  <1> SUFFICES ASSUME HostInv, stage = "unresolved-dependency"
               PROVE  ~Host!Has(Host!AuditLog) /\ (Host!Has(Host!Rbac) \/ Host!Has(Host!M2mApiKey))
    BY DEF Host!AcceptedStarts
  <1>1. selected \in HostSelections /\ Graphed /\ Assembled
    BY DEF HostInv
  <1>2. PICK e \in Host!InventoryEntries : Host!Missing(e) # {}
    BY DEF HostInv
  <1>3. PICK x : x \in Host!Backend[e.id].injects /\ x \notin Host!Visible(e)
    BY <1>2 DEF Host!Missing
  <1>4. e.id \in 1..12 /\ imports[e] = Host!Graph!Needed(e) /\ Host!Graph!Unserved(e) = {}
    BY <1>1, EntryIds DEF Graphed, Assembled
  <1>5. Injects(Host!Backend[e.id], e.id)
    BY <1>4, AllWired
  <1>6. x \notin Host!Auth
    BY <1>3 DEF Host!Visible, Host!AuthInfrastructure
  <1>7. PICK m : m = Host!Graph!ManifestOf(e)
    OBVIOUS
  <1>8. Asks(m) /\ Takes(m) /\ m.id = e.id
    BY <1>4, <1>7, ManifestIs, AllAsks, AllTakes
  <1>9. <<x, 0>> \notin Host!Graph!Wanted(e)
    BY <1>1, <1>3, <1>4, ServedExports, ImportedIs
  <1>10. x \notin {"identity-store", "audit-sink"}
    <2>1. \A y \in {"identity-store", "audit-sink"} :
             <<y, 0>> \in m.requires => <<y, 0>> \in Host!Graph!Wanted(e)
      BY <1>7 DEF Host!Graph!Wanted, Host!Names, Host!HostCapabilityNames, Host!HostCapabilities
    <2>2. x = "identity-store" => <<"identity-store", 0>> \in m.requires
      BY <1>3, <1>5, <1>8 DEF Injects, Asks
    <2>3. x = "audit-sink" => <<"audit-sink", 0>> \in m.requires
      BY <1>3, <1>5, <1>8 DEF Injects, Asks
    <2> QED
      BY <1>9, <2>1, <2>2, <2>3
  <1>11. x = "AuditLogService" /\ e.id \in {5, 12}
    BY <1>3, <1>5, <1>6, <1>10 DEF Injects
  <1>12. ~Host!Has(Host!AuditLog)
    <2>1. SUFFICES ASSUME NEW f \in Host!InventoryEntries, f.id = 1 PROVE FALSE
      BY ManifestIds DEF Host!Has
    <2>2. f.id \in 1..12 /\ f # e
      BY <1>11, <2>1
    <2>3. "audit-sink" \in Host!Graph!ManifestOf(f).provides
      BY <2>1, <2>2, ManifestIs, AllDeclares DEF Declares
    <2>4. <<"audit-sink", 0>> \in m.optionalRequires
      BY <1>8, <1>11 DEF Takes
    <2>5. f \in Host!Graph!Needed(e)
      BY <1>1, <1>7, <2>2, <2>3, <2>4, NeededIs DEF AppOffers
    <2>6. "AuditLogService" \in Host!Backend[f.id].exports
      BY <2>1, <2>2, AllWired DEF Exports
    <2> QED
      BY <1>3, <1>4, <1>11, <2>5, <2>6, ImportedIs
  <1>13. Host!Has(Host!Rbac) \/ Host!Has(Host!M2mApiKey)
    BY <1>11, ManifestIds DEF Host!Has
  <1> QED
    BY <1>12, <1>13

LEMMA PortsTell == HostInv => Host!PortsReach
  <1> SUFFICES ASSUME HostInv, stage \in {"init", "boot", "ready"},
                      NEW e \in Host!InventoryEntries, NEW t \in Host!Backend[e.id].optional,
                      <<t, 0>> \in Host!Graph!Wanted(e) \cup Host!Graph!Optional(e)
               PROVE  t \in Host!Injected(e) <=>
                          \E f \in Host!InventoryEntries \ {e} : t \in Host!Backend[f.id].exports
    BY DEF Host!PortsReach
  <1>1. selected \in HostSelections /\ Graphed /\ Assembled
    BY DEF HostInv
  <1>2. e.id \in 1..12 /\ imports[e] = Host!Graph!Needed(e)
    BY <1>1, EntryIds DEF Assembled
  <1>3. Injects(Host!Backend[e.id], e.id) /\ Exports(Host!Backend[e.id], e.id)
    BY <1>2, AllWired
  <1>4. PICK m : m = Host!Graph!ManifestOf(e)
    OBVIOUS
  <1>5. Asks(m) /\ Takes(m) /\ m.id = e.id
    BY <1>2, <1>4, ManifestIs, AllAsks, AllTakes
  <1>6. t \in {"scope-matcher", "audit-sink", "rbac-policy", "AppspinePluginHost"}
    BY <1>3 DEF Injects
  <1>7. t \notin Host!Backend[e.id].exports
    BY <1>3, <1>6 DEF Injects, Exports
  <1>8. t \notin Host!AuthInfrastructure.exports /\ t \notin AppOffers
    BY <1>6 DEF Host!AuthInfrastructure, Host!Auth, AppOffers
  <1>9. <<t, 0>> \in Host!Graph!Wanted(e) \cup Host!Graph!Optional(e)
          <=> <<t, 0>> \in m.requires \cup m.optionalRequires
    <2>1. <<t, 0>> \notin Host!Names(Host!HostCapabilityNames)
      BY <1>8 DEF Host!Names, Host!HostCapabilityNames, Host!HostCapabilities, AppOffers
    <2> QED
      BY <1>4, <2>1 DEF Host!Graph!Wanted, Host!Graph!Optional
  <1>10. ASSUME <<t, 0>> \in m.requires \cup m.optionalRequires
         PROVE  t \in Host!Injected(e) <=>
                  \E f \in Host!InventoryEntries \ {e} : t \in Host!Backend[f.id].exports
    <2>1. t # "AppspinePluginHost"
      BY <1>3, <1>5, <1>10 DEF Injects, Takes
    <2>2. t \in {"scope-matcher", "audit-sink", "rbac-policy"}
      BY <1>6, <2>1
    <2>3. t \in Host!Injected(e) <=> t \in Host!Visible(e)
      BY DEF Host!Injected
    <2>4. ASSUME t \in Host!Visible(e)
          PROVE  \E f \in Host!InventoryEntries \ {e} : t \in Host!Backend[f.id].exports
      <3>1. PICK f \in imports[e] : t \in Host!Backend[f.id].exports
        BY <1>7, <1>8, <2>4 DEF Host!Visible
      <3>2. f \in Host!InventoryEntries \ {e}
        BY <1>2, <3>1, NeededEntries
      <3> QED
        BY <3>1, <3>2
    <2>5. ASSUME NEW f \in Host!InventoryEntries \ {e}, t \in Host!Backend[f.id].exports
          PROVE  t \in Host!Visible(e)
      <3>1. f.id \in 1..12
        BY <1>1, EntryIds
      <3>2. t \in Host!Graph!ManifestOf(f).provides
        BY <1>2, <2>2, <2>5, <3>1, ExportedIs
      <3>3. f \in Host!Graph!Needed(e)
        BY <1>1, <1>4, <1>8, <1>10, <3>2, NeededIs
      <3> QED
        BY <1>2, <2>5, <3>3, ImportedIs
    <2> QED
      BY <2>3, <2>4, <2>5
  <1> QED
    BY <1>9, <1>10

LEMMA LoginsIs ==
    ASSUME NEW p, p \in LoggedIn
    PROVE  \/ p = [id |-> "oidc", kind |-> "interactive"] /\ Host!Has(Host!OidcAuth)
           \/ p = [id |-> "api-key", kind |-> "machine"] /\ Host!Has(Host!M2mApiKey)
  <1>1. PICK e \in Host!InventoryEntries : p \in Host!Strategy(e)
    BY DEF LoggedIn
  <1>2. CASE e.id = Host!OidcAuth.id
    <2>1. Host!Strategy(e) = {[id |-> "oidc", kind |-> "interactive"]}
      BY <1>2, ManifestIds DEF Host!Strategy
    <2> QED
      BY <1>1, <1>2, <2>1 DEF Host!Has
  <1>3. CASE e.id = Host!M2mApiKey.id
    <2>1. Host!Strategy(e) = {[id |-> "api-key", kind |-> "machine"]}
      BY <1>3, ManifestIds DEF Host!Strategy
    <2> QED
      BY <1>1, <1>3, <2>1 DEF Host!Has
  <1>4. CASE e.id # Host!OidcAuth.id /\ e.id # Host!M2mApiKey.id
    BY <1>1, <1>4 DEF Host!Strategy
  <1> QED
    BY <1>2, <1>3, <1>4

LEMMA ReadyTells == HostInv => Host!ReadyIsComplete
  <1> SUFFICES ASSUME HostInv, stage = "ready"
               PROVE  /\ \A f, g \in strategies : f.kind = g.kind => f = g
                      /\ (\E f \in strategies : f.kind = "interactive") <=> Host!Has(Host!OidcAuth)
                      /\ (\E f \in strategies : f.kind = "machine") <=> Host!Has(Host!M2mApiKey)
                      /\ \A e \in Host!InventoryEntries : \A c \in Host!Graph!Wanted(e) :
                            c \in bound \/ c[1] \in {"machine-auth-provider",
                                                     "interactive-auth-provider"}
    BY DEF Host!ReadyIsComplete
  <1>1. selected \in HostSelections /\ Graphed /\ strategies = LoggedIn /\ Host!Resolvable \subseteq bound
    BY DEF HostInv
  <1>2. \A f, g \in strategies : f.kind = g.kind => f = g
    BY <1>1, LoginsIs
  <1>3. Host!Has(Host!OidcAuth) => [id |-> "oidc", kind |-> "interactive"] \in strategies
    <2>1. SUFFICES ASSUME NEW e \in Host!InventoryEntries, e.id = Host!OidcAuth.id
                   PROVE  [id |-> "oidc", kind |-> "interactive"] \in strategies
      BY DEF Host!Has
    <2>2. Host!Strategy(e) = {[id |-> "oidc", kind |-> "interactive"]}
      BY <2>1, ManifestIds DEF Host!Strategy
    <2> QED
      BY <1>1, <2>2 DEF LoggedIn
  <1>4. Host!Has(Host!M2mApiKey) => [id |-> "api-key", kind |-> "machine"] \in strategies
    <2>1. SUFFICES ASSUME NEW e \in Host!InventoryEntries, e.id = Host!M2mApiKey.id
                   PROVE  [id |-> "api-key", kind |-> "machine"] \in strategies
      BY DEF Host!Has
    <2>2. Host!Strategy(e) = {[id |-> "api-key", kind |-> "machine"]}
      BY <2>1, ManifestIds DEF Host!Strategy
    <2> QED
      BY <1>1, <2>2 DEF LoggedIn
  <1>5. ASSUME NEW e \in Host!InventoryEntries, NEW c \in Host!Graph!Wanted(e)
        PROVE  c \in bound
    <2>1. Host!Graph!Unserved(e) = {} /\ e.id \in 1..12
      BY <1>1, EntryIds DEF Graphed
    <2>2. PICK x : c = <<x, 0>>
      BY <1>5, <2>1, WantedIs
    <2> QED
      BY <1>1, <1>5, <2>1, <2>2, ServedExports
  <1> QED
    BY <1>1, <1>2, <1>3, <1>4, <1>5, LoginsIs

LEMMA HostTells == HostInv => Host!HostSound
  BY AcceptedTells, PortsTell, ReadyTells DEF Host!HostSound

--------------------------------------------------------------------------------
(* The sum of the parts *)

AppInv == /\ part = "menu" => MenuInv
          /\ part = "console" => ConsoleInv
          /\ part = "shell" => ShellInv
          /\ part = "permissions" => PlansInv
          /\ part = "loader" => LoaderInv
          /\ part = "drift" => DriftInv
          /\ part = "codemods" => CodemodInv
          /\ part = "host" => HostInv

(* Every initial state. *)
LEMMA AppInit == SumInit => AppInv
  <1> SUFFICES ASSUME SumInit PROVE AppInv
    OBVIOUS
  <1>1. CASE part \in {"menu", "console", "shell"}
    BY <1>1, MenuStart, ConsoleStart, ShellStart DEF SumInit, PageInit, AppInv
  <1>2. CASE part = "permissions"
    <2>1. table = [id \in {} |-> 0] /\ plan = {} /\ planned = FALSE
      BY <1>2 DEF SumInit, ToolingInit, Plans!Init
    <2> QED
      BY <1>2, <2>1 DEF PlansInv, AppInv
  <1>3. CASE part \in {"loader", "drift", "codemods"}
    BY <1>3, LoaderStart, DriftStart, CodemodStart DEF SumInit, ToolingInit, AppInv
  <1>4. CASE part = "host"
    BY <1>4, HostStart DEF SumInit, AuthInit, AppInv
  <1> QED
    BY <1>1, <1>2, <1>3, <1>4 DEF AppInv

(* Every step: of the part itself, or of another part, or none. *)
LEMMA AppStep == AppInv /\ [SumNext]_sumVars => AppInv'
  <1> SUFFICES ASSUME AppInv, [SumNext]_sumVars PROVE AppInv'
    OBVIOUS
  <1>1. part' = part
    BY DEF SumNext, sumVars
  <1>2. PageNext(part) \/ UNCHANGED pageVars
    BY DEF SumNext, sumVars
  <1>3. ASSUME part = "menu" PROVE MenuInv'
    <2>1. Menu!Next \/ UNCHANGED menuVars
      BY <1>2, <1>3 DEF PageNext, pageVars
    <2> QED
      BY <1>3, <2>1, MenuStep DEF AppInv
  <1>4. ASSUME part = "console" PROVE ConsoleInv'
    <2>1. Console!Next \/ UNCHANGED consoleVars
      BY <1>2, <1>4 DEF PageNext, pageVars
    <2> QED
      BY <1>4, <2>1, ConsoleStep DEF AppInv
  <1>5. ASSUME part = "shell" PROVE ShellInv'
    <2>1. Shell!Next \/ UNCHANGED barVars
      BY <1>2, <1>5 DEF PageNext, pageVars
    <2> QED
      BY <1>5, <2>1, ShellStep DEF AppInv
  <1>6. ToolingNext(part) \/ UNCHANGED toolingVars
    BY DEF SumNext, sumVars
  <1>7. ASSUME part = "permissions" PROVE PlansInv'
    <2>1. Plans!Next \/ UNCHANGED planVars
      BY <1>6, <1>7 DEF ToolingNext, toolingVars
    <2> QED
      BY <1>7, <2>1, PlansStep DEF AppInv
  <1>8. ASSUME part = "loader" PROVE LoaderInv'
    <2>1. Loader!Next \/ UNCHANGED loaderVars
      BY <1>6, <1>8 DEF ToolingNext, toolingVars
    <2> QED
      BY <1>8, <2>1, LoaderStep DEF AppInv
  <1>9. ASSUME part = "drift" PROVE DriftInv'
    <2>1. Drift!Next \/ UNCHANGED driftVars
      BY <1>6, <1>9 DEF ToolingNext, toolingVars
    <2> QED
      BY <1>9, <2>1, DriftStep DEF AppInv
  <1>10. ASSUME part = "codemods" PROVE CodemodInv'
    <2>1. Codemods!Next \/ UNCHANGED movedVars
      BY <1>6, <1>10 DEF ToolingNext, toolingVars
    <2> QED
      BY <1>10, <2>1, CodemodStep DEF AppInv
  <1>11. ASSUME part = "host" PROVE HostInv'
    <2>1. Host!Next \/ UNCHANGED hostVars
      <3>1. AuthNext(part) \/ UNCHANGED authVars
        BY DEF SumNext, sumVars
      <3> QED
        BY <1>11, <3>1 DEF AuthNext, authVars
    <2> QED
      BY <1>11, <2>1, HostStep DEF AppInv
  <1> QED
    BY <1>1, <1>3, <1>4, <1>5, <1>7, <1>8, <1>9, <1>10, <1>11 DEF AppInv

(* pages, checks, codemods and the host: what AppInv says of the part that a behaviour is of
   holds in every state, for every set of releases, manifests, Apps and inventories and any
   number of notifications, edits and runs. *)
THEOREM AppInvariance == SumSpec => []AppInv
  BY AppInit, AppStep, PTL DEF SumSpec

(* notification-bell.tsx, the admin pages and sidebar.tsx: no notification is shown as read that
   is not read or being marked, unless a list that held another click's guess was restored; a
   new key's secret is missed only when its answer was lost or the dialog was left before; an
   error that is shown is the last call's; a page's content is in the slot of the document, an
   expanded bar has the width it was left with, and the cookie tells how it was left.  For any
   number of notifications, loads, marks and calls, and all bounds of the width. *)
THEOREM PagesTheorem == SumSpec => []PagesHonest
  <1>1. AppInv => PagesHonest
    <2> SUFFICES ASSUME AppInv PROVE PagesHonest
      OBVIOUS
    <2>1. part = "shell" => Shell!ShellKept
      BY DEF AppInv, ShellInv, Widths, Shell!ShellKept, Shell!WidthKept
    <2> QED
      BY <2>1, MenuTells, ConsoleTells DEF AppInv, PagesHonest
  <1> QED
    BY <1>1, AppInvariance, PTL

(* permission-reconciler.ts and loader/validate.ts: a plan that was carried out to its end leaves
   nothing to change, whatever releases, rollbacks and stops came before; it is the plan of the
   frozen rules but for what is retired already; the loader reports every indexed code of the
   frozen checker and accepts nothing that the checker rejects; a pinned digest lets only the
   very manifest and version pass.  For all releases, manifests, hosts and package versions. *)
THEOREM DeclaredTheorem == SumSpec => []DeclaredAsFrozen
  <1>1. AppInv => DeclaredAsFrozen
    BY PlansTell DEF AppInv, LoaderInv, DeclaredAsFrozen
  <1> QED
    BY <1>1, AppInvariance, PTL

(* schema-drift-check.ts of domain-events and notification, and both migration codemods: where the
   checks were green the packages' statements run on what was deployed, unless it is of a column
   or a list that no check looks at; an index that is counted as live exists; whatever codemods
   run, are killed or are run again, every local name keeps its meaning; after an exit code of 0
   no import declaration asks the facade and neither codemod would change anything.  For any
   number of edits, migrations and runs, and Apps of any number of files. *)
THEOREM AppsTheorem == SumSpec => []AppKeepsUp
  <1>1. AppInv => AppKeepsUp
    BY DriftTells, CodemodsTell DEF AppInv, AppKeepsUp
  <1> QED
    BY <1>1, AppInvariance, PTL

(* createAppspineModule and AppspinePluginHost: an App whose plugins resolve starts, but for one
   without the audit log that has RBAC or API keys; every capability that a manifest lists reaches
   the classes that take it exactly when another plugin of the App brings it; and when the host is
   ready there is one login of each kind that a plugin brings, and hooks find every capability that
   was promised and has an injectable.  For every inventory of this repository's plugins. *)
THEOREM HostTheorem == SumSpec => []HostSound
  <1>1. AppInv => HostSound
    BY HostTells DEF AppInv, HostSound
  <1> QED
    BY <1>1, AppInvariance, PTL
================================================================================
