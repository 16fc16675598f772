------------------------------- MODULE Shell -------------------------------
(***************************************************************************)
(* apps/workbench: signing in and out and what is around every page of the *)
(* workbench: login-form.tsx, proxy.ts, api/auth, the two sign-out buttons *)
(* (sign-out-button.tsx, nav-user.tsx), the sidebar (ui/sidebar.tsx,       *)
(* attest-sidebar.tsx), the command palette and the hunt page's query.     *)
(*                                                                         *)
(* One tab, and a second one that shares its cookie.  A closure of signOut *)
(* outlives the shell that started it as long as the tab does not load a   *)
(* page anew; the state of the buttons, of the sidebar and of a page does  *)
(* not, the store of the palette does.                                     *)
(***************************************************************************)
EXTENDS Naturals

CONSTANTS
    Buttons,        \* the header's and the user menu's sign-out
    MaxShellFaults  \* bound: requests that fail, sessions that end, sign-ins elsewhere

ASSUME ShellConstants == MaxShellFaults \in Nat

\* Two of the pages the sidebar and the palette list, and the login page.
Workbench == {"queue", "hunt"}
Places == Workbench \cup {"login"}

VARIABLES
    place,          \* the page of the tab
    pageBusy,       \* is the page's form busy?
    notice,         \* what it shows: "none", "ok", "error"
    buttonBusy,     \* buttons that are disabled
    outs,           \* outs[b]: "none", or what b's closure awaits: "server", "force"
    cookie,         \* does the browser hold a session cookie?
    session,        \* is the session it names valid?
    signedOut,      \* history: signed out, and not in again
    paletteOpen,    \* open of useCommandPalette
    narrow,         \* isMobile
    sidebarOpen, sheetOpen,  \* open and openMobile of SidebarProvider
    sidebarCookie,  \* sidebar_state
    shellFaults

auth == <<cookie, session, signedOut>>
page == <<place, pageBusy, notice>>
signOuts == <<buttonBusy, outs>>
sidebar == <<narrow, sidebarOpen, sheetOpen, sidebarCookie>>
shellVars == <<page, signOuts, auth, paletteOpen, sidebar, shellFaults>>

ShellInit ==
    /\ place = "login" /\ pageBusy = FALSE /\ notice = "none"
    /\ buttonBusy = {} /\ outs = [b \in Buttons |-> "none"]
    /\ cookie = FALSE /\ session = FALSE /\ signedOut = FALSE
    /\ paletteOpen = FALSE
    /\ narrow = FALSE /\ sidebarOpen = TRUE /\ sheetOpen = FALSE /\ sidebarCookie = "none"
    /\ shellFaults = 0

ShellFault == shellFaults < MaxShellFaults /\ shellFaults' = shellFaults + 1

-----------------------------------------------------------------------------
\* Pages.

\* proxy lets no request for the workbench pass without a cookie, valid or not; the login
\* page sends a valid session on to the queue.
Landing(to) ==
    IF to \in Workbench /\ ~cookie THEN "login"
    ELSE IF to = "login" /\ cookie /\ session THEN "queue"
    ELSE to

\* A page is shown with its state as new; the shell's is new when it was not shown before.
Arrive(at) ==
    /\ place' = at /\ pageBusy' = FALSE /\ notice' = "none"
    /\ IF at \in Workbench /\ place \in Workbench
       THEN UNCHANGED <<buttonBusy, sidebarOpen, sheetOpen>>
       ELSE buttonBusy' = {} /\ sidebarOpen' = TRUE /\ sheetOpen' = FALSE

\* The tab loads a page from the server: closures and stores are gone, and the sidebar's
\* cookie is not looked at.
Load(to) ==
    /\ place' = Landing(to) /\ pageBusy' = FALSE /\ notice' = "none"
    /\ buttonBusy' = {} /\ outs' = [b \in Buttons |-> "none"]
    /\ paletteOpen' = FALSE /\ sidebarOpen' = TRUE /\ sheetOpen' = FALSE
    /\ UNCHANGED <<auth, narrow, sidebarCookie, shellFaults>>

\* On a narrow screen the sidebar is a sheet over the page, and its parts are not mounted
\* while it is closed; on a wide one they are, off the screen when it is collapsed.
SidebarMounted == narrow => sheetOpen
SheetShown == narrow /\ sheetOpen

\* A link of the sidebar, or the bell in the header; the sheet stays open.
Follow(to) ==
    /\ place \in Workbench /\ ~paletteOpen
    /\ SidebarMounted \/ to = "queue"
    /\ Arrive(Landing(to))
    /\ UNCHANGED <<outs, auth, paletteOpen, narrow, sidebarCookie, shellFaults>>

-----------------------------------------------------------------------------
\* The sidebar and the palette.

\* The user menu goes with the sidebar it is in, and comes back with its button enabled.
MenuRemounted == buttonBusy' = buttonBusy \ {"user"}

\* The window is made narrower or wider: the other kind of sidebar is mounted.
Resize ==
    /\ narrow' = ~narrow
    /\ MenuRemounted
    /\ UNCHANGED <<page, outs, auth, paletteOpen, sidebarOpen, sheetOpen, sidebarCookie,
                   shellFaults>>

\* The trigger in the header, and the shortcut, which works while the palette is open.
toggleSidebar ==
    /\ place \in Workbench
    /\ \/ /\ narrow
          /\ sheetOpen' = ~sheetOpen /\ MenuRemounted
          /\ UNCHANGED <<sidebarOpen, sidebarCookie>>
       \/ /\ ~narrow
          /\ sidebarOpen' = ~sidebarOpen
          /\ sidebarCookie' = IF ~sidebarOpen THEN "true" ELSE "false"
          /\ UNCHANGED <<sheetOpen, buttonBusy>>
    /\ UNCHANGED <<page, outs, auth, paletteOpen, narrow, shellFaults>>

\* The shortcut and the header's button; Escape, or an external tool in a tab of its own.
OpenPalette ==
    /\ place \in Workbench
    /\ paletteOpen' = TRUE
    /\ UNCHANGED <<page, signOuts, auth, sidebar, shellFaults>>

ClosePalette ==
    /\ place \in Workbench /\ paletteOpen
    /\ paletteOpen' = FALSE
    /\ UNCHANGED <<page, signOuts, auth, sidebar, shellFaults>>

\* navigate
Navigate(to) ==
    /\ place \in Workbench /\ paletteOpen
    /\ paletteOpen' = FALSE
    /\ Arrive(Landing(to))
    /\ UNCHANGED <<outs, auth, narrow, sidebarCookie, shellFaults>>

-----------------------------------------------------------------------------
\* The login form and the hunt page's query.

\* The form of the login page; its button is disabled while busy.
SubmitLogin ==
    /\ place = "login" /\ ~pageBusy
    /\ pageBusy' = TRUE /\ notice' = "none"
    /\ UNCHANGED <<place, signOuts, auth, paletteOpen, sidebar, shellFaults>>

\* A statement that is no SELECT is refused without a request.
runWarmTier(select) ==
    /\ pageBusy' = select
    /\ notice' = IF select THEN "none" ELSE "error"

\* The only button of the hunt page that is ever enabled.
SubmitQuery ==
    /\ place = "hunt" /\ ~pageBusy /\ ~paletteOpen /\ ~SheetShown
    /\ \E select \in BOOLEAN : runWarmTier(select)
    /\ UNCHANGED <<place, signOuts, auth, paletteOpen, sidebar, shellFaults>>

\* The route of the query answers with rows, or with the error of the control plane, its
\* absence among them.
WarmQuery == {"ok", "error"}

Answered ==
    /\ place = "hunt" /\ pageBusy
    /\ notice' \in WarmQuery /\ pageBusy' = FALSE
    /\ UNCHANGED <<place, signOuts, auth, paletteOpen, sidebar, shellFaults>>

\* signIn.email, then the page that was asked for; or the server refuses.
SignIn ==
    /\ place = "login" /\ pageBusy
    /\ \/ /\ cookie' = TRUE /\ session' = TRUE /\ signedOut' = FALSE
          /\ Arrive("queue")
       \/ /\ notice' = "error" /\ pageBusy' = FALSE
          /\ UNCHANGED <<place, buttonBusy, sidebarOpen, sheetOpen, auth>>
    /\ UNCHANGED <<outs, paletteOpen, narrow, sidebarCookie, shellFaults>>

\* catch and finally of both
RequestThrows ==
    /\ pageBusy /\ ShellFault
    /\ notice' = "error" /\ pageBusy' = FALSE
    /\ UNCHANGED <<place, signOuts, auth, paletteOpen, sidebar>>

\* The second tab signs in.
OtherSignsIn ==
    /\ ShellFault
    /\ cookie' = TRUE /\ session' = TRUE /\ signedOut' = FALSE
    /\ UNCHANGED <<page, signOuts, paletteOpen, sidebar>>

\* The session expires in the database.
SessionEnds ==
    /\ session /\ ShellFault
    /\ session' = FALSE
    /\ UNCHANGED <<page, signOuts, cookie, signedOut, paletteOpen, sidebar>>

-----------------------------------------------------------------------------
\* signOut of either button (a closure of the same button from before is waited for): the
\* header's is under the sheet, the user menu's is in the sidebar.
SignOut(b) ==
    /\ place \in Workbench /\ ~paletteOpen
    /\ IF b = "user" THEN SidebarMounted ELSE ~SheetShown
    /\ b \notin buttonBusy /\ outs[b] = "none"
    /\ buttonBusy' = buttonBusy \cup {b}
    /\ outs' = [outs EXCEPT ![b] = "server"]
    /\ UNCHANGED <<page, auth, paletteOpen, sidebar, shellFaults>>

\* First the library's own request, which may fail ...
SignedOutAtServer(b) ==
    /\ outs[b] = "server"
    /\ outs' = [outs EXCEPT ![b] = "force"]
    /\ \/ cookie' = FALSE /\ session' = FALSE /\ UNCHANGED shellFaults
       \/ ShellFault /\ UNCHANGED <<cookie, session>>
    /\ UNCHANGED <<page, buttonBusy, signedOut, paletteOpen, sidebar>>

\* Mutant of ClearedCookie: the cookie is left to the library.
ClearedCookie_keeps == cookie

\* clearSessionCookies
ClearedCookie == FALSE

\* ... and finally force-logout and the way to the login page, wherever the tab is by now.
\* The status of force-logout is not looked at: answered with an error it leads to the login
\* page all the same, with the cookie as it was.  A request that throws ends the closure and
\* leaves the button disabled.
ForceLogout(b) ==
    /\ outs[b] = "force"
    /\ outs' = [outs EXCEPT ![b] = "none"]
    /\ \/ /\ cookie' = ClearedCookie /\ signedOut' = TRUE
          /\ Arrive("login")
          /\ UNCHANGED <<session, shellFaults>>
       \/ ShellFault /\ UNCHANGED auth /\ Arrive(Landing("login"))
       \/ ShellFault /\ UNCHANGED <<auth, page, buttonBusy, sidebarOpen, sheetOpen>>
    /\ UNCHANGED <<paletteOpen, narrow, sidebarCookie>>

SignOutSteps(b) == SignedOutAtServer(b) \/ ForceLogout(b)
PageSteps == Answered \/ SignIn

ShellNext ==
    \/ \E to \in Places : Load(to)
    \/ \E to \in Workbench : Follow(to) \/ Navigate(to)
    \/ Resize \/ toggleSidebar \/ OpenPalette \/ ClosePalette
    \/ SubmitLogin \/ SubmitQuery \/ PageSteps \/ RequestThrows \/ OtherSignsIn \/ SessionEnds
    \/ \E b \in Buttons : SignOut(b) \/ SignOutSteps(b)

-----------------------------------------------------------------------------
\* Properties.

\* A tab that signed out holds no cookie until somebody signs in again, also when the
\* library's request failed, the session had ended before, or both buttons were pressed
\* and their closures overtake each other.
SignedOutIsOut == signedOut => ~cookie

\* Besides, while nothing has failed, a disabled button means a sign-out under way, and a
\* tab that shows the workbench without one holds a cookie.
ShellMatchesSession ==
    /\ SignedOutIsOut
    /\ shellFaults = 0 =>
        /\ \A b \in buttonBusy : outs[b] # "none"
        /\ place \in Workbench /\ (\A b \in Buttons : outs[b] = "none") => cookie
=============================================================================
