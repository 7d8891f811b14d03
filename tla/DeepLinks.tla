------------------------------- MODULE DeepLinks -------------------------------
(***************************************************************************)
(* One browser tab: the URL of the object page, which holds the type shown *)
(* and the dialog that is open (web/services/DialogDeepLink.ts,            *)
(* web/pages/kubernetes/index.vue), the session that can expire under it   *)
(* (web/services/SessionExpiry.ts) and the settings page where the user    *)
(* logs in and selects types (web/components/ProfileSettings.vue,          *)
(* ResourceSettings.vue).                                                  *)
(*                                                                         *)
(* router.replace() takes effect after the code that calls it and what it  *)
(* renders have run: an action computes everything from the route at its   *)
(* start, and of several navigations the last one wins.                    *)
(***************************************************************************)
EXTENDS Integers

CONSTANTS
  None,
  Types, Default,  \* the type shown when the URL names none
  ObjectsOf,       \* names of the objects of each type, no name in two types
  Selections,      \* what the user may select, sets of types
  MaxSessions,     \* bound: logins
  MaxActs          \* bound: what the user does

ASSUME DefaultAssumption == Default \in Types
ASSUME NoneAssumption == None \notin Types
ASSUME SelectionsAssumption == Selections \subseteq SUBSET Types

VARIABLES
  path,     \* "/kubernetes" or "/settings"
  query,    \* of "/kubernetes": objectType and dialog
  return,   \* of "/settings": the link to follow after the login, or None
  phase,    \* what created() of the object page awaits, or "up"
  objectType, dialog, \* shown
  offered,  \* availableTypes was loaded: the user can switch
  selectedTypes, saved, \* in the store, on the server
  token,    \* the session the tab holds, or None
  logins, live, \* sessions opened, those the server accepts
  requests, \* the tokens that requests in flight carry
  acts,
  \* History:
  left,     \* the link the user was taken from for want of a session
  bare      \* a link without a type stood for another than the default

pageVars == <<path, query, phase, objectType, dialog, offered>>
sessionVars == <<token, logins, live, requests>>
typeVars == <<selectedTypes, saved>>
vars == <<pageVars, return, typeVars, sessionVars, acts, left, bare>>

-----------------------------------------------------------------------------
(* Links *)

\* Only the list of pods opens logs.
DialogsOf(t) ==
  [kind : IF t = Default THEN {"details", "logs"} ELSE {"details"}, name : ObjectsOf[t]]

Link(type, d) == [type |-> type, dialog |-> d]
Empty == Link(None, None)

TypeOf(link) == IF link.type = None THEN Default ELSE link.type

\* Links the tab can be opened with.
Shared ==
  {Empty} \cup {Link(None, d) : d \in DialogsOf(Default)}
          \cup (UNION {{Link(t, d) : d \in DialogsOf(t) \cup {None}} : t \in Types})

\* What the list of t opens when it is created under a route: the dialog of
\* the route, if it is of a kind the list has.  It is written back as it is.
Opened(t, route) ==
  IF route.dialog # None /\ (route.dialog.kind = "details" \/ t = Default)
  THEN route.dialog ELSE None

\* The page is created on a link, and with it the list of its type.
Mount(link) ==
  /\ path' = "/kubernetes" /\ query' = link
  /\ phase' = "auth" /\ offered' = FALSE
  /\ objectType' = TypeOf(link) /\ dialog' = Opened(TypeOf(link), link)

\* The object page is left for the settings.
Unmount(link) ==
  /\ path' = "/settings" /\ return' = link
  /\ phase' = "none" /\ dialog' = None
  /\ UNCHANGED <<query, objectType, offered>>

\* objectType changes under a route: the watcher navigates to the new type
\* without the dialog; the new list is created next, and if it opens the
\* dialog of the route it writes the route back.
ShowType(t, route) ==
  /\ objectType' = t
  /\ dialog' = Opened(t, route)
  /\ query' = IF dialog' = None THEN Link(t, None) ELSE Link(route.type, dialog')

-----------------------------------------------------------------------------
(* The object page is created. *)

Init ==
  /\ \E link \in Shared :
       /\ path = "/kubernetes" /\ query = link /\ objectType = TypeOf(link)
       /\ dialog = Opened(objectType, link)
  /\ return = None /\ phase = "auth" /\ offered = FALSE
  /\ selectedTypes = {} /\ saved \in Selections
  /\ token \in {None, 1} /\ logins = 1 /\ live = {1} /\ requests = {}
  /\ acts = 0 /\ left = None /\ bare = FALSE

\* ensureAuthenticated(); without a session the settings come first.
AuthChecked ==
  /\ phase = "auth"
  /\ IF token = None
     THEN Unmount(query) /\ left' = query
     ELSE /\ phase' = "types"
          /\ UNCHANGED <<path, query, objectType, dialog, offered, return, left>>
  /\ UNCHANGED <<typeVars, sessionVars, acts>>

\* The types and the user's selection are loaded, or not, which is caught.
TypesLoaded ==
  /\ phase = "types" /\ phase' = "namespaces"
  /\ \/ offered' = TRUE /\ selectedTypes' = saved
     \/ UNCHANGED <<offered, selectedTypes>>
  /\ UNCHANGED <<path, query, objectType, dialog, return, saved, sessionVars, acts, left>>

\* The namespaces are loaded: unless the URL names a type, one that is
\* selected is shown.  A failure ends created() before that.
NamespacesLoaded ==
  /\ phase = "namespaces" /\ phase' = "up"
  /\ IF query.type = None /\ selectedTypes # {} /\ objectType \notin selectedTypes
     THEN \E t \in selectedTypes : ShowType(t, query)
     ELSE UNCHANGED <<query, objectType, dialog>>
  /\ UNCHANGED <<path, offered, return, typeVars, sessionVars, acts, left>>

NamespacesFail ==
  /\ phase = "namespaces" /\ phase' = "up"
  /\ UNCHANGED <<path, query, objectType, dialog, offered, return, typeVars, sessionVars, acts, left>>

-----------------------------------------------------------------------------
(* The user *)

Acts == acts < MaxActs /\ acts' = acts + 1

\* Mutant: the URL is not awaited.
UserSwitchAtOnce(t) ==
  /\ phase \in {"namespaces", "up"} /\ offered /\ t \in selectedTypes \ {objectType}
  /\ Acts /\ ShowType(t, query)
  /\ UNCHANGED <<path, phase, offered, return, typeVars, sessionVars, left>>

\* onObjectTypeChange(): the dialog leaves the URL first, and is awaited.
UserSwitch(t) ==
  /\ phase \in {"namespaces", "up"} /\ offered /\ t \in selectedTypes \ {objectType}
  /\ Acts /\ ShowType(t, Link(query.type, None))
  /\ UNCHANGED <<path, phase, offered, return, typeVars, sessionVars, left>>

\* showDetails(), showLogs() and onCloseDetails(): the URL follows.
OpenDialog ==
  /\ phase # "none" /\ dialog = None /\ Acts
  /\ \E d \in DialogsOf(objectType) : dialog' = d /\ query' = Link(query.type, d)
  /\ UNCHANGED <<path, phase, objectType, offered, return, typeVars, sessionVars, left>>

CloseDialog ==
  /\ dialog # None /\ Acts
  /\ dialog' = None /\ query' = Link(query.type, None)
  /\ UNCHANGED <<path, phase, objectType, offered, return, typeVars, sessionVars, left>>

\* The links of Navigation.vue, there with a session only and out of reach
\* behind a dialog.  The object page is kept if it is shown already.
GoToKubernetes ==
  /\ token # None /\ dialog = None /\ Acts
  /\ IF path = "/kubernetes"
     THEN query' = Empty /\ UNCHANGED <<path, phase, objectType, dialog, offered>>
     ELSE Mount(Empty)
  /\ left' = None
  /\ UNCHANGED <<return, typeVars, sessionVars>>

GoToSettings ==
  /\ token # None /\ dialog = None /\ path = "/kubernetes" /\ Acts
  /\ Unmount(None) /\ left' = None
  /\ UNCHANGED <<typeVars, sessionVars>>

\* The browser loads the URL again.
RefreshPage ==
  /\ path = "/kubernetes" /\ Acts
  /\ Mount(query)
  /\ selectedTypes' = {} /\ requests' = {}
  /\ UNCHANGED <<return, saved, token, logins, live, left>>

\* saveSelections() of ResourceSettings.
SaveSelections ==
  /\ path = "/settings" /\ token \in live /\ Acts
  /\ \E s \in Selections \ {saved} : saved' = s /\ selectedTypes' = s
  /\ UNCHANGED <<pageVars, return, sessionVars, left>>

\* login() of ProfileSettings, and the link that waits for it.
Login ==
  /\ path = "/settings" /\ token = None
  /\ logins < MaxSessions /\ logins' = logins + 1
  /\ token' = logins' /\ live' = live \cup {logins'}
  /\ IF return = None THEN UNCHANGED pageVars ELSE Mount(return)
  /\ left' = None
  /\ UNCHANGED <<return, typeVars, requests, acts>>

Logout ==
  /\ path = "/settings" /\ token # None /\ Acts
  /\ token' = None
  /\ UNCHANGED <<pageVars, return, typeVars, logins, live, requests, left>>

-----------------------------------------------------------------------------
(* The session *)

\* A component sends a request with the token the tab holds; the lists do
\* so when they are created, whether there is one or not.
Send ==
  /\ path = "/kubernetes" \/ token # None
  /\ requests' = requests \cup {token} /\ requests' # requests
  /\ UNCHANGED <<pageVars, return, typeVars, token, logins, live, acts, left>>

\* An answer comes, perhaps not the last one that s waits for.
Answer(s) == requests' \in {requests, requests \ {s}}

Succeeds(s) ==
  /\ s \in live /\ Answer(s)
  /\ UNCHANGED <<pageVars, return, typeVars, token, logins, live, acts, left>>

Expire(s) ==
  /\ live' = live \ {s}
  /\ UNCHANGED <<pageVars, return, typeVars, token, logins, requests, acts, left>>

\* Mutant: the settings are shown even from the settings.
UnauthorizedAlways(s) ==
  /\ s \notin live /\ Answer(s)
  /\ token' = None
  /\ IF path = "/settings" THEN Unmount(None) /\ UNCHANGED left
     ELSE Unmount(query) /\ left' = query
  /\ UNCHANGED <<typeVars, logins, live, acts>>

\* The interceptor and handleSessionExpiryError(): whatever token the tab
\* holds is dropped, and the settings are shown unless they are already.
Unauthorized(s) ==
  /\ s \notin live /\ Answer(s)
  /\ token' = None
  /\ IF path = "/settings" THEN UNCHANGED <<pageVars, return, left>>
     ELSE Unmount(query) /\ left' = query
  /\ UNCHANGED <<typeVars, logins, live, acts>>

-----------------------------------------------------------------------------
Step ==
  \/ AuthChecked \/ TypesLoaded \/ NamespacesLoaded \/ NamespacesFail
  \/ \E t \in Types : UserSwitch(t)
  \/ OpenDialog \/ CloseDialog \/ GoToKubernetes \/ GoToSettings \/ RefreshPage
  \/ SaveSelections \/ Login \/ Logout \/ Send
  \/ \E s \in live : Expire(s)
  \/ \E s \in requests : Succeeds(s) \/ Unauthorized(s)

\* The URL names no type, and the page shows another than the default.
Bare == path = "/kubernetes" /\ query.type = None /\ objectType # Default

Next == Step /\ bare' = (bare \/ Bare')

Spec == Init /\ [][Next]_vars

-----------------------------------------------------------------------------
(* Properties. *)

\* The URL names the dialog that is open, the type shown, and a dialog is of
\* an object of that type, through switches, refreshes, expired sessions and
\* the logins that return from them; unless a link without a type has stood
\* for another type than the default (DialogDeepLink.ts:1-4, index.vue:339-350).
LinkIsShown ==
  path = "/kubernetes" /\ ~bare =>
    /\ query.dialog = dialog /\ TypeOf(query) = objectType
    /\ dialog # None => dialog.name \in ObjectsOf[objectType]

\* The link the user was taken from when the session was found expired is
\* there for the login, whatever other requests fail on the way
\* (SessionExpiry.ts:48-54: "preserving the return URL").
ExpiryKeepsLink == left # None => path = "/settings" /\ return = left
=============================================================================
