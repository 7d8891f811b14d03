--------------------------- MODULE DeepLinksProofs ---------------------------
(* Proofs about DeepLinks, for any types, objects, selections and bounds. *)
EXTENDS DeepLinks, TLAPS

\* A link whose dialog, if it has one, is one that the list of its type opens.
Sound(link) ==
  link.dialog # None => link.dialog \in DialogsOf(TypeOf(link))

\* The object page is there while created() runs, and selections are of types.
PagesGood ==
  /\ path \in {"/kubernetes", "/settings"}
  /\ phase # "none" => path = "/kubernetes"
  /\ selectedTypes \subseteq Types /\ saved \subseteq Types

\* The URL and the link kept for the login can be followed.
LinksSound ==
  ~bare =>
    /\ path = "/kubernetes" =>
         query.dialog = dialog /\ TypeOf(query) = objectType /\ Sound(query)
    /\ return # None => Sound(return)

\* What LinkIsShown needs in order to be inductive.
IInv == PagesGood /\ LinksSound

\* The list of a sound link opens its dialog.
LEMMA SoundOpened ==
  ASSUME NEW link, Sound(link)
  PROVE  Opened(TypeOf(link), link) = link.dialog
BY Zenon DEF Sound, Opened, DialogsOf

\* Every link the tab can be opened with is sound (DialogDeepLink.ts).
LEMMA SharedSound ==
  ASSUME NEW link \in Shared
  PROVE  Sound(link)
<1>1. CASE link = Empty
  BY <1>1 DEF Empty, Link, Sound
<1>2. CASE \E t \in Types : link \in {Link(t, d) : d \in DialogsOf(t) \cup {None}}
  <2>0. PICK t \in Types : link \in {Link(t, d) : d \in DialogsOf(t) \cup {None}}
    BY <1>2
  <2>1. PICK d \in DialogsOf(t) \cup {None} : link = Link(t, d)
    BY <2>0
  <2>2. link.type = t /\ link.dialog = d
    BY <2>1 DEF Link
  <2>3. TypeOf(link) = t
    BY <2>2, NoneAssumption DEF TypeOf
  <2>. QED
    BY <2>1, <2>2, <2>3 DEF Sound
<1>3. CASE \E d \in DialogsOf(Default) : link = Link(None, d)
  BY <1>3 DEF Link, Sound, TypeOf
<1>. QED
  BY <1>1, <1>2, <1>3 DEF Shared

-----------------------------------------------------------------------------
\* Whatever is followed is shown: creating the page on a sound link leaves
\* URL, dialog and type in agreement.
LEMMA MountSound ==
  ASSUME NEW link, Sound(link), Mount(link)
  PROVE  /\ query' = link /\ dialog' = link.dialog
         /\ TypeOf(link) = objectType' /\ Sound(query)'
<1>1. dialog' = link.dialog
  BY SoundOpened DEF Mount
<1>2. query' = link /\ objectType' = TypeOf(link)
  BY DEF Mount
<1>. QED
  BY <1>1, <1>2 DEF Sound

\* Showing a type without a dialog to open ends with the type in the URL.
LEMMA ShowTypeSound ==
  ASSUME NEW t \in Types, NEW route, ShowType(t, route), Opened(t, route) = None
  PROVE  /\ query' = Link(t, None) /\ dialog' = None /\ objectType' = t
         /\ query'.dialog = dialog' /\ TypeOf(query)' = objectType' /\ Sound(query)'
<1>1. query' = Link(t, None) /\ dialog' = None /\ objectType' = t
  BY DEF ShowType
<1>2. query'.dialog = None /\ query'.type = t
  BY <1>1 DEF Link
<1>. QED
  BY <1>1, <1>2, NoneAssumption DEF TypeOf, Sound

-----------------------------------------------------------------------------
LEMMA InitIInv == Init => IInv
BY SharedSound, SoundOpened, SelectionsAssumption DEF Init, IInv, PagesGood, LinksSound

LEMMA NextPagesGood == PagesGood /\ [Next]_vars => PagesGood'
<1>. SUFFICES ASSUME PagesGood, [Next]_vars
     PROVE  PagesGood'
  OBVIOUS
<1>. USE DEF PagesGood
<1>1. CASE UNCHANGED vars
  BY <1>1 DEF vars, pageVars, typeVars
<1>2. CASE Step
  <2>1. CASE AuthChecked
    BY <2>1 DEF AuthChecked, Unmount, typeVars
  <2>2. CASE TypesLoaded
    BY <2>2 DEF TypesLoaded
  <2>3. CASE NamespacesLoaded
    BY <2>3 DEF NamespacesLoaded, typeVars
  <2>4. CASE NamespacesFail
    BY <2>4 DEF NamespacesFail, typeVars
  <2>5. CASE \E t \in Types : UserSwitch(t)
    BY <2>5 DEF UserSwitch, typeVars
  <2>6. CASE OpenDialog \/ CloseDialog
    BY <2>6 DEF OpenDialog, CloseDialog, typeVars
  <2>7. CASE GoToKubernetes
    BY <2>7 DEF GoToKubernetes, Mount, typeVars
  <2>8. CASE GoToSettings
    BY <2>8 DEF GoToSettings, Unmount, typeVars
  <2>9. CASE RefreshPage
    BY <2>9 DEF RefreshPage, Mount
  <2>10. CASE SaveSelections
    BY <2>10, SelectionsAssumption DEF SaveSelections, pageVars
  <2>11. CASE Login
    BY <2>11 DEF Login, Mount, pageVars, typeVars
  <2>12. CASE Logout \/ Send
    BY <2>12 DEF Logout, Send, pageVars, typeVars
  <2>13. CASE \E s \in live : Expire(s)
    BY <2>13 DEF Expire, pageVars, typeVars
  <2>14. CASE \E s \in requests : Succeeds(s)
    BY <2>14 DEF Succeeds, pageVars, typeVars
  <2>15. CASE \E s \in requests : Unauthorized(s)
    BY <2>15 DEF Unauthorized, Unmount, pageVars, typeVars
  <2>. QED
    BY <1>2, <2>1, <2>2, <2>3, <2>4, <2>5, <2>6, <2>7, <2>8, <2>9, <2>10, <2>11,
       <2>12, <2>13, <2>14, <2>15 DEF Step
<1>. QED
  BY <1>1, <1>2 DEF Next

\* Every handler leaves the links sound, unless it leaves a bare one.
LEMMA NextLinksSound == IInv /\ [Next]_vars => LinksSound'
<1>. SUFFICES ASSUME IInv, [Next]_vars, ~bare'
     PROVE  LinksSound'
  BY DEF LinksSound
<1>. USE DEF IInv, LinksSound
<1>1. CASE UNCHANGED vars
  BY <1>1 DEF vars, pageVars, Sound, TypeOf
<1>2. CASE Next
  <2>0. ~bare /\ ~Bare' /\ Step
    BY <1>2 DEF Next
  <2>1. CASE AuthChecked
    BY <2>0, <2>1 DEF AuthChecked, Unmount, Sound, TypeOf, PagesGood
  <2>2. CASE TypesLoaded
    BY <2>0, <2>2 DEF TypesLoaded, Sound, TypeOf
  <2>3. CASE NamespacesLoaded
    <3>1. CASE query.type = None /\ selectedTypes # {} /\ objectType \notin selectedTypes
      <4>1. PICK t \in selectedTypes : ShowType(t, query)
        BY <2>3, <3>1 DEF NamespacesLoaded
      <4>2. t \in Types /\ path = "/kubernetes" /\ UNCHANGED <<path, return>>
        BY <2>3, <4>1 DEF NamespacesLoaded, PagesGood
      <4>3. query.type = None /\ objectType = Default /\ t # Default
        BY <2>0, <3>1, <4>1, <4>2 DEF TypeOf
      <4>4. Opened(t, query) = None
        <5>1. SUFFICES ASSUME Opened(t, query) # None
              PROVE  Bare'
          BY <2>0
        <5>2. objectType' = t /\ query' = Link(None, dialog')
          BY <4>1, <4>3, <5>1 DEF ShowType
        <5>. QED
          BY <4>2, <4>3, <5>2 DEF Bare, Link
      <4>. QED
        BY <2>0, <4>1, <4>2, <4>4, ShowTypeSound DEF Sound
    <3>2. CASE ~(query.type = None /\ selectedTypes # {} /\ objectType \notin selectedTypes)
      BY <2>0, <2>3, <3>2 DEF NamespacesLoaded, Sound, TypeOf
    <3>. QED
      BY <3>1, <3>2
  <2>4. CASE NamespacesFail
    BY <2>0, <2>4 DEF NamespacesFail, Sound, TypeOf
  <2>5. CASE \E t \in Types : UserSwitch(t)
    <3>1. PICK t \in Types : UserSwitch(t)
      BY <2>5
    <3>2. ShowType(t, Link(query.type, None)) /\ UNCHANGED return
      BY <3>1 DEF UserSwitch
    <3>3. Opened(t, Link(query.type, None)) = None
      BY DEF Opened, Link
    <3>. QED
      BY <2>0, <3>2, <3>3, ShowTypeSound DEF Sound
  <2>6. CASE OpenDialog
    <3>1. PICK d \in DialogsOf(objectType) : dialog' = d /\ query' = Link(query.type, d)
      BY <2>6 DEF OpenDialog
    <3>2. /\ path = "/kubernetes" /\ UNCHANGED <<path, return, objectType>>
          /\ query'.dialog = d /\ query'.type = query.type
      BY <2>6, <3>1 DEF OpenDialog, PagesGood, Link
    <3>. QED
      BY <2>0, <3>1, <3>2 DEF Sound, TypeOf
  <2>7. CASE CloseDialog
    <3>1. UNCHANGED <<path, return, objectType>> /\ dialog' = None
      BY <2>7 DEF CloseDialog
    <3>2. query'.dialog = None /\ query'.type = query.type
      BY <2>7 DEF CloseDialog, Link
    <3>. QED
      BY <2>0, <3>1, <3>2 DEF Sound, TypeOf
  <2>8. CASE GoToKubernetes
    <3>1. Sound(Empty) /\ Empty.dialog = None /\ Empty.type = None
      BY DEF Sound, Empty, Link
    <3>2. CASE path = "/kubernetes"
      <4>1. query' = Empty /\ dialog = None /\ UNCHANGED <<path, objectType, dialog, return>>
        BY <2>8, <3>2 DEF GoToKubernetes
      <4>2. objectType' = Default
        BY <2>0, <3>1, <3>2, <4>1 DEF Bare
      <4>. QED
        BY <2>0, <3>1, <4>1, <4>2 DEF Sound, TypeOf
    <3>3. CASE path # "/kubernetes"
      BY <2>0, <2>8, <3>1, <3>3, MountSound DEF GoToKubernetes, Sound, TypeOf
    <3>. QED
      BY <3>2, <3>3
  <2>9. CASE GoToSettings
    BY <2>0, <2>9 DEF GoToSettings, Unmount, Sound
  <2>10. CASE RefreshPage
    <3>1. Sound(query) /\ Mount(query) /\ UNCHANGED return
      BY <2>0, <2>10 DEF RefreshPage
    <3>. QED
      BY <2>0, <3>1, MountSound DEF Sound, TypeOf
  <2>11. CASE SaveSelections
    BY <2>0, <2>11 DEF SaveSelections, pageVars, Sound, TypeOf
  <2>12. CASE Login
    <3>1. CASE return = None
      BY <2>0, <2>12, <3>1 DEF Login, pageVars, Sound, TypeOf
    <3>2. CASE return # None
      <4>1. Sound(return) /\ Mount(return) /\ UNCHANGED return
        BY <2>0, <2>12, <3>2 DEF Login
      <4>. QED
        BY <2>0, <4>1, MountSound DEF Sound, TypeOf
    <3>. QED
      BY <3>1, <3>2
  <2>13. CASE Logout \/ Send
    BY <2>0, <2>13 DEF Logout, Send, pageVars, Sound, TypeOf
  <2>14. CASE \E s \in live : Expire(s)
    BY <2>0, <2>14 DEF Expire, pageVars, Sound, TypeOf
  <2>15. CASE \E s \in requests : Succeeds(s)
    BY <2>0, <2>15 DEF Succeeds, pageVars, Sound, TypeOf
  <2>16. CASE \E s \in requests : Unauthorized(s)
    BY <2>0, <2>16 DEF Unauthorized, Unmount, pageVars, Sound, TypeOf, PagesGood
  <2>. QED
    BY <2>0, <2>1, <2>2, <2>3, <2>4, <2>5, <2>6, <2>7, <2>8, <2>9, <2>10, <2>11,
       <2>12, <2>13, <2>14, <2>15, <2>16 DEF Step
<1>. QED
  BY <1>1, <1>2

\* The URL shows the open dialog and the type through switches, refreshes,
\* expired sessions and logins, whatever the types, objects and bounds, as long
\* as no link without a type has stood for another type than the default
\* (DialogDeepLink.ts:1-4, index.vue:339-350).
THEOREM LinkShown == Spec => []LinkIsShown
<1>1. IInv /\ [Next]_vars => IInv'
  BY NextPagesGood, NextLinksSound DEF IInv
<1>2. IInv => LinkIsShown
  BY DEF IInv, LinksSound, LinkIsShown, Sound, DialogsOf
<1>. QED
  BY InitIInv, <1>1, <1>2, PTL DEF Spec

-----------------------------------------------------------------------------
\* The link an expired session took the user from waits for the login,
\* whatever other requests fail on the way (SessionExpiry.ts:48-54).
THEOREM LinkKept == Spec => []ExpiryKeepsLink
<1>1. Init => ExpiryKeepsLink
  BY DEF Init, ExpiryKeepsLink
<1>2. ExpiryKeepsLink /\ [Next]_vars => ExpiryKeepsLink'
  <2>. SUFFICES ASSUME ExpiryKeepsLink, [Next]_vars
       PROVE  ExpiryKeepsLink'
    OBVIOUS
  <2>. USE DEF ExpiryKeepsLink
  <2>1. CASE UNCHANGED vars
    BY <2>1 DEF vars, pageVars
  <2>2. CASE AuthChecked
    BY <2>2 DEF AuthChecked, Unmount
  <2>3. CASE TypesLoaded \/ NamespacesLoaded \/ NamespacesFail
    BY <2>3 DEF TypesLoaded, NamespacesLoaded, NamespacesFail
  <2>4. CASE \E t \in Types : UserSwitch(t)
    BY <2>4 DEF UserSwitch
  <2>5. CASE OpenDialog \/ CloseDialog
    BY <2>5 DEF OpenDialog, CloseDialog
  <2>6. CASE GoToKubernetes \/ GoToSettings \/ Login
    BY <2>6 DEF GoToKubernetes, GoToSettings, Login
  <2>7. CASE RefreshPage
    BY <2>7 DEF RefreshPage
  <2>8. CASE SaveSelections \/ Logout \/ Send
    BY <2>8 DEF SaveSelections, Logout, Send, pageVars
  <2>9. CASE \E s \in live : Expire(s)
    BY <2>9 DEF Expire, pageVars
  <2>10. CASE \E s \in requests : Succeeds(s)
    BY <2>10 DEF Succeeds, pageVars
  <2>11. CASE \E s \in requests : Unauthorized(s)
    BY <2>11 DEF Unauthorized, Unmount, pageVars
  <2>. QED
    BY <2>1, <2>2, <2>3, <2>4, <2>5, <2>6, <2>7, <2>8, <2>9, <2>10, <2>11 DEF Next, Step
<1>. QED
  BY <1>1, <1>2, PTL DEF Spec
=============================================================================
