------------------------------- MODULE Mirror -------------------------------
(***************************************************************************)
(* What the screen of a browser promises about the objects of the server,   *)
(* as an abstract specification.  The server sends news: each tells of some *)
(* objects the version they had when it was sent.  News may be lost, and    *)
(* overtake each other, but the screen shows nothing else: each object at   *)
(* the version that a piece of news on its way told, or as it was.          *)
(* LiveClient implements it.                                                *)
(***************************************************************************)
EXTENDS Naturals

CONSTANTS Objects

VARIABLES
  truth,   \* the version of each object on the server, 0 before it is inserted, and
           \* if it is deleted
  shown,   \* the version on the screen, 0 for none
  news     \* news on its way: the versions of some objects

mirrorVars == <<truth, shown, news>>

\* The version of an object that news of this moment tell.
Told(t, x) == IF t[x].gone THEN 0 ELSE t[x].ver

IsNewsOf(s, t) == \A x \in DOMAIN s : s[x] \in {0, Told(t, x)}

MirrorInit ==
  /\ truth \in [Objects -> [ver : {0, 1}, gone : {FALSE}]]
  /\ shown = [x \in Objects |-> 0]
  /\ news = {}

\* The server inserts, changes or deletes an object, and tells of it or not.
ServerChanges(x) ==
  /\ ~truth[x].gone
  /\ \E gone \in BOOLEAN : truth' = [truth EXCEPT ![x] = [ver |-> @.ver + 1, gone |-> gone]]
  /\ \A s \in news' \ news : DOMAIN s = {x} /\ IsNewsOf(s, truth')
  /\ UNCHANGED shown

\* The server is asked for news.
Ask ==
  /\ \A s \in news' \ news : IsNewsOf(s, truth)
  /\ UNCHANGED <<truth, shown>>

\* Some news arrive.
Show ==
  /\ news' \subseteq news
  /\ \A x \in Objects :
       shown'[x] = shown[x] \/ \E s \in news : x \in DOMAIN s /\ shown'[x] = s[x]
  /\ UNCHANGED truth

MirrorNext == (\E x \in Objects : ServerChanges(x)) \/ Ask \/ Show

MirrorSpec == MirrorInit /\ [][MirrorNext]_mirrorVars
=============================================================================
