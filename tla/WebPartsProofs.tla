--------------------------- MODULE WebPartsProofs ---------------------------
(***************************************************************************)
(* Lemmas about parts of the web application by themselves: the panel of a  *)
(* channel and the tour.  The theorems about them are in WebAppProofs.      *)
(***************************************************************************)
EXTENDS DialogProofs, ChannelBoards, Onboarding

----------------------------------------------------------------------------
(***************************************************************************)
(* The panel of a channel: PanelAgrees.                                     *)
(*                                                                          *)
(* A copy of a board is one that the server has had: the revision counts    *)
(* the changes of the channel, so that of two copies the later is known and *)
(* equal revisions have equal channels.  For every board either its last    *)
(* news is under way, which is of the server's revision, or the store, the  *)
(* results and the answers under way have that revision, unless an older    *)
(* one was noted.  The last of the requests of a kind is the one for what   *)
(* is looked at.                                                            *)
(***************************************************************************)
BoardCopies == [id : CbBoards, title : Int, channel : CbChannels \cup {""}, rev : Nat]
Links == [id : CbBoards, old : BoardCopies, new : BoardCopies, of : {"dialog", "unlink", "undo"}]
Whats == {""} \cup DOMAIN CbMatches \cup CbBoards \cup Links
PanelAnswers == {<<>>} \cup [CbBoards -> BoardCopies] \cup (SUBSET BoardCopies) \cup CbBoards \cup BoardCopies
PanelReqs == [kind : {"boards", "search", "cards", "patch"}, what : Whats,
              status : {"sent", "ok", "failed"}, answer : PanelAnswers]
PanelDialogs == [link : CbChannels \cup {""}, confirm : Seq(BoardCopies), results : SUBSET BoardCopies,
                 query : DOMAIN CbMatches, timer : Seq(DOMAIN CbMatches)]
PanelViews == [channel : CbChannels, loaded : BOOLEAN, selected : CbBoards \cup {NoBoard}, cards : CbBoards \cup {NoBoard}]
PastFields == {"open", "races", "clicks", "others", "failed", "swapped", "overtaken", "titles"}

\* A copy that the server s has or had.
HadAt(s, c) ==
  /\ c \in BoardCopies /\ c.rev <= s[c.id].rev
  /\ c.rev = s[c.id].rev => c.channel = s[c.id].channel

\* A patch of a board's channel alone.
LinkFits(w) ==
  /\ w \in Links /\ w.old.id = w.id /\ w.new.id = w.id
  /\ w.new.title = w.old.title /\ w.new.channel # w.old.channel

ServerFits(s) == s \in [CbBoards -> BoardCopies] /\ \A b \in CbBoards : s[b].id = b

AnswerFits(s, r) ==
  /\ r.kind = "boards" => r.answer \in [CbBoards -> BoardCopies] /\ \A b \in CbBoards : r.answer[b].id = b /\ HadAt(s, r.answer[b])
  /\ r.kind = "search" => {c.id : c \in r.answer} = CbMatches[r.what] /\ \A c \in r.answer : HadAt(s, c)
  /\ r.kind = "cards"  => r.answer = r.what
  /\ r.kind = "patch"  => HadAt(s, r.answer) /\ r.answer.id = r.what.id /\ r.answer.channel = r.what.new.channel

ReqFits(s, r) ==
  /\ r \in PanelReqs
  /\ r.kind = "search" => r.what \in DOMAIN CbMatches
  /\ r.kind = "cards"  => r.what \in CbBoards
  /\ r.kind = "patch"  => LinkFits(r.what)
  /\ r.status = "ok"   => AnswerFits(s, r)
  /\ r.status # "ok"   => r.answer = <<>>

StoreFits(s, boards) ==
  DOMAIN boards \subseteq CbBoards /\ \A b \in DOMAIN boards : boards[b].id = b /\ HadAt(s, boards[b])

\* The news of a board, of which the last one is of the server's revision.
NewsOf(ns, b) == \E i \in 1 .. Len(ns) : ns[i].id = b
NewsFits(s, ns) ==
  \A i \in 1 .. Len(ns) :
    /\ HadAt(s, ns[i])
    /\ (\A j \in i + 1 .. Len(ns) : ns[j].id # ns[i].id) => ns[i].rev = s[ns[i].id].rev

\* The last request of a kind, or that there is none.
LastOf(rs, kind, what) ==
  \E i \in 1 .. Len(rs) : rs[i].kind = kind /\ rs[i].what = what /\ \A j \in i + 1 .. Len(rs) : rs[j].kind # kind
NoneOf(rs, kind) == \A i \in 1 .. Len(rs) : rs[i].kind # kind

\* The revision of a board in a list, which is 0 for one that is not in it.
RevIn(boards, b) == IF b \in DOMAIN boards THEN boards[b].rev ELSE 0
NewestIn(s, b, copies) == \A c \in copies : c.id = b => c.rev = s[b].rev

\* The requests, the server, the store and the news.
ListsInv ==
  /\ cbReqs \in Seq(PanelReqs) /\ cbNews \in Seq(BoardCopies)
  /\ DOMAIN cbPast = PastFields /\ DOMAIN cbPast.titles = CbBoards
  /\ ServerFits(cbServer) /\ LinkKeepsOthers
  /\ StoreFits(cbServer, cbStore)
  /\ \A i \in 1 .. Len(cbReqs) : ReqFits(cbServer, cbReqs[i]) /\ (cbReqs[i].status = "failed" => cbPast.failed)
  /\ NewsFits(cbServer, cbNews)

\* The list is there or under way, and it is of the server's revisions.
StoreInv ==
  /\ cbPast.open /\ ~cbPast.failed => (\E i \in 1 .. Len(cbReqs) : cbReqs[i].kind = "boards") \/ DOMAIN cbStore = CbBoards
  /\ ~cbPast.failed /\ ~cbPast.overtaken =>
       \A b \in CbBoards : NewsOf(cbNews, b) \/ RevIn(cbStore, b) = cbServer[b].rev

\* So are the results, and they are those of the last text.
AnswersNewest(s, rs, b) ==
  \A i \in 1 .. Len(rs) : rs[i].kind = "search" /\ rs[i].status = "ok" => NewestIn(s, b, rs[i].answer)
ResultsInv ==
  /\ cbDialog \in PanelDialogs
  /\ \A c \in cbDialog.results : HadAt(cbServer, c)
  /\ cbDialog.confirm # <<>> => cbDialog.link # "" /\ cbDialog.confirm[1].channel # cbDialog.link
  /\ ~cbPast.overtaken =>
       \A b \in CbBoards :
         NewsOf(cbNews, b) \/ (NewestIn(cbServer, b, cbDialog.results) /\ AnswersNewest(cbServer, cbReqs, b))
  /\ ~cbPast.failed /\ ~cbPast.swapped /\ cbDialog.link # "" =>
       \/ LastOf(cbReqs, "search", cbDialog.query)
       \/ NoneOf(cbReqs, "search") /\ {c.id : c \in cbDialog.results} = CbMatches[cbDialog.query]

CardsInv ==
  /\ cbPanel \in PanelViews
  /\ ~cbPast.failed /\ ~cbPast.swapped /\ cbPanel.selected # NoBoard =>
       \/ LastOf(cbReqs, "cards", cbPanel.selected)
       \/ NoneOf(cbReqs, "cards") /\ cbPanel.cards = cbPanel.selected

UndoInv == cbUndo \in Seq(Links) /\ (cbUndo # <<>> => LinkFits(cbUndo[1]))

\* Before the panel appears nothing is asked for.
ClosedInv ==
  ~cbPast.open =>
    /\ cbReqs = <<>> /\ DOMAIN cbStore = {} /\ cbNews = <<>> /\ cbUndo = <<>> /\ cbDialog = Closed
    /\ ~cbPanel.loaded /\ cbPanel.selected = NoBoard

PanelInv == ListsInv /\ StoreInv /\ ResultsInv /\ CardsInv /\ UndoInv /\ ClosedInv

\* What is said of the boards and the texts.
LEMMA BoardNames ==
  /\ NoBoard \notin CbBoards /\ "" \notin CbChannels /\ FirstChannel \in CbChannels
  /\ "" \in DOMAIN CbMatches /\ \A text \in DOMAIN CbMatches : CbMatches[text] \subseteq CbBoards
BY CbAssumption DEF CbAssumption, NoBoard, FirstChannel

----------------------------------------------------------------------------
\* More requests: none or one that is sent.
LEMMA SentSeq ==
  ASSUME NEW S, NEW rs \in Seq(S), NEW x \in S
  PROVE  /\ rs \o <<x>> \in Seq(S) /\ Len(rs \o <<x>>) = Len(rs) + 1 /\ Len(rs) \in Nat
         /\ (rs \o <<x>>)[Len(rs) + 1] = x
         /\ \A i \in 1 .. Len(rs) : (rs \o <<x>>)[i] = rs[i]
OBVIOUS

LEMMA NothingSent ==
  ASSUME NEW S, NEW rs \in Seq(S)
  PROVE  rs \o <<>> = rs
OBVIOUS

LEMMA SentLast ==
  ASSUME NEW S, NEW rs \in Seq(S), NEW x \in S, NEW kind, NEW what
  PROVE  LET ts == rs \o <<x>> IN
         /\ x.kind = kind /\ x.what = what => LastOf(ts, kind, what)
         /\ x.kind # kind /\ LastOf(rs, kind, what) => LastOf(ts, kind, what)
         /\ x.kind # kind /\ NoneOf(rs, kind) => NoneOf(ts, kind)
<1> DEFINE ts == rs \o <<x>>
           n == Len(rs)
<1>1. /\ n \in Nat /\ Len(ts) = n + 1 /\ ts[n + 1] = x
      /\ \A i \in 1 .. n : ts[i] = rs[i]
  BY SentSeq
<1> HIDE DEF ts
<1>2. ASSUME x.kind = kind, x.what = what PROVE LastOf(ts, kind, what)
  <2>1. n + 1 \in 1 .. Len(ts) /\ \A j \in (n + 1) + 1 .. Len(ts) : FALSE
    BY <1>1
  <2> QED BY <1>1, <1>2, <2>1 DEF LastOf
<1>3. ASSUME x.kind # kind, LastOf(rs, kind, what) PROVE LastOf(ts, kind, what)
  <2>1. PICK i \in 1 .. n : rs[i].kind = kind /\ rs[i].what = what /\ \A j \in i + 1 .. n : rs[j].kind # kind
    BY <1>3 DEF LastOf
  <2>2. i \in 1 .. Len(ts) /\ ts[i].kind = kind /\ ts[i].what = what
    BY <1>1, <2>1
  <2>3. ASSUME NEW j \in i + 1 .. Len(ts) PROVE ts[j].kind # kind
    <3>1. j = n + 1 \/ j \in i + 1 .. n
      BY <1>1, <2>1, <2>3
    <3> QED BY <1>1, <1>3, <2>1, <3>1
  <2> QED BY <2>2, <2>3 DEF LastOf
<1>4. ASSUME x.kind # kind, NoneOf(rs, kind) PROVE NoneOf(ts, kind)
  <2>1. ASSUME NEW i \in 1 .. Len(ts) PROVE ts[i].kind # kind
    <3>1. i = n + 1 \/ i \in 1 .. n
      BY <1>1, <2>1
    <3> QED BY <1>1, <1>4, <3>1 DEF NoneOf
  <2> QED BY <2>1 DEF NoneOf
<1> QED BY <1>2, <1>3, <1>4 DEF ts

\* A request that is served keeps its kind and what it asks for.
LEMMA ServedLast ==
  ASSUME NEW S, NEW rs \in Seq(S), NEW ts \in Seq(S), Len(ts) = Len(rs),
         \A i \in 1 .. Len(rs) : ts[i].kind = rs[i].kind /\ ts[i].what = rs[i].what,
         NEW kind, NEW what
  PROVE  (LastOf(ts, kind, what) <=> LastOf(rs, kind, what)) /\ (NoneOf(ts, kind) <=> NoneOf(rs, kind))
<1>1. \A i \in 1 .. Len(rs) : \A j \in i + 1 .. Len(rs) : j \in 1 .. Len(rs)
  OBVIOUS
<1>2. LastOf(ts, kind, what) => LastOf(rs, kind, what)
  <2> SUFFICES ASSUME LastOf(ts, kind, what) PROVE LastOf(rs, kind, what)
    OBVIOUS
  <2>1. PICK i \in 1 .. Len(rs) : ts[i].kind = kind /\ ts[i].what = what /\ \A j \in i + 1 .. Len(rs) : ts[j].kind # kind
    BY Zenon DEF LastOf
  <2>2. rs[i].kind = kind /\ rs[i].what = what /\ \A j \in i + 1 .. Len(rs) : rs[j].kind # kind
    BY <1>1, <2>1, Zenon
  <2> QED BY <2>2, Zenon DEF LastOf
<1>3. LastOf(rs, kind, what) => LastOf(ts, kind, what)
  <2> SUFFICES ASSUME LastOf(rs, kind, what) PROVE LastOf(ts, kind, what)
    OBVIOUS
  <2>1. PICK i \in 1 .. Len(rs) : rs[i].kind = kind /\ rs[i].what = what /\ \A j \in i + 1 .. Len(rs) : rs[j].kind # kind
    BY Zenon DEF LastOf
  <2>2. ts[i].kind = kind /\ ts[i].what = what /\ \A j \in i + 1 .. Len(rs) : ts[j].kind # kind
    BY <1>1, <2>1, Zenon
  <2> QED BY <2>2, Zenon DEF LastOf
<1>4. NoneOf(ts, kind) <=> NoneOf(rs, kind)
  BY Zenon DEF NoneOf
<1> QED BY <1>2, <1>3, <1>4

\* A request is answered that none of its kind was sent before.
LEMMA AnsweredLast ==
  ASSUME NEW S, NEW rs \in Seq(S), NEW i \in DOMAIN rs, NEW kind, NEW what
  PROVE  LET ts == RemoveAt(rs, i) IN
         /\ NoneOf(rs, kind) => NoneOf(ts, kind)
         /\ rs[i].kind # kind /\ LastOf(rs, kind, what) => LastOf(ts, kind, what)
         /\ rs[i].kind = kind /\ (\A j \in DOMAIN rs : j < i => rs[j].kind # kind) /\ LastOf(rs, kind, what) =>
              LastOf(ts, kind, what) \/ (NoneOf(ts, kind) /\ rs[i].what = what)
<1> DEFINE ts == RemoveAt(rs, i)
           n == Len(rs)
<1>1. /\ n \in Nat /\ Len(ts) = n - 1 /\ i \in 1 .. n
      /\ \A j \in 1 .. Len(ts) : ts[j] = IF j < i THEN rs[j] ELSE rs[j + 1]
  BY RemoveAtPlaces
<1> HIDE DEF ts
<1>2. ASSUME NoneOf(rs, kind) PROVE NoneOf(ts, kind)
  BY <1>1, <1>2 DEF NoneOf
<1>3. ASSUME NEW k \in 1 .. n, k # i, rs[k].kind = kind, rs[k].what = what, \A j \in k + 1 .. n : rs[j].kind # kind
      PROVE  LastOf(ts, kind, what)
  <2> DEFINE m == IF k < i THEN k ELSE k - 1
  <2>1. m \in 1 .. Len(ts) /\ ts[m] = rs[k]
    BY <1>1, <1>3
  <2>2. ASSUME NEW j \in m + 1 .. Len(ts) PROVE ts[j].kind # kind
    <3>1. j \in 1 .. Len(ts) /\ (j < i => j \in k + 1 .. n) /\ (j >= i => j + 1 \in k + 1 .. n)
      BY <1>1, <1>3, <2>1, <2>2
    <3> QED BY <1>1, <1>3, <3>1
  <2> HIDE DEF m
  <2> QED BY <1>3, <2>1, <2>2 DEF LastOf
<1>4. ASSUME rs[i].kind # kind, LastOf(rs, kind, what) PROVE LastOf(ts, kind, what)
  <2>1. PICK k \in 1 .. n : rs[k].kind = kind /\ rs[k].what = what /\ \A j \in k + 1 .. n : rs[j].kind # kind
    BY <1>4 DEF LastOf
  <2> QED BY <1>3, <1>4, <2>1
<1>5. ASSUME rs[i].kind = kind, \A j \in DOMAIN rs : j < i => rs[j].kind # kind, LastOf(rs, kind, what)
      PROVE  LastOf(ts, kind, what) \/ (NoneOf(ts, kind) /\ rs[i].what = what)
  <2>1. PICK k \in 1 .. n : rs[k].kind = kind /\ rs[k].what = what /\ \A j \in k + 1 .. n : rs[j].kind # kind
    BY <1>5 DEF LastOf
  <2>2. CASE k # i
    BY <1>3, <2>1, <2>2
  <2>3. CASE k = i
    <3>1. ASSUME NEW j \in 1 .. Len(ts) PROVE ts[j].kind # kind
      <4>1. j \in DOMAIN rs /\ (j >= i => j + 1 \in k + 1 .. n)
        BY <1>1, <2>3, <3>1
      <4> QED BY <1>1, <1>5, <2>1, <3>1, <4>1
    <3> QED BY <2>1, <2>3, <3>1 DEF NoneOf
  <2> QED BY <2>2, <2>3
<1> QED BY <1>2, <1>4, <1>5 DEF ts

\* Clicks note how many there were and how they raced, and nothing else.
LEMMA ClickTold ==
  ASSUME DOMAIN cbPast = PastFields, NEW rs, Click(rs)
  PROVE  /\ DOMAIN cbPast' = PastFields /\ cbPast'.titles = cbPast.titles
         /\ cbPast'.open = cbPast.open /\ cbPast'.failed = cbPast.failed
         /\ cbPast'.swapped = cbPast.swapped /\ cbPast'.overtaken = cbPast.overtaken
         /\ cbReqs' = cbReqs \o rs
BY DEF Click, PastFields

\* What a click leaves of the lists, whether it sends a request or none.
ClickedAs(rs) ==
  /\ Click(rs) /\ UNCHANGED <<cbServer, cbStore, cbNews>>
  /\ rs = <<>> \/ \E r \in PanelReqs : rs = <<r>> /\ r.status = "sent" /\ ReqFits(cbServer, r)
ClickLeaves ==
  /\ ListsInv' /\ (cbPast.open => StoreInv')
  /\ \A b \in CbBoards : AnswersNewest(cbServer, cbReqs, b) => AnswersNewest(cbServer', cbReqs', b)
  /\ cbPast'.open = cbPast.open /\ cbPast'.failed = cbPast.failed
  /\ cbPast'.swapped = cbPast.swapped /\ cbPast'.overtaken = cbPast.overtaken

LEMMA ClickKeeps ==
  ASSUME ListsInv, StoreInv, NEW rs, ClickedAs(rs)
  PROVE  ClickLeaves
<1>1. /\ DOMAIN cbPast' = PastFields /\ cbPast'.titles = cbPast.titles
      /\ cbPast'.open = cbPast.open /\ cbPast'.failed = cbPast.failed
      /\ cbPast'.swapped = cbPast.swapped /\ cbPast'.overtaken = cbPast.overtaken
      /\ cbReqs' = cbReqs \o rs
  BY ClickTold DEF ListsInv, ClickedAs
<1>2. cbServer' = cbServer /\ cbStore' = cbStore /\ cbNews' = cbNews
  BY DEF ClickedAs
<1>3. cbReqs \in Seq(PanelReqs)
  BY DEF ListsInv
<1>4. /\ cbReqs' \in Seq(PanelReqs) /\ Len(cbReqs') >= Len(cbReqs) /\ Len(cbReqs) \in Nat
      /\ \A i \in 1 .. Len(cbReqs) : cbReqs'[i] = cbReqs[i]
      /\ \A i \in 1 .. Len(cbReqs') : i \in 1 .. Len(cbReqs) \/ (cbReqs'[i].status = "sent" /\ ReqFits(cbServer, cbReqs'[i]))
  <2>1. CASE rs = <<>>
    <3>1. cbReqs' = cbReqs
      BY <1>1, <1>3, <2>1
    <3> QED BY <1>3, <3>1
  <2>2. CASE \E r \in PanelReqs : rs = <<r>> /\ r.status = "sent" /\ ReqFits(cbServer, r)
    <3>1. PICK r \in PanelReqs : rs = <<r>> /\ r.status = "sent" /\ ReqFits(cbServer, r)
      BY <2>2
    <3>2. /\ cbReqs' \in Seq(PanelReqs) /\ Len(cbReqs') = Len(cbReqs) + 1 /\ Len(cbReqs) \in Nat
          /\ cbReqs'[Len(cbReqs) + 1] = r /\ \A i \in 1 .. Len(cbReqs) : cbReqs'[i] = cbReqs[i]
      BY <1>1, <1>3, <3>1, SentSeq
    <3>3. \A i \in 1 .. Len(cbReqs') : i \in 1 .. Len(cbReqs) \/ i = Len(cbReqs) + 1
      BY <3>2
    <3> QED BY <3>1, <3>2, <3>3
  <2> QED BY <2>1, <2>2 DEF ClickedAs
<1>5. ListsInv'
  <2>1. ServerFits(cbServer') /\ LinkKeepsOthers' /\ StoreFits(cbServer', cbStore') /\ NewsFits(cbServer', cbNews')
    BY <1>1, <1>2 DEF ListsInv, LinkKeepsOthers
  <2>2. \A i \in 1 .. Len(cbReqs') : ReqFits(cbServer', cbReqs'[i]) /\ (cbReqs'[i].status = "failed" => cbPast'.failed)
    BY <1>1, <1>2, <1>4 DEF ListsInv
  <2>3. cbNews' \in Seq(BoardCopies) /\ DOMAIN cbPast'.titles = CbBoards
    BY <1>1, <1>2 DEF ListsInv
  <2> QED BY <1>1, <1>4, <2>1, <2>2, <2>3 DEF ListsInv
<1>6. ASSUME cbPast.open PROVE StoreInv'
  <2>1. (\E i \in 1 .. Len(cbReqs) : cbReqs[i].kind = "boards") => \E i \in 1 .. Len(cbReqs') : cbReqs'[i].kind = "boards"
    <3>1. 1 .. Len(cbReqs) \subseteq 1 .. Len(cbReqs')
      BY <1>4
    <3> QED BY <1>4, <3>1
  <2> QED BY <1>1, <1>2, <2>1 DEF StoreInv
<1>7. \A b \in CbBoards : AnswersNewest(cbServer, cbReqs, b) => AnswersNewest(cbServer', cbReqs', b)
  BY <1>2, <1>4 DEF AnswersNewest
<1> QED BY <1>1, <1>5, <1>6, <1>7 DEF ClickLeaves

\* The requests of a kind that are sent last, after a click.
LEMMA ClickLast ==
  ASSUME cbReqs \in Seq(PanelReqs), NEW r \in PanelReqs, cbReqs' = cbReqs \o <<r>>, NEW kind, NEW what
  PROVE  /\ r.kind = kind /\ r.what = what => LastOf(cbReqs', kind, what)
         /\ r.kind # kind /\ LastOf(cbReqs, kind, what) => LastOf(cbReqs', kind, what)
         /\ r.kind # kind /\ NoneOf(cbReqs, kind) => NoneOf(cbReqs', kind)
BY SentLast

\* The requests that clicks send.
LEMMA AskedFits ==
  /\ Loading \in PanelReqs /\ ReqFits(cbServer, Loading)
  /\ \A text \in DOMAIN CbMatches : Searching(text) \in PanelReqs /\ ReqFits(cbServer, Searching(text))
  /\ \A b \in CbBoards : Asking("cards", b) \in PanelReqs /\ ReqFits(cbServer, Asking("cards", b))
  /\ \A w \in Links : LinkFits(w) => Asking("patch", w) \in PanelReqs /\ ReqFits(cbServer, Asking("patch", w))
<1>1. <<>> \in PanelAnswers
  BY DEF PanelAnswers
<1>2. "" \in Whats /\ DOMAIN CbMatches \subseteq Whats /\ CbBoards \subseteq Whats /\ Links \subseteq Whats
  BY DEF Whats
<1>3. ASSUME NEW kind \in {"boards", "search", "cards", "patch"}, NEW what \in Whats,
             kind = "search" => what \in DOMAIN CbMatches, kind = "cards" => what \in CbBoards, kind = "patch" => LinkFits(what)
      PROVE  Asking(kind, what) \in PanelReqs /\ ReqFits(cbServer, Asking(kind, what))
  <2>1. Asking(kind, what) \in PanelReqs
    BY <1>1, <1>3 DEF Asking, PanelReqs
  <2> QED BY <1>3, <2>1 DEF Asking, ReqFits
<1>4. Loading \in PanelReqs /\ ReqFits(cbServer, Loading)
  BY <1>2, <1>3 DEF Loading
<1>5. ASSUME NEW text \in DOMAIN CbMatches PROVE Searching(text) \in PanelReqs /\ ReqFits(cbServer, Searching(text))
  <2>1. text \in Whats
    BY <1>2
  <2> QED BY <1>3, <2>1 DEF Searching
<1>6. ASSUME NEW b \in CbBoards PROVE Asking("cards", b) \in PanelReqs /\ ReqFits(cbServer, Asking("cards", b))
  <2>1. b \in Whats
    BY <1>2
  <2> QED BY <1>3, <2>1
<1>7. ASSUME NEW w \in Links, LinkFits(w) PROVE Asking("patch", w) \in PanelReqs /\ ReqFits(cbServer, Asking("patch", w))
  <2>1. w \in Whats
    BY <1>2
  <2> QED BY <1>3, <1>7, <2>1
<1> QED BY <1>4, <1>5, <1>6, <1>7

LEMMA AskedFor ==
  /\ Loading.kind = "boards" /\ Loading.status = "sent"
  /\ \A text : Searching(text).kind = "search" /\ Searching(text).what = text /\ Searching(text).status = "sent"
  /\ \A b : Asking("cards", b).kind = "cards" /\ Asking("cards", b).what = b /\ Asking("cards", b).status = "sent"
  /\ \A w : Asking("patch", w).kind = "patch" /\ Asking("patch", w).what = w /\ Asking("patch", w).status = "sent"
BY DEF Loading, Searching, Asking

\* The results and the panel's cards after a click.
LEMMA ResultsClick ==
  ASSUME ListsInv, ResultsInv, NEW rs, ClickedAs(rs), ClickLeaves,
         cbDialog' \in PanelDialogs, cbDialog'.results \in {cbDialog.results, {}},
         cbDialog'.confirm # <<>> => cbDialog'.link # "" /\ cbDialog'.confirm[1].channel # cbDialog'.link,
         cbDialog'.link # "" =>
           \/ rs = <<Searching(cbDialog'.query)>>
           \/ /\ \A r : rs = <<r>> => r.kind # "search"
              /\ cbDialog.link # "" /\ cbDialog'.query = cbDialog.query /\ cbDialog'.results = cbDialog.results
  PROVE  ResultsInv'
<1>1. /\ cbReqs \in Seq(PanelReqs) /\ cbReqs' = cbReqs \o rs
      /\ cbServer' = cbServer /\ cbNews' = cbNews
  BY ClickTold DEF ListsInv, ClickedAs
<1>2. \A c \in cbDialog'.results : c \in cbDialog.results
  OBVIOUS
<1>3. \A c \in cbDialog'.results : HadAt(cbServer', c)
  BY <1>1, <1>2 DEF ResultsInv
<1>4. ASSUME ~cbPast'.overtaken, NEW b \in CbBoards
      PROVE  NewsOf(cbNews', b) \/ (NewestIn(cbServer', b, cbDialog'.results) /\ AnswersNewest(cbServer', cbReqs', b))
  <2>1. ~cbPast.overtaken
    BY <1>4 DEF ClickLeaves
  <2>2. NewsOf(cbNews, b) \/ (NewestIn(cbServer, b, cbDialog.results) /\ AnswersNewest(cbServer, cbReqs, b))
    BY <2>1 DEF ResultsInv
  <2>3. NewestIn(cbServer, b, cbDialog.results) => NewestIn(cbServer', b, cbDialog'.results)
    BY <1>1, <1>2 DEF NewestIn
  <2>4. AnswersNewest(cbServer, cbReqs, b) => AnswersNewest(cbServer', cbReqs', b)
    BY DEF ClickLeaves
  <2> QED BY <1>1, <2>2, <2>3, <2>4
<1>5. ASSUME ~cbPast'.failed, ~cbPast'.swapped, cbDialog'.link # ""
      PROVE  \/ LastOf(cbReqs', "search", cbDialog'.query)
             \/ NoneOf(cbReqs', "search") /\ {c.id : c \in cbDialog'.results} = CbMatches[cbDialog'.query]
  <2>0. ~cbPast.failed /\ ~cbPast.swapped
    BY <1>5 DEF ClickLeaves
  <2>1. CASE rs = <<Searching(cbDialog'.query)>>
    <3>1. cbDialog'.query \in DOMAIN CbMatches
      BY DEF PanelDialogs
    <3>2. Searching(cbDialog'.query) \in PanelReqs
      BY <3>1, AskedFits
    <3>3. Searching(cbDialog'.query).kind = "search" /\ Searching(cbDialog'.query).what = cbDialog'.query
      BY AskedFor
    <3> QED BY <1>1, <2>1, <3>2, <3>3, ClickLast
  <2>2. CASE /\ \A r : rs = <<r>> => r.kind # "search"
             /\ cbDialog.link # "" /\ cbDialog'.query = cbDialog.query /\ cbDialog'.results = cbDialog.results
    <3>1. \/ LastOf(cbReqs, "search", cbDialog.query)
          \/ NoneOf(cbReqs, "search") /\ {c.id : c \in cbDialog.results} = CbMatches[cbDialog.query]
      BY <2>0, <2>2 DEF ResultsInv
    <3>2. CASE rs = <<>>
      <4>1. cbReqs' = cbReqs
        <5>1. cbReqs \o <<>> = cbReqs
          BY <1>1, NothingSent
        <5> QED BY <1>1, <3>2, <5>1
      <4> QED BY <2>2, <3>1, <4>1
    <3>3. CASE \E r \in PanelReqs : rs = <<r>>
      <4>1. PICK r \in PanelReqs : rs = <<r>>
        BY <3>3
      <4>2. r.kind # "search"
        BY <2>2, <4>1
      <4> QED BY <1>1, <2>2, <3>1, <4>1, <4>2, ClickLast
    <3> QED BY <3>2, <3>3 DEF ClickedAs
  <2> QED BY <1>5, <2>1, <2>2
<1> QED BY <1>3, <1>4, <1>5 DEF ResultsInv

LEMMA CardsClick ==
  ASSUME ListsInv, CardsInv, NEW rs, ClickedAs(rs), ClickLeaves, cbPanel' \in PanelViews,
         cbPanel'.selected # NoBoard =>
           \/ rs = <<Asking("cards", cbPanel'.selected)>>
           \/ /\ \A r : rs = <<r>> => r.kind # "cards"
              /\ cbPanel'.selected = cbPanel.selected /\ cbPanel'.cards = cbPanel.cards
  PROVE  CardsInv'
<1>1. cbReqs \in Seq(PanelReqs) /\ cbReqs' = cbReqs \o rs
  BY ClickTold DEF ListsInv, ClickedAs
<1>5. ASSUME ~cbPast'.failed, ~cbPast'.swapped, cbPanel'.selected # NoBoard
      PROVE  \/ LastOf(cbReqs', "cards", cbPanel'.selected)
             \/ NoneOf(cbReqs', "cards") /\ cbPanel'.cards = cbPanel'.selected
  <2>0. ~cbPast.failed /\ ~cbPast.swapped
    BY <1>5 DEF ClickLeaves
  <2>1. CASE rs = <<Asking("cards", cbPanel'.selected)>>
    <3>1. cbPanel'.selected \in CbBoards
      BY <1>5 DEF PanelViews
    <3>2. Asking("cards", cbPanel'.selected) \in PanelReqs
      BY <3>1, AskedFits
    <3>3. Asking("cards", cbPanel'.selected).kind = "cards" /\ Asking("cards", cbPanel'.selected).what = cbPanel'.selected
      BY AskedFor
    <3> QED BY <1>1, <2>1, <3>2, <3>3, ClickLast
  <2>2. CASE /\ \A r : rs = <<r>> => r.kind # "cards"
             /\ cbPanel'.selected = cbPanel.selected /\ cbPanel'.cards = cbPanel.cards
    <3>1. LastOf(cbReqs, "cards", cbPanel.selected) \/ (NoneOf(cbReqs, "cards") /\ cbPanel.cards = cbPanel.selected)
      BY <1>5, <2>0, <2>2 DEF CardsInv
    <3>2. CASE rs = <<>>
      <4>1. cbReqs' = cbReqs
        <5>1. cbReqs \o <<>> = cbReqs
          BY <1>1, NothingSent
        <5> QED BY <1>1, <3>2, <5>1
      <4> QED BY <2>2, <3>1, <4>1
    <3>3. CASE \E r \in PanelReqs : rs = <<r>>
      <4>1. PICK r \in PanelReqs : rs = <<r>>
        BY <3>3
      <4>2. r.kind # "cards"
        BY <2>2, <4>1
      <4> QED BY <1>1, <2>2, <3>1, <4>1, <4>2, ClickLast
    <3> QED BY <3>2, <3>3 DEF ClickedAs
  <2> QED BY <1>5, <2>1, <2>2
<1> QED BY <1>5 DEF CardsInv

----------------------------------------------------------------------------
\* The panel.
LEMMA PanelOpens == ASSUME PanelInv, OpenPanel  PROVE PanelInv'
<1> DEFINE a == Loading
           b == Searching("")
<1>1. /\ ListsInv /\ StoreInv /\ ResultsInv /\ CardsInv /\ UndoInv /\ ClosedInv
  BY DEF PanelInv
<1>2. /\ a \in PanelReqs /\ ReqFits(cbServer, a) /\ b \in PanelReqs /\ ReqFits(cbServer, b)
      /\ a.kind = "boards" /\ a.status = "sent" /\ b.kind = "search" /\ b.status = "sent"
  <2>1. "" \in DOMAIN CbMatches
    BY BoardNames
  <2> QED BY <2>1, AskedFits, AskedFor
<1>3. ~cbPast.open /\ cbReqs' = <<a, b>> /\ cbPast' = [cbPast EXCEPT !.open = TRUE]
      /\ UNCHANGED <<cbServer, cbStore, cbPanel, cbDialog, cbNews, cbUndo>>
  BY DEF OpenPanel
<1> HIDE DEF a, b
<1>4. /\ DOMAIN cbPast' = PastFields /\ cbPast'.open /\ cbPast'.failed = cbPast.failed /\ cbPast'.swapped = cbPast.swapped
      /\ cbPast'.overtaken = cbPast.overtaken /\ cbPast'.titles = cbPast.titles
  BY <1>1, <1>3 DEF ListsInv, PastFields
<1>5. /\ cbReqs' \in Seq(PanelReqs) /\ Len(cbReqs') = 2 /\ cbReqs'[1] = a /\ cbReqs'[2] = b
      /\ \A i \in 1 .. Len(cbReqs') : i = 1 \/ i = 2
  BY <1>2, <1>3
<1>6. cbReqs = <<>> /\ cbNews = <<>> /\ cbDialog = Closed /\ cbPanel.selected = NoBoard
  BY <1>1, <1>3 DEF ClosedInv
<1>7. ListsInv'
  <2>1. ServerFits(cbServer') /\ LinkKeepsOthers' /\ StoreFits(cbServer', cbStore') /\ NewsFits(cbServer', cbNews')
        /\ cbNews' \in Seq(BoardCopies) /\ DOMAIN cbPast'.titles = CbBoards
    BY <1>1, <1>3, <1>4 DEF ListsInv, LinkKeepsOthers
  <2>2. \A i \in 1 .. Len(cbReqs') : ReqFits(cbServer', cbReqs'[i]) /\ (cbReqs'[i].status = "failed" => cbPast'.failed)
    BY <1>2, <1>3, <1>5
  <2> QED BY <1>4, <1>5, <2>1, <2>2 DEF ListsInv
<1>8. StoreInv'
  <2>1. \E i \in 1 .. Len(cbReqs') : cbReqs'[i].kind = "boards"
    BY <1>2, <1>5
  <2> QED BY <1>1, <1>3, <1>4, <2>1 DEF StoreInv
<1>9. ResultsInv'
  <2>1. cbDialog'.link = "" /\ cbDialog'.results = {}
    BY <1>3, <1>6 DEF Closed
  <2>2. \A bd \in CbBoards : AnswersNewest(cbServer', cbReqs', bd)
    BY <1>2, <1>5 DEF AnswersNewest
  <2>3. \A bd \in CbBoards : NewestIn(cbServer', bd, cbDialog'.results)
    BY <2>1 DEF NewestIn
  <2> QED BY <1>1, <1>3, <2>1, <2>2, <2>3 DEF ResultsInv
<1>10. CardsInv' /\ UndoInv' /\ ClosedInv'
  BY <1>1, <1>3, <1>4, <1>6 DEF CardsInv, UndoInv, ClosedInv
<1> QED BY <1>7, <1>8, <1>9, <1>10 DEF PanelInv

\* A click of the panel leaves the dialog and the undo as they are.
LEMMA ClicksKeep ==
  ASSUME PanelInv, cbPast.open, NEW rs, ClickedAs(rs), UNCHANGED <<cbDialog, cbUndo>>, \A r : rs = <<r>> => r.kind # "search",
         cbPanel' \in PanelViews,
         cbPanel'.selected # NoBoard =>
           \/ rs = <<Asking("cards", cbPanel'.selected)>>
           \/ /\ \A r : rs = <<r>> => r.kind # "cards"
              /\ cbPanel'.selected = cbPanel.selected /\ cbPanel'.cards = cbPanel.cards
  PROVE  PanelInv'
<1>1. /\ ListsInv /\ StoreInv /\ ResultsInv /\ CardsInv /\ UndoInv /\ ClosedInv
  BY DEF PanelInv
<1>2. ClickLeaves
  BY <1>1, ClickKeeps
<1>3. ResultsInv'
  <2>1. cbDialog' = cbDialog
    OBVIOUS
  <2>2. /\ cbDialog' \in PanelDialogs
        /\ cbDialog'.confirm # <<>> => cbDialog'.link # "" /\ cbDialog'.confirm[1].channel # cbDialog'.link
    BY <1>1, <2>1 DEF ResultsInv
  <2> QED BY <1>1, <1>2, <2>1, <2>2, ResultsClick
<1>4. CardsInv'
  BY <1>1, <1>2, CardsClick
<1>5. UndoInv' /\ ClosedInv'
  BY <1>1, <1>2 DEF UndoInv, ClosedInv, ClickLeaves
<1>6. ListsInv' /\ StoreInv'
  BY <1>2 DEF ClickLeaves
<1> QED BY <1>3, <1>4, <1>5, <1>6 DEF PanelInv

\* Requests that clicks send are sent and fit.
LEMMA NothingAsked ==
  ASSUME Click(<<>>), UNCHANGED <<cbServer, cbStore, cbNews>>
  PROVE  ClickedAs(<<>>) /\ \A r : <<>> = <<r>> => FALSE
<1>1. \A r : Len(<<r>>) = 1 /\ Len(<<>>) = 0
  OBVIOUS
<1> QED BY <1>1 DEF ClickedAs
LEMMA OneAsked ==
  ASSUME NEW r \in PanelReqs, r.status = "sent", ReqFits(cbServer, r), Click(<<r>>), UNCHANGED <<cbServer, cbStore, cbNews>>
  PROVE  ClickedAs(<<r>>) /\ \A x : <<r>> = <<x>> => x = r
BY DEF ClickedAs

LEMMA ChannelChanges == ASSUME PanelInv, SetChannel  PROVE PanelInv'
<1>1. PICK c \in CbChannels : cbPanel' = [cbPanel EXCEPT !.channel = c, !.selected = NoBoard]
  BY DEF SetChannel
<1>2. cbPast.open /\ Click(<<Loading>>) /\ UNCHANGED <<cbServer, cbStore, cbDialog, cbNews, cbUndo>>
  BY DEF SetChannel
<1>3. Loading \in PanelReqs /\ ReqFits(cbServer, Loading) /\ Loading.kind = "boards" /\ Loading.status = "sent"
  BY AskedFits, AskedFor
<1>4. ClickedAs(<<Loading>>) /\ \A x : <<Loading>> = <<x>> => x = Loading
  BY <1>2, <1>3, OneAsked
<1>5. cbPanel' \in PanelViews /\ cbPanel'.selected = NoBoard
  <2>1. cbPanel \in PanelViews
    BY DEF PanelInv, CardsInv
  <2> QED BY <1>1, <2>1 DEF PanelViews
<1> HIDE DEF Loading
<1> QED BY <1>2, <1>3, <1>4, <1>5, ClicksKeep

LEMMA BoardShown == ASSUME PanelInv, ClickBoard  PROVE PanelInv'
<1>1. PICK b \in ChannelBoards :
        /\ cbPanel' = [cbPanel EXCEPT !.selected = b] /\ Click(<<Asking("cards", b)>>)
        /\ UNCHANGED <<cbServer, cbStore, cbDialog, cbNews, cbUndo>>
  BY DEF ClickBoard
<1>2. cbPanel.loaded /\ b \in DOMAIN cbStore
  BY <1>1 DEF ChannelBoards
<1>3. b \in CbBoards /\ cbPast.open
  BY <1>2 DEF PanelInv, ListsInv, StoreFits, ClosedInv
<1> DEFINE r == Asking("cards", b)
<1>4. r \in PanelReqs /\ ReqFits(cbServer, r) /\ r.kind = "cards" /\ r.status = "sent"
  BY <1>3, AskedFits, AskedFor
<1> HIDE DEF r
<1>5. ClickedAs(<<r>>) /\ \A x : <<r>> = <<x>> => x = r
  BY <1>1, <1>4, OneAsked DEF r
<1>6. cbPanel' \in PanelViews /\ cbPanel'.selected = b
  <2>1. cbPanel \in PanelViews
    BY DEF PanelInv, CardsInv
  <2> QED BY <1>1, <1>3, <2>1 DEF PanelViews
<1>7. <<r>> = <<Asking("cards", cbPanel'.selected)>>
  BY <1>6 DEF r
<1>8. UNCHANGED <<cbDialog, cbUndo>>
  BY <1>1
<1>9. \A x : <<r>> = <<x>> => x.kind # "search"
  BY <1>4, <1>5
<1> QED BY <1>3, <1>5, <1>6, <1>7, <1>8, <1>9, ClicksKeep

LEMMA BoardsShown == ASSUME PanelInv, ShowBoardsList  PROVE PanelInv'
<1>1. /\ cbPanel.selected # NoBoard /\ cbPanel' = [cbPanel EXCEPT !.selected = NoBoard]
      /\ Click(<<>>) /\ UNCHANGED <<cbServer, cbStore, cbDialog, cbNews, cbUndo>>
  BY DEF ShowBoardsList
<1>2. cbPast.open
  BY <1>1 DEF PanelInv, ClosedInv
<1>3. ClickedAs(<<>>) /\ \A r : <<>> = <<r>> => FALSE
  BY <1>1, NothingAsked
<1>4. cbPanel' \in PanelViews /\ cbPanel'.selected = NoBoard
  <2>1. cbPanel \in PanelViews
    BY DEF PanelInv, CardsInv
  <2> QED BY <1>1, <2>1 DEF PanelViews
<1> QED BY <1>1, <1>2, <1>3, <1>4, ClicksKeep

----------------------------------------------------------------------------
\* A click of the dialog leaves the panel as it is.
LEMMA DialogClicked ==
  ASSUME PanelInv, cbPast.open, NEW rs, ClickedAs(rs), cbPanel' = cbPanel, UndoInv', \A r : rs = <<r>> => r.kind # "cards",
         cbDialog' \in PanelDialogs, cbDialog'.results \in {cbDialog.results, {}},
         cbDialog'.confirm # <<>> => cbDialog'.link # "" /\ cbDialog'.confirm[1].channel # cbDialog'.link,
         cbDialog'.link # "" =>
           \/ rs = <<Searching(cbDialog'.query)>>
           \/ /\ \A r : rs = <<r>> => r.kind # "search"
              /\ cbDialog.link # "" /\ cbDialog'.query = cbDialog.query /\ cbDialog'.results = cbDialog.results
  PROVE  PanelInv'
<1>1. /\ ListsInv /\ StoreInv /\ ResultsInv /\ CardsInv /\ UndoInv /\ ClosedInv
  BY DEF PanelInv
<1>2. ClickLeaves
  BY <1>1, ClickKeeps
<1>3. ResultsInv'
  BY <1>1, <1>2, ResultsClick
<1>4. CardsInv'
  <2>1. cbPanel' \in PanelViews
    BY <1>1 DEF CardsInv
  <2> QED BY <1>1, <1>2, <2>1, CardsClick
<1>5. ClosedInv'
  BY <1>1, <1>2 DEF ClosedInv, ClickLeaves
<1>6. ListsInv' /\ StoreInv'
  BY <1>2 DEF ClickLeaves
<1> QED BY <1>3, <1>4, <1>5, <1>6 DEF PanelInv

\* What is known of the dialog, and that it was opened.
LEMMA DialogKnown ==
  ASSUME PanelInv
  PROVE  /\ cbDialog \in PanelDialogs /\ UndoInv
         /\ cbDialog.confirm # <<>> => cbDialog.link # "" /\ cbDialog.confirm[1].channel # cbDialog.link
         /\ cbDialog.link # "" \/ cbDialog.timer # <<>> => cbPast.open
         /\ cbPanel.loaded \/ cbUndo # <<>> => cbPast.open
<1>1. cbDialog \in PanelDialogs /\ UndoInv
  BY DEF PanelInv, ResultsInv
<1>2. cbDialog.confirm # <<>> => cbDialog.link # "" /\ cbDialog.confirm[1].channel # cbDialog.link
  BY DEF PanelInv, ResultsInv
<1>3. ~cbPast.open => cbDialog = Closed /\ ~cbPanel.loaded /\ cbUndo = <<>>
  BY DEF PanelInv, ClosedInv
<1>4. Closed.link = "" /\ Closed.timer = <<>>
  BY DEF Closed
<1> QED BY <1>1, <1>2, <1>3, <1>4

LEMMA LinkStarts == ASSUME PanelInv, SetLinkToChannel  PROVE PanelInv'
<1>1. /\ cbDialog.link = "" /\ cbPanel.loaded /\ cbDialog' = [cbDialog EXCEPT !.link = cbPanel.channel, !.query = ""]
      /\ Click(<<Searching("")>>) /\ UNCHANGED <<cbServer, cbStore, cbPanel, cbNews, cbUndo>>
  BY DEF SetLinkToChannel
<1> DEFINE r == Searching("")
<1>2. /\ r \in PanelReqs /\ ReqFits(cbServer, r) /\ r.kind = "search" /\ r.status = "sent"
  <2>1. "" \in DOMAIN CbMatches
    BY BoardNames
  <2> QED BY <2>1, AskedFits, AskedFor
<1>3. cbPanel.channel \in CbChannels
  BY DEF PanelInv, CardsInv, PanelViews
<1>4. /\ cbDialog' \in PanelDialogs /\ cbDialog'.results = cbDialog.results /\ cbDialog'.query = ""
      /\ cbDialog'.confirm = <<>>
  BY <1>1, <1>3, BoardNames, DialogKnown DEF PanelDialogs
<1> HIDE DEF r
<1>5. ClickedAs(<<r>>) /\ \A x : <<r>> = <<x>> => x = r
  BY <1>1, <1>2, OneAsked DEF r
<1>6. <<r>> = <<Searching(cbDialog'.query)>>
  BY <1>4 DEF r
<1>7. UndoInv' /\ cbPast.open
  BY <1>1, DialogKnown DEF UndoInv
<1>8. \A x : <<r>> = <<x>> => x.kind # "cards"
  BY <1>2, <1>5
<1> QED BY <1>1, <1>4, <1>5, <1>6, <1>7, <1>8, DialogClicked

LEMMA TextTyped == ASSUME PanelInv, HandleSearchChange  PROVE PanelInv'
<1>1. PICK text \in DOMAIN CbMatches :
        IF text = "" THEN cbDialog' = [cbDialog EXCEPT !.query = ""] /\ Click(<<Searching("")>>)
        ELSE cbDialog' = [cbDialog EXCEPT !.timer = <<text>>] /\ Click(<<>>)
  BY DEF HandleSearchChange
<1>2. /\ cbDialog.link # "" /\ cbDialog.confirm = <<>> /\ UNCHANGED <<cbServer, cbStore, cbPanel, cbNews, cbUndo>>
  BY DEF HandleSearchChange
<1>3. UndoInv' /\ cbPast.open /\ cbDialog \in PanelDialogs
  BY <1>2, DialogKnown DEF UndoInv
<1>4. CASE text = ""
  <2> DEFINE r == Searching("")
  <2>2. /\ r \in PanelReqs /\ ReqFits(cbServer, r) /\ r.kind = "search" /\ r.status = "sent"
    <3>1. "" \in DOMAIN CbMatches
      BY BoardNames
    <3> QED BY <3>1, AskedFits, AskedFor
  <2>4. /\ cbDialog' \in PanelDialogs /\ cbDialog'.results = cbDialog.results /\ cbDialog'.query = ""
        /\ cbDialog'.confirm = <<>>
    BY <1>1, <1>2, <1>3, <1>4, BoardNames DEF PanelDialogs
  <2> HIDE DEF r
  <2>5. ClickedAs(<<r>>) /\ \A x : <<r>> = <<x>> => x = r
    BY <1>1, <1>2, <1>4, <2>2, OneAsked DEF r
  <2>6. <<r>> = <<Searching(cbDialog'.query)>>
    BY <2>4 DEF r
  <2>7. \A x : <<r>> = <<x>> => x.kind # "cards"
    BY <2>2, <2>5
  <2> QED BY <1>2, <1>3, <2>4, <2>5, <2>6, <2>7, DialogClicked
<1>5. CASE text # ""
  <2>1. cbDialog' = [cbDialog EXCEPT !.timer = <<text>>] /\ Click(<<>>)
    BY <1>1, <1>5
  <2>2. ClickedAs(<<>>) /\ \A r : <<>> = <<r>> => FALSE
    BY <1>2, <2>1, NothingAsked
  <2>3. <<text>> \in Seq(DOMAIN CbMatches)
    OBVIOUS
  <2>4. /\ cbDialog' \in PanelDialogs /\ cbDialog'.results = cbDialog.results /\ cbDialog'.query = cbDialog.query
        /\ cbDialog'.confirm = <<>>
    BY <1>2, <1>3, <2>1, <2>3 DEF PanelDialogs
  <2> QED BY <1>2, <1>3, <2>2, <2>4, DialogClicked
<1> QED BY <1>4, <1>5

LEMMA TextSearched == ASSUME PanelInv, SearchHandler  PROVE PanelInv'
<1> DEFINE text == cbDialog.timer[1]
           r == Searching(text)
<1>1. /\ cbDialog.timer # <<>> /\ cbDialog' = [cbDialog EXCEPT !.query = text, !.timer = <<>>]
      /\ Click(<<r>>) /\ UNCHANGED <<cbServer, cbStore, cbPanel, cbNews, cbUndo>>
  BY DEF SearchHandler
<1>2. UndoInv' /\ cbPast.open /\ cbDialog \in PanelDialogs
  BY <1>1, DialogKnown DEF UndoInv
<1>3. text \in DOMAIN CbMatches
  <2>1. cbDialog.timer \in Seq(DOMAIN CbMatches)
    BY <1>2 DEF PanelDialogs
  <2> QED BY <1>1, <2>1
<1>4. /\ r \in PanelReqs /\ ReqFits(cbServer, r) /\ r.kind = "search" /\ r.status = "sent"
  BY <1>3, AskedFits, AskedFor
<1> HIDE DEF text, r
<1>5. /\ cbDialog' \in PanelDialogs /\ cbDialog'.results = cbDialog.results /\ cbDialog'.query = text
      /\ cbDialog'.confirm = cbDialog.confirm /\ cbDialog'.link = cbDialog.link
  <2>1. <<>> \in Seq(DOMAIN CbMatches)
    OBVIOUS
  <2>2. cbDialog' = [cbDialog EXCEPT !.query = text, !.timer = <<>>]
    BY <1>1
  <2> QED BY <1>2, <1>3, <2>1, <2>2 DEF PanelDialogs
<1>6. ClickedAs(<<r>>) /\ \A x : <<r>> = <<x>> => x = r
  BY <1>1, <1>4, OneAsked
<1>7. <<r>> = <<Searching(cbDialog'.query)>>
  BY <1>5 DEF r
<1>8. \A x : <<r>> = <<x>> => x.kind # "cards"
  BY <1>4, <1>6
<1>9. cbDialog'.confirm # <<>> => cbDialog'.link # "" /\ cbDialog'.confirm[1].channel # cbDialog'.link
  BY <1>5, DialogKnown
<1> QED BY <1>1, <1>2, <1>5, <1>6, <1>7, <1>8, <1>9, DialogClicked

\* The dialog that is closed keeps the text that waits.
LEMMA ClosedType ==
  ASSUME NEW d \in PanelDialogs
  PROVE  LET c == [Closed EXCEPT !.timer = d.timer] IN
         c \in PanelDialogs /\ c.results = {} /\ c.confirm = <<>> /\ c.link = "" /\ c.timer = d.timer
<1>1. <<>> \in Seq(BoardCopies) /\ {} \in SUBSET BoardCopies
  OBVIOUS
<1>2. d.timer \in Seq(DOMAIN CbMatches)
  BY DEF PanelDialogs
<1>3. Closed \in PanelDialogs
  <2>1. <<>> \in Seq(DOMAIN CbMatches)
    OBVIOUS
  <2> QED BY <1>1, <2>1, BoardNames DEF Closed, PanelDialogs
<1>4. Closed.results = {} /\ Closed.confirm = <<>> /\ Closed.link = ""
  BY DEF Closed
<1> QED BY <1>2, <1>3, <1>4 DEF PanelDialogs

\* A patch of the channel alone is asked for.
LEMMA PatchAsked ==
  ASSUME NEW old \in BoardCopies, NEW new \in BoardCopies, new.id = old.id, new.title = old.title,
         new.channel # old.channel, NEW of \in {"dialog", "unlink", "undo"},
         UpdateBoard(old.id, old, new, of), UNCHANGED <<cbServer, cbStore, cbNews>>
  PROVE  \E r \in PanelReqs : r.kind = "patch" /\ ClickedAs(<<r>>) /\ \A x : <<r>> = <<x>> => x = r
<1> DEFINE w == [id |-> old.id, old |-> old, new |-> new, of |-> of]
           r == Asking("patch", w)
<1>1. w \in Links /\ LinkFits(w)
  <2>1. old.id \in CbBoards
    BY DEF BoardCopies
  <2>2. w \in Links
    BY <2>1 DEF Links
  <2> QED BY <2>2 DEF LinkFits
<1>2. Click(<<r>>)
  BY DEF UpdateBoard, LinkPatch
<1> HIDE DEF w
<1>3. r \in PanelReqs /\ ReqFits(cbServer, r) /\ r.kind = "patch" /\ r.status = "sent"
  BY <1>1, AskedFits, AskedFor
<1> HIDE DEF r
<1>4. ClickedAs(<<r>>) /\ \A x : <<r>> = <<x>> => x = r
  BY <1>2, <1>3, OneAsked
<1> QED BY <1>3, <1>4

\* The copy with another channel is one of the same board and title.
LEMMA OtherChannel ==
  ASSUME NEW c \in BoardCopies, NEW channel \in CbChannels \cup {""}
  PROVE  LET d == [c EXCEPT !.channel = channel] IN
         d \in BoardCopies /\ d.id = c.id /\ d.title = c.title /\ d.channel = channel
BY DEF BoardCopies

LEMMA BoardLinked == ASSUME PanelInv, LinkBoard  PROVE PanelInv'
<1>1. cbDialog.link # "" /\ UNCHANGED <<cbServer, cbStore, cbPanel, cbNews, cbUndo>>
  BY DEF LinkBoard
<1>2. UndoInv' /\ cbPast.open /\ cbDialog \in PanelDialogs
  BY <1>1, DialogKnown DEF UndoInv
<1>3. CASE cbDialog.confirm = <<>>
  <2>1. PICK r \in cbDialog.results : ~OffersUnlink(r) /\ cbDialog' = [cbDialog EXCEPT !.confirm = <<r>>]
    BY <1>3 DEF LinkBoard
  <2>2. Click(<<>>)
    BY <1>3 DEF LinkBoard
  <2>3. r \in BoardCopies
    BY <1>2 DEF PanelDialogs
  <2>4. <<r>> \in Seq(BoardCopies) /\ <<r>>[1] = r
    BY <2>3
  <2>5. /\ cbDialog' \in PanelDialogs /\ cbDialog'.results = cbDialog.results /\ cbDialog'.query = cbDialog.query
        /\ cbDialog'.confirm = <<r>> /\ cbDialog'.link = cbDialog.link
    BY <1>2, <2>1, <2>4 DEF PanelDialogs
  <2>6. cbDialog'.confirm[1].channel # cbDialog'.link
    BY <2>1, <2>4, <2>5 DEF OffersUnlink
  <2>7. ClickedAs(<<>>) /\ \A x : <<>> = <<x>> => FALSE
    BY <1>1, <2>2, NothingAsked
  <2> QED BY <1>1, <1>2, <2>5, <2>6, <2>7, DialogClicked
<1>4. CASE cbDialog.confirm # <<>>
  <2> DEFINE old == cbDialog.confirm[1]
             new == [old EXCEPT !.channel = cbDialog.link]
  <2>1. UpdateBoard(old.id, old, new, "dialog") /\ cbDialog' = cbDialog
    BY <1>4 DEF LinkBoard
  <2>2. old \in BoardCopies /\ cbDialog.link \in CbChannels \cup {""}
    <3>1. cbDialog.confirm \in Seq(BoardCopies)
      BY <1>2 DEF PanelDialogs
    <3>2. cbDialog.confirm[1] \in BoardCopies
      BY <1>4, <3>1
    <3> QED BY <1>2, <3>2 DEF PanelDialogs
  <2>3. old.channel # cbDialog.link
    BY <1>4, DialogKnown
  <2>4. new \in BoardCopies /\ new.id = old.id /\ new.title = old.title /\ new.channel = cbDialog.link
    BY <2>2, OtherChannel
  <2> HIDE DEF old, new
  <2>5. PICK r \in PanelReqs : r.kind = "patch" /\ ClickedAs(<<r>>) /\ \A x : <<r>> = <<x>> => x = r
    BY <1>1, <2>1, <2>2, <2>3, <2>4, PatchAsked
  <2>6. \A x : <<r>> = <<x>> => x.kind # "cards" /\ x.kind # "search"
    BY <2>5
  <2>7. /\ cbDialog' \in PanelDialogs /\ cbDialog'.results \in {cbDialog.results, {}}
        /\ cbDialog'.confirm # <<>> => cbDialog'.link # "" /\ cbDialog'.confirm[1].channel # cbDialog'.link
        /\ cbDialog.link # "" /\ cbDialog'.query = cbDialog.query /\ cbDialog'.results = cbDialog.results
    BY <1>1, <1>2, <2>1, DialogKnown
  <2> QED BY <1>1, <1>2, <2>5, <2>6, <2>7, DialogClicked
<1> QED BY <1>3, <1>4

\* A patch that leaves the dialog, the panel and the undo as they are.
LEMMA PatchClicked ==
  ASSUME PanelInv, cbPast.open, NEW r \in PanelReqs, r.kind = "patch", ClickedAs(<<r>>), \A x : <<r>> = <<x>> => x = r,
         UNCHANGED <<cbPanel, cbDialog>>, UndoInv'
  PROVE  PanelInv'
<1>1. \A x : <<r>> = <<x>> => x.kind # "cards" /\ x.kind # "search"
  OBVIOUS
<1>2. /\ cbDialog' \in PanelDialogs /\ cbDialog'.results \in {cbDialog.results, {}}
      /\ cbDialog'.confirm # <<>> => cbDialog'.link # "" /\ cbDialog'.confirm[1].channel # cbDialog'.link
      /\ cbDialog'.link = cbDialog.link /\ cbDialog'.query = cbDialog.query /\ cbDialog'.results = cbDialog.results
  <2>1. cbDialog' = cbDialog
    OBVIOUS
  <2> QED BY <2>1, DialogKnown
<1> QED BY <1>1, <1>2, DialogClicked

LEMMA BoardUnlinked == ASSUME PanelInv, UnlinkBoard  PROVE PanelInv'
<1>1. PICK c \in cbDialog.results : OffersUnlink(c) /\ UpdateBoard(c.id, c, [c EXCEPT !.channel = ""], "unlink")
  BY DEF UnlinkBoard
<1>2. cbDialog.link # "" /\ UNCHANGED <<cbServer, cbStore, cbPanel, cbDialog, cbNews, cbUndo>>
  BY DEF UnlinkBoard
<1>3. UndoInv' /\ cbPast.open /\ cbDialog \in PanelDialogs
  BY <1>2, DialogKnown DEF UndoInv
<1>4. c \in BoardCopies /\ c.channel = cbDialog.link
  BY <1>1, <1>3 DEF PanelDialogs, OffersUnlink
<1> DEFINE d == [c EXCEPT !.channel = ""]
<1>5. d \in BoardCopies /\ d.id = c.id /\ d.title = c.title /\ d.channel = ""
  BY <1>4, OtherChannel
<1> HIDE DEF d
<1>6. UpdateBoard(c.id, c, d, "unlink") /\ d.channel # c.channel
  BY <1>1, <1>2, <1>4, <1>5 DEF d
<1>7. PICK r \in PanelReqs : r.kind = "patch" /\ ClickedAs(<<r>>) /\ \A x : <<r>> = <<x>> => x = r
  BY <1>2, <1>4, <1>5, <1>6, PatchAsked
<1> QED BY <1>2, <1>3, <1>7, PatchClicked

LEMMA PanelUnlinked == ASSUME PanelInv, OnUnlinkBoard  PROVE PanelInv'
<1>1. PICK b \in ChannelBoards : UpdateBoard(b, cbStore[b], [cbStore[b] EXCEPT !.channel = ""], "unlink")
  BY DEF OnUnlinkBoard
<1>2. UNCHANGED <<cbServer, cbStore, cbPanel, cbDialog, cbNews, cbUndo>>
  BY DEF OnUnlinkBoard
<1> DEFINE c == cbStore[b]
           d == [c EXCEPT !.channel = ""]
<1>3. cbPanel.loaded /\ b \in DOMAIN cbStore /\ c.channel = cbPanel.channel
  BY <1>1 DEF ChannelBoards
<1>4. c \in BoardCopies /\ c.id = b /\ cbPanel.channel \in CbChannels
  BY <1>3 DEF PanelInv, ListsInv, StoreFits, HadAt, CardsInv, PanelViews
<1>5. d \in BoardCopies /\ d.id = c.id /\ d.title = c.title /\ d.channel = ""
  BY <1>4, OtherChannel
<1>6. UpdateBoard(c.id, c, d, "unlink")
  BY <1>1, <1>4
<1> HIDE DEF c, d
<1>7. d.channel # c.channel
  BY <1>3, <1>4, <1>5, BoardNames
<1>8. UndoInv' /\ cbPast.open
  BY <1>2, <1>3, DialogKnown DEF UndoInv
<1>9. PICK r \in PanelReqs : r.kind = "patch" /\ ClickedAs(<<r>>) /\ \A x : <<r>> = <<x>> => x = r
  BY <1>2, <1>4, <1>5, <1>6, <1>7, PatchAsked
<1> QED BY <1>2, <1>8, <1>9, PatchClicked

LEMMA PatchUndone == ASSUME PanelInv, Undo  PROVE PanelInv'
<1> DEFINE w == cbUndo[1]
<1>1. /\ cbUndo # <<>> /\ UpdateBoard(w.id, w.new, w.old, "undo") /\ cbUndo' = <<>>
      /\ UNCHANGED <<cbServer, cbStore, cbPanel, cbDialog, cbNews>>
  BY DEF Undo
<1>2. LinkFits(w)
  BY <1>1, DialogKnown DEF UndoInv
<1>3. /\ w.old \in BoardCopies /\ w.new \in BoardCopies /\ w.old.id = w.id /\ w.new.id = w.id
      /\ w.new.title = w.old.title /\ w.new.channel # w.old.channel
  BY <1>2 DEF LinkFits, Links
<1> HIDE DEF w
<1>4. UndoInv' /\ cbPast.open
  <2>1. <<>> \in Seq(Links)
    OBVIOUS
  <2> QED BY <1>1, <2>1, DialogKnown DEF UndoInv
<1>5. UpdateBoard(w.new.id, w.new, w.old, "undo")
  BY <1>1, <1>3
<1>6. PICK r \in PanelReqs : r.kind = "patch" /\ ClickedAs(<<r>>) /\ \A x : <<r>> = <<x>> => x = r
  BY <1>1, <1>3, <1>5, PatchAsked
<1> QED BY <1>1, <1>4, <1>6, PatchClicked

LEMMA DialogCloses == ASSUME PanelInv, CloseDialog  PROVE PanelInv'
<1>1. /\ cbDialog.link # "" /\ cbDialog' = [Closed EXCEPT !.timer = cbDialog.timer]
      /\ Click(<<>>) /\ UNCHANGED <<cbServer, cbStore, cbPanel, cbNews, cbUndo>>
  BY DEF CloseDialog
<1>2. UndoInv' /\ cbPast.open /\ cbDialog \in PanelDialogs
  BY <1>1, DialogKnown DEF UndoInv
<1>3. cbDialog' \in PanelDialogs /\ cbDialog'.results = {} /\ cbDialog'.confirm = <<>> /\ cbDialog'.link = ""
  BY <1>1, <1>2, ClosedType
<1>4. ClickedAs(<<>>) /\ \A x : <<>> = <<x>> => FALSE
  BY <1>1, NothingAsked
<1> QED BY <1>1, <1>2, <1>3, <1>4, DialogClicked

LEMMA ConfirmCancelled == ASSUME PanelInv, CancelConfirm  PROVE PanelInv'
<1>1. /\ cbDialog.confirm # <<>> /\ cbDialog' = [cbDialog EXCEPT !.confirm = <<>>]
      /\ Click(<<>>) /\ UNCHANGED <<cbServer, cbStore, cbPanel, cbNews, cbUndo>>
  BY DEF CancelConfirm
<1>2. UndoInv' /\ cbPast.open /\ cbDialog \in PanelDialogs /\ cbDialog.link # ""
  BY <1>1, DialogKnown DEF UndoInv
<1>3. /\ cbDialog' \in PanelDialogs /\ cbDialog'.results = cbDialog.results /\ cbDialog'.confirm = <<>>
      /\ cbDialog'.link = cbDialog.link /\ cbDialog'.query = cbDialog.query
  <2>1. <<>> \in Seq(BoardCopies)
    OBVIOUS
  <2> QED BY <1>1, <1>2, <2>1 DEF PanelDialogs
<1>4. ClickedAs(<<>>) /\ \A x : <<>> = <<x>> => FALSE
  BY <1>1, NothingAsked
<1> QED BY <1>1, <1>2, <1>3, <1>4, DialogClicked

----------------------------------------------------------------------------
(***************************************************************************)
(* The server.                                                              *)
(***************************************************************************)

\* A board gets a copy of its own, renamed or with the next revision, and its
\* news is the last.
PanelChanged(s, b, c) ==
  /\ c \in BoardCopies /\ c.id = b
  /\ (c.rev = s[b].rev /\ c.channel = s[b].channel) \/ c.rev = s[b].rev + 1

LEMMA ChangeStands ==
  ASSUME NEW s, ServerFits(s), NEW b \in CbBoards, NEW c, PanelChanged(s, b, c), NEW t, t = [s EXCEPT ![b] = c]
  PROVE  /\ ServerFits(t) /\ t[b] = c /\ \A d \in CbBoards \ {b} : t[d] = s[d]
         /\ \A x : HadAt(s, x) => HadAt(t, x)
         /\ HadAt(t, c)
<1>1. t[b] = c /\ (\A d \in CbBoards \ {b} : t[d] = s[d]) /\ t \in [CbBoards -> BoardCopies]
  BY DEF ServerFits, PanelChanged
<1>2. c \in BoardCopies /\ c.id = b /\ ((c.rev = s[b].rev /\ c.channel = s[b].channel) \/ c.rev = s[b].rev + 1)
  BY DEF PanelChanged
<1>3. s[b] \in BoardCopies /\ s[b].rev \in Nat
  BY DEF ServerFits, BoardCopies
<1>4. ServerFits(t)
  BY <1>1, <1>2 DEF ServerFits
<1>5. ASSUME NEW x, HadAt(s, x) PROVE HadAt(t, x)
  <2>1. /\ x \in BoardCopies /\ x.id \in CbBoards /\ x.rev \in Nat /\ x.rev <= s[x.id].rev
        /\ x.rev = s[x.id].rev => x.channel = s[x.id].channel
    BY <1>5 DEF HadAt, BoardCopies
  <2>2. CASE x.id # b
    <3>1. t[x.id] = s[x.id]
      BY <1>1, <2>1, <2>2
    <3> QED BY <2>1, <3>1 DEF HadAt
  <2>3. CASE x.id = b
    <3>1. t[x.id] = c
      BY <1>1, <2>3
    <3>2. x.rev <= c.rev /\ (x.rev = c.rev => x.channel = c.channel)
      BY <1>2, <1>3, <2>1, <2>3
    <3> QED BY <2>1, <3>1, <3>2 DEF HadAt
  <2> QED BY <2>2, <2>3
<1>6. HadAt(t, c)
  <2>1. c.rev <= c.rev
    <3>1. c.rev \in Nat
      BY <1>2 DEF BoardCopies
    <3> QED BY <3>1
  <2> QED BY <1>1, <1>2, <2>1 DEF HadAt
<1> QED BY <1>1, <1>4, <1>5, <1>6

LEMMA NewsStands ==
  ASSUME NEW b, NEW c \in BoardCopies, c.id = b, cbServer'[b] = c, HadAt(cbServer', c),
         \A d \in CbBoards \ {b} : cbServer'[d] = cbServer[d], \A x : HadAt(cbServer, x) => HadAt(cbServer', x),
         cbNews \in Seq(BoardCopies), NewsFits(cbServer, cbNews), cbNews' = Append(cbNews, c)
  PROVE  /\ cbNews' \in Seq(BoardCopies) /\ NewsFits(cbServer', cbNews') /\ NewsOf(cbNews', b) /\ \A d : NewsOf(cbNews, d) => NewsOf(cbNews', d)
<1> DEFINE n == Len(cbNews)
<1>1. /\ cbNews' \in Seq(BoardCopies) /\ n \in Nat /\ Len(cbNews') = n + 1 /\ cbNews'[n + 1] = c
      /\ \A i \in 1 .. n : cbNews'[i] = cbNews[i]
  OBVIOUS
<1>2. NewsOf(cbNews', b)
  <2>1. n + 1 \in 1 .. Len(cbNews')
    BY <1>1
  <2> QED BY <1>1, <2>1 DEF NewsOf
<1>3. ASSUME NEW d, NewsOf(cbNews, d) PROVE NewsOf(cbNews', d)
  <2>1. PICK i \in 1 .. n : cbNews[i].id = d
    BY <1>3 DEF NewsOf
  <2>2. i \in 1 .. Len(cbNews')
    BY <1>1
  <2> QED BY <1>1, <2>1, <2>2 DEF NewsOf
<1>4. ASSUME NEW i \in 1 .. Len(cbNews')
      PROVE  HadAt(cbServer', cbNews'[i]) /\ ((\A j \in i + 1 .. Len(cbNews') : cbNews'[j].id # cbNews'[i].id) => cbNews'[i].rev = cbServer'[cbNews'[i].id].rev)
  <2>1. CASE i = n + 1
    BY <1>1, <2>1
  <2>2. CASE i \in 1 .. n
    <3>1. cbNews'[i] = cbNews[i] /\ HadAt(cbServer, cbNews[i]) /\ cbNews[i].id \in CbBoards
      BY <1>1, <2>2 DEF NewsFits, HadAt, BoardCopies
    <3>2. ASSUME \A j \in i + 1 .. Len(cbNews') : cbNews'[j].id # cbNews'[i].id PROVE cbNews'[i].rev = cbServer'[cbNews'[i].id].rev
      <4>1. n + 1 \in i + 1 .. Len(cbNews') /\ \A j \in i + 1 .. n : j \in i + 1 .. Len(cbNews') /\ j \in 1 .. n
        BY <1>1, <2>2
      <4>2. cbNews[i].id # b
        BY <1>1, <3>1, <3>2, <4>1
      <4>3. \A j \in i + 1 .. n : cbNews[j].id # cbNews[i].id
        BY <1>1, <3>1, <3>2, <4>1
      <4>4. cbNews[i].rev = cbServer[cbNews[i].id].rev
        BY <2>2, <4>3 DEF NewsFits
      <4> QED BY <3>1, <4>2, <4>4
    <3> QED BY <3>1, <3>2
  <2>3. i = n + 1 \/ i \in 1 .. n
    BY <1>1, <1>4
  <2> QED BY <2>1, <2>2, <2>3
<1>5. NewsFits(cbServer', cbNews')
  BY <1>4 DEF NewsFits
<1> QED BY <1>1, <1>2, <1>3, <1>5

\* A board changes at the server.
LEMMA BoardChanges ==
  ASSUME ServerFits(cbServer), cbNews \in Seq(BoardCopies), NewsFits(cbServer, cbNews),
         NEW b \in CbBoards, NEW c, PanelChanged(cbServer, b, c),
         cbServer' = [cbServer EXCEPT ![b] = c], cbNews' = Append(cbNews, c)
  PROVE  /\ ServerFits(cbServer') /\ cbServer'[b] = c /\ \A d \in CbBoards \ {b} : cbServer'[d] = cbServer[d]
         /\ \A x : HadAt(cbServer, x) => HadAt(cbServer', x)
         /\ HadAt(cbServer', c)
         /\ cbNews' \in Seq(BoardCopies) /\ NewsFits(cbServer', cbNews') /\ NewsOf(cbNews', b)
         /\ \A d : NewsOf(cbNews, d) => NewsOf(cbNews', d)
<1>1. ServerFits(cbServer')
  BY ChangeStands
<1>2. cbServer'[b] = c /\ \A d \in CbBoards \ {b} : cbServer'[d] = cbServer[d]
  BY DEF ServerFits
<1>3. \A x : HadAt(cbServer, x) => HadAt(cbServer', x)
  BY ChangeStands
<1>4. HadAt(cbServer', c)
  BY ChangeStands
<1>5. c \in BoardCopies /\ c.id = b
  BY DEF PanelChanged
<1>6. cbNews' \in Seq(BoardCopies)
  BY <1>5
<1>7. NewsFits(cbServer', cbNews')
  BY <1>2, <1>3, <1>4, <1>5, NewsStands
<1>8. NewsOf(cbNews', b)
  BY <1>2, <1>3, <1>4, <1>5, NewsStands
<1>9. \A d : NewsOf(cbNews, d) => NewsOf(cbNews', d)
  BY <1>2, <1>3, <1>4, <1>5, NewsStands
<1> QED BY <1>1, <1>2, <1>3, <1>4, <1>6, <1>7, <1>8, <1>9

\* Requests and the store stand when the server changes.
LEMMA RequestStands ==
  ASSUME NEW s, NEW t, \A x : HadAt(s, x) => HadAt(t, x), NEW r, ReqFits(s, r)
  PROVE  ReqFits(t, r)
<1>1. AnswerFits(s, r) => AnswerFits(t, r)
  BY DEF AnswerFits
<1> QED BY <1>1 DEF ReqFits

LEMMA StoreStands ==
  ASSUME NEW s, NEW t, \A x : HadAt(s, x) => HadAt(t, x), NEW boards, StoreFits(s, boards)
  PROVE  StoreFits(t, boards)
BY DEF StoreFits

\* What a step of the server leaves: requests of the same kinds, and for each
\* board news or the same revision.
ServerMoves ==
  /\ UNCHANGED <<cbStore, cbPanel, cbDialog, cbUndo>>
  /\ DOMAIN cbPast' = PastFields /\ DOMAIN cbPast'.titles = CbBoards
  /\ cbPast'.open = cbPast.open /\ cbPast'.swapped = cbPast.swapped /\ cbPast'.overtaken = cbPast.overtaken
  /\ cbPast.failed => cbPast'.failed
  /\ cbReqs' \in Seq(PanelReqs) /\ Len(cbReqs') = Len(cbReqs)
  /\ \A i \in 1 .. Len(cbReqs) :
       /\ cbReqs'[i].kind = cbReqs[i].kind /\ cbReqs'[i].what = cbReqs[i].what
       /\ ReqFits(cbServer', cbReqs'[i]) /\ (cbReqs'[i].status = "failed" => cbPast'.failed)
  /\ ServerFits(cbServer') /\ LinkKeepsOthers'
  /\ \A x : HadAt(cbServer, x) => HadAt(cbServer', x)
  /\ cbNews' \in Seq(BoardCopies) /\ NewsFits(cbServer', cbNews')
  /\ \A b \in CbBoards :
       \/ NewsOf(cbNews', b)
       \/ /\ ~NewsOf(cbNews, b) /\ cbServer'[b].rev = cbServer[b].rev
          /\ AnswersNewest(cbServer, cbReqs, b) => AnswersNewest(cbServer', cbReqs', b)

LEMMA ServerKeeps ==
  ASSUME PanelInv, cbPast.open, ServerMoves
  PROVE  PanelInv'
<1>1. /\ ListsInv /\ StoreInv /\ ResultsInv /\ CardsInv /\ UndoInv /\ ClosedInv
  BY DEF PanelInv
<1>2. cbStore' = cbStore /\ cbPanel' = cbPanel /\ cbDialog' = cbDialog /\ cbUndo' = cbUndo
  BY DEF ServerMoves
<1>3. ListsInv'
  <2>1. StoreFits(cbServer', cbStore')
    BY <1>1, <1>2, StoreStands DEF ServerMoves, ListsInv
  <2> QED BY <2>1 DEF ServerMoves, ListsInv
<1>4. cbReqs \in Seq(PanelReqs) /\ cbReqs' \in Seq(PanelReqs) /\ Len(cbReqs') = Len(cbReqs)
  BY <1>1 DEF ListsInv, ServerMoves
<1>5. \A kind, what : (LastOf(cbReqs', kind, what) <=> LastOf(cbReqs, kind, what)) /\ (NoneOf(cbReqs', kind) <=> NoneOf(cbReqs, kind))
  BY <1>4, ServedLast DEF ServerMoves
<1>6. StoreInv'
  <2>1. ASSUME cbPast'.open, ~cbPast'.failed
        PROVE  (\E i \in 1 .. Len(cbReqs') : cbReqs'[i].kind = "boards") \/ DOMAIN cbStore' = CbBoards
    BY <1>1, <1>2, <2>1 DEF StoreInv, ServerMoves
  <2>2. ASSUME ~cbPast'.failed, ~cbPast'.overtaken, NEW b \in CbBoards
        PROVE  NewsOf(cbNews', b) \/ RevIn(cbStore', b) = cbServer'[b].rev
    <3>1. ~cbPast.failed /\ ~cbPast.overtaken
      BY <2>2 DEF ServerMoves
    <3>2. NewsOf(cbNews', b) \/ (~NewsOf(cbNews, b) /\ cbServer'[b].rev = cbServer[b].rev)
      BY DEF ServerMoves
    <3> QED BY <1>1, <1>2, <3>1, <3>2 DEF StoreInv
  <2> QED BY <2>1, <2>2 DEF StoreInv
<1>7. ResultsInv'
  <2>1. ASSUME ~cbPast'.overtaken, NEW b \in CbBoards
        PROVE  NewsOf(cbNews', b) \/ (NewestIn(cbServer', b, cbDialog'.results) /\ AnswersNewest(cbServer', cbReqs', b))
    <3>1. \/ NewsOf(cbNews', b)
          \/ /\ ~NewsOf(cbNews, b) /\ cbServer'[b].rev = cbServer[b].rev
             /\ AnswersNewest(cbServer, cbReqs, b) => AnswersNewest(cbServer', cbReqs', b)
      BY DEF ServerMoves
    <3>2. NewsOf(cbNews, b) \/ (NewestIn(cbServer, b, cbDialog.results) /\ AnswersNewest(cbServer, cbReqs, b))
      BY <1>1, <2>1 DEF ServerMoves, ResultsInv
    <3> QED BY <1>2, <3>1, <3>2 DEF NewestIn
  <2>2. \A c \in cbDialog'.results : HadAt(cbServer', c)
    BY <1>1, <1>2 DEF ResultsInv, ServerMoves
  <2>3. ASSUME ~cbPast'.failed, ~cbPast'.swapped, cbDialog'.link # ""
        PROVE  \/ LastOf(cbReqs', "search", cbDialog'.query)
               \/ NoneOf(cbReqs', "search") /\ {c.id : c \in cbDialog'.results} = CbMatches[cbDialog'.query]
    <3>1. ~cbPast.failed /\ ~cbPast.swapped
      BY <2>3 DEF ServerMoves
    <3> QED BY <1>1, <1>2, <1>5, <2>3, <3>1 DEF ResultsInv
  <2>4. /\ cbDialog' \in PanelDialogs
        /\ cbDialog'.confirm # <<>> => cbDialog'.link # "" /\ cbDialog'.confirm[1].channel # cbDialog'.link
    BY <1>1, <1>2 DEF ResultsInv
  <2> QED BY <2>1, <2>2, <2>3, <2>4 DEF ResultsInv
<1>8. CardsInv'
  <2>1. ASSUME ~cbPast'.failed, ~cbPast'.swapped, cbPanel'.selected # NoBoard
        PROVE  \/ LastOf(cbReqs', "cards", cbPanel'.selected)
               \/ NoneOf(cbReqs', "cards") /\ cbPanel'.cards = cbPanel'.selected
    <3>1. ~cbPast.failed /\ ~cbPast.swapped
      BY <2>1 DEF ServerMoves
    <3> QED BY <1>1, <1>2, <1>5, <2>1, <3>1 DEF CardsInv
  <2> QED BY <1>1, <1>2, <2>1 DEF CardsInv
<1>9. UndoInv' /\ ClosedInv'
  BY <1>1, <1>2 DEF UndoInv, ClosedInv, ServerMoves
<1> QED BY <1>3, <1>6, <1>7, <1>8, <1>9 DEF PanelInv

\* What answers there are.
LEMMA AnswerKinds == CbBoards \subseteq PanelAnswers /\ BoardCopies \subseteq PanelAnswers
<1>1. ASSUME NEW x \in CbBoards PROVE x \in PanelAnswers
  BY Zenon DEF PanelAnswers
<1>2. ASSUME NEW x \in BoardCopies PROVE x \in PanelAnswers
  BY Zenon DEF PanelAnswers
<1> QED BY <1>1, <1>2

\* The patch of a channel makes the board's next revision.
LEMMA PatchChanges ==
  ASSUME ServerFits(cbServer), NEW w, LinkFits(w)
  PROVE  LET c == PatchedBy(cbServer[w.id], w.old, w.new) IN
         /\ w.id \in CbBoards /\ PanelChanged(cbServer, w.id, c) /\ c.channel = w.new.channel
         /\ c.title = cbServer[w.id].title
<1>1. /\ w.id \in CbBoards /\ w.new \in BoardCopies /\ w.old \in BoardCopies
      /\ w.new.title = w.old.title /\ w.new.channel # w.old.channel
  BY DEF LinkFits, Links
<1>2. cbServer[w.id] \in BoardCopies /\ cbServer[w.id].id = w.id
  BY <1>1 DEF ServerFits
<1> DEFINE board == cbServer[w.id]
           c == PatchedBy(board, w.old, w.new)
<1>3. c = [board EXCEPT !.title = @, !.channel = w.new.channel, !.rev = @ + 1]
  BY <1>1 DEF PatchedBy
<1>4. board \in BoardCopies /\ board.id = w.id
  BY <1>2
<1> HIDE DEF board, c
<1>5. w.new.channel \in CbChannels \cup {""}
  BY <1>1 DEF BoardCopies
<1>6. c \in BoardCopies /\ c.id = board.id /\ c.title = board.title /\ c.channel = w.new.channel /\ c.rev = board.rev + 1
  <2> DEFINE channel == w.new.channel
             next == board.rev + 1
  <2>1. next \in Nat
    <3>1. board.rev \in Nat
      BY <1>4 DEF BoardCopies
    <3> QED BY <3>1
  <2>2. c = [board EXCEPT !.title = board.title, !.channel = channel, !.rev = next]
    BY <1>3
  <2> HIDE DEF channel, next
  <2>3. c \in BoardCopies /\ c.id = board.id /\ c.title = board.title /\ c.channel = channel /\ c.rev = next
    BY <1>4, <1>5, <2>1, <2>2 DEF BoardCopies, channel
  <2> QED BY <2>3 DEF channel, next
<1> QED BY <1>1, <1>4, <1>6 DEF PanelChanged, board, c

\* What the answers of the lists are.
LEMMA ListAnswers ==
  ASSUME ServerFits(cbServer), NEW r, ReqFits(cbServer, r), r.status = "sent", r.kind # "patch"
  PROVE  LET a == AnswerTo(r)
             t == [r EXCEPT !.status = "ok", !.answer = a] IN
         /\ t \in PanelReqs /\ ReqFits(cbServer, t) /\ t.kind = r.kind /\ t.what = r.what /\ t.status = "ok"
         /\ t.kind = "search" => \A b \in CbBoards : NewestIn(cbServer, b, t.answer)
<1> DEFINE a == AnswerTo(r)
           t == [r EXCEPT !.status = "ok", !.answer = a]
<1>1. /\ r \in PanelReqs /\ r.kind \in {"boards", "search", "cards"}
      /\ r.kind = "search" => r.what \in DOMAIN CbMatches
      /\ r.kind = "cards" => r.what \in CbBoards
  BY DEF ReqFits, PanelReqs
<1>2. \A b \in CbBoards : cbServer[b] \in BoardCopies /\ cbServer[b].id = b /\ HadAt(cbServer, cbServer[b])
  <2>1. ASSUME NEW b \in CbBoards PROVE cbServer[b] \in BoardCopies /\ cbServer[b].id = b /\ cbServer[b].rev \in Nat
    BY DEF ServerFits, BoardCopies
  <2>2. ASSUME NEW b \in CbBoards PROVE cbServer[b].rev <= cbServer[b].rev
    BY <2>1
  <2> QED BY <2>1, <2>2 DEF HadAt
<1>3. CASE r.kind = "boards"
  <2>1. a = cbServer
    BY <1>3 DEF AnswerTo
  <2>2. cbServer \in [CbBoards -> BoardCopies]
    BY DEF ServerFits
  <2>3. a \in PanelAnswers
    BY <2>1, <2>2 DEF PanelAnswers
  <2> HIDE DEF a
  <2>4. t \in PanelReqs /\ t.kind = "boards" /\ t.what = r.what /\ t.status = "ok" /\ t.answer = a
    BY <1>1, <1>3, <2>3 DEF PanelReqs
  <2>5. AnswerFits(cbServer, t)
    BY <1>2, <2>1, <2>2, <2>4 DEF AnswerFits
  <2> QED BY <1>3, <2>4, <2>5 DEF ReqFits, a
<1>4. CASE r.kind = "search"
  <2>1. a = {cbServer[b] : b \in CbMatches[r.what]}
    BY <1>4 DEF AnswerTo
  <2>2. CbMatches[r.what] \subseteq CbBoards
    BY <1>1, <1>4, BoardNames
  <2>3. a \in SUBSET BoardCopies
    BY <1>2, <2>1, <2>2
  <2>4. a \in PanelAnswers
    BY <2>3 DEF PanelAnswers
  <2>5. {c.id : c \in a} = CbMatches[r.what]
    BY <1>2, <2>1, <2>2
  <2>6. \A c \in a : HadAt(cbServer, c) /\ c.rev = cbServer[c.id].rev
    BY <1>2, <2>1, <2>2
  <2> HIDE DEF a
  <2>7. t \in PanelReqs /\ t.kind = "search" /\ t.what = r.what /\ t.status = "ok" /\ t.answer = a
    BY <1>1, <1>4, <2>4 DEF PanelReqs
  <2>8. AnswerFits(cbServer, t)
    BY <2>5, <2>6, <2>7 DEF AnswerFits
  <2>9. \A b \in CbBoards : NewestIn(cbServer, b, t.answer)
    BY <2>6, <2>7 DEF NewestIn
  <2> QED BY <1>1, <1>4, <2>7, <2>8, <2>9 DEF ReqFits, a
<1>5. CASE r.kind = "cards"
  <2>1. a = r.what
    BY <1>5 DEF AnswerTo
  <2>2. a \in PanelAnswers
    <3>1. a \in CbBoards
      BY <1>1, <1>5, <2>1
    <3> QED BY <3>1, AnswerKinds
  <2> HIDE DEF a
  <2>3. t \in PanelReqs /\ t.kind = "cards" /\ t.what = r.what /\ t.status = "ok" /\ t.answer = a
    BY <1>1, <1>5, <2>2 DEF PanelReqs
  <2>4. AnswerFits(cbServer, t)
    BY <2>1, <2>3 DEF AnswerFits
  <2> QED BY <1>1, <1>5, <2>3, <2>4 DEF ReqFits, a
<1> QED BY <1>1, <1>3, <1>4, <1>5

\* What a request becomes when it is served, which is patch and answer at once.
LEMMA RequestServed ==
  ASSUME cbReqs \in Seq(PanelReqs), NEW i \in DOMAIN cbReqs, NEW t \in PanelReqs, cbReqs' = [cbReqs EXCEPT ![i] = t]
  PROVE  /\ cbReqs' \in Seq(PanelReqs) /\ Len(cbReqs') = Len(cbReqs) /\ cbReqs'[i] = t
         /\ \A j \in 1 .. Len(cbReqs) : j # i => cbReqs'[j] = cbReqs[j]
         /\ i \in 1 .. Len(cbReqs)
OBVIOUS

LEMMA ListServed ==
  ASSUME PanelInv, NEW i \in DOMAIN cbReqs, cbReqs[i].status = "sent", cbReqs[i].kind # "patch",
         cbReqs' = [cbReqs EXCEPT ![i] = [cbReqs[i] EXCEPT !.status = "ok", !.answer = AnswerTo(cbReqs[i])]],
         UNCHANGED <<cbServer, cbNews, cbPast, cbStore, cbPanel, cbDialog, cbUndo>>
  PROVE  ServerMoves
<1> DEFINE r == cbReqs[i]
           t == [r EXCEPT !.status = "ok", !.answer = AnswerTo(r)]
<1>1. ListsInv /\ cbReqs \in Seq(PanelReqs) /\ i \in 1 .. Len(cbReqs)
  BY DEF PanelInv, ListsInv
<1>2. ReqFits(cbServer, r) /\ ServerFits(cbServer)
  BY <1>1 DEF ListsInv
<1>3. /\ t \in PanelReqs /\ ReqFits(cbServer, t) /\ t.kind = r.kind /\ t.what = r.what /\ t.status = "ok"
      /\ t.kind = "search" => \A b \in CbBoards : NewestIn(cbServer, b, t.answer)
  BY <1>2, ListAnswers
<1>4. cbReqs' = [cbReqs EXCEPT ![i] = t]
  OBVIOUS
<1> HIDE DEF t
<1>5. /\ cbReqs' \in Seq(PanelReqs) /\ Len(cbReqs') = Len(cbReqs) /\ cbReqs'[i] = t
      /\ \A j \in 1 .. Len(cbReqs) : j # i => cbReqs'[j] = cbReqs[j]
  BY <1>1, <1>3, <1>4, RequestServed
<1>6. \A j \in 1 .. Len(cbReqs) :
        /\ cbReqs'[j].kind = cbReqs[j].kind /\ cbReqs'[j].what = cbReqs[j].what
        /\ ReqFits(cbServer', cbReqs'[j]) /\ (cbReqs'[j].status = "failed" => cbPast'.failed)
  BY <1>1, <1>3, <1>5 DEF ListsInv
<1>7. ASSUME NEW b \in CbBoards, AnswersNewest(cbServer, cbReqs, b) PROVE AnswersNewest(cbServer', cbReqs', b)
  <2>1. ASSUME NEW j \in 1 .. Len(cbReqs'), cbReqs'[j].kind = "search", cbReqs'[j].status = "ok"
        PROVE  NewestIn(cbServer, b, cbReqs'[j].answer)
    <3>1. CASE j = i
      BY <1>3, <1>5, <2>1, <3>1
    <3>2. CASE j # i
      BY <1>5, <1>7, <2>1, <3>2 DEF AnswersNewest
    <3> QED BY <3>1, <3>2
  <2>2. cbServer' = cbServer
    OBVIOUS
  <2> QED BY <2>1, <2>2 DEF AnswersNewest
<1>8. LinkKeepsOthers'
  BY <1>1 DEF ListsInv, LinkKeepsOthers
<1> QED BY <1>1, <1>5, <1>6, <1>7, <1>8 DEF ServerMoves, ListsInv

LEMMA PatchServed ==
  ASSUME PanelInv, NEW i \in DOMAIN cbReqs, cbReqs[i].status = "sent", cbReqs[i].kind = "patch", NEW c, c = AnswerTo(cbReqs[i]),
         cbReqs' = [cbReqs EXCEPT ![i] = [cbReqs[i] EXCEPT !.status = "ok", !.answer = c]],
         cbServer' = [cbServer EXCEPT ![cbReqs[i].what.id] = c], cbNews' = Append(cbNews, c),
         UNCHANGED <<cbPast, cbStore, cbPanel, cbDialog, cbUndo>>
  PROVE  ServerMoves
<1> DEFINE r == cbReqs[i]
           w == r.what
           b == w.id
           t == [r EXCEPT !.status = "ok", !.answer = c]
<1>1. ListsInv /\ cbReqs \in Seq(PanelReqs) /\ i \in 1 .. Len(cbReqs)
  BY DEF PanelInv, ListsInv
<1>2. ReqFits(cbServer, r) /\ ServerFits(cbServer) /\ r \in PanelReqs /\ LinkFits(w)
  BY <1>1 DEF ListsInv, ReqFits
<1>3. c = PatchedBy(cbServer[w.id], w.old, w.new)
  BY DEF AnswerTo
<1>4. b \in CbBoards /\ PanelChanged(cbServer, b, c) /\ c.channel = w.new.channel /\ c.title = cbServer[b].title
  BY <1>2, <1>3, PatchChanges
<1>5. cbServer' = [cbServer EXCEPT ![b] = c] /\ cbReqs' = [cbReqs EXCEPT ![i] = t] /\ cbNews' = Append(cbNews, c)
  OBVIOUS
<1> HIDE DEF r, w, b, t
<1>6. /\ ServerFits(cbServer') /\ cbServer'[b] = c /\ \A d \in CbBoards \ {b} : cbServer'[d] = cbServer[d]
      /\ \A x : HadAt(cbServer, x) => HadAt(cbServer', x)
      /\ HadAt(cbServer', c)
      /\ cbNews' \in Seq(BoardCopies) /\ NewsFits(cbServer', cbNews') /\ NewsOf(cbNews', b)
      /\ \A d : NewsOf(cbNews, d) => NewsOf(cbNews', d)
  <2>1. cbNews \in Seq(BoardCopies) /\ NewsFits(cbServer, cbNews)
    BY <1>1 DEF ListsInv
  <2> QED BY <1>2, <1>4, <1>5, <2>1, BoardChanges
<1>7. c \in BoardCopies /\ c.id = b
  BY <1>4 DEF PanelChanged
<1>9. t \in PanelReqs /\ t.kind = r.kind /\ t.what = r.what /\ t.status = "ok" /\ t.answer = c
  <2>1. c \in PanelAnswers
    BY <1>7, AnswerKinds
  <2> QED BY <1>2, <2>1 DEF PanelReqs, t
<1>10. r.kind = "patch" /\ r.what = w /\ cbReqs[i] = r
  BY DEF r, w
<1>11. ReqFits(cbServer', t)
  <2>1. AnswerFits(cbServer', t)
    BY <1>4, <1>6, <1>7, <1>9, <1>10 DEF AnswerFits, b
  <2> QED BY <1>2, <1>9, <1>10, <2>1 DEF ReqFits
<1>12. /\ cbReqs' \in Seq(PanelReqs) /\ Len(cbReqs') = Len(cbReqs) /\ cbReqs'[i] = t
       /\ \A j \in 1 .. Len(cbReqs) : j # i => cbReqs'[j] = cbReqs[j]
  BY <1>1, <1>5, <1>9, RequestServed
<1>13. \A j \in 1 .. Len(cbReqs) : ReqFits(cbServer', cbReqs[j])
  <2>1. \A x : HadAt(cbServer, x) => HadAt(cbServer', x)
    BY <1>6
  <2>2. ASSUME NEW j \in 1 .. Len(cbReqs) PROVE ReqFits(cbServer', cbReqs[j])
    <3>1. ReqFits(cbServer, cbReqs[j])
      BY <1>1 DEF ListsInv
    <3> QED BY <2>1, <3>1, RequestStands
  <2> QED BY <2>2
<1>14. \A j \in 1 .. Len(cbReqs) :
        /\ cbReqs'[j].kind = cbReqs[j].kind /\ cbReqs'[j].what = cbReqs[j].what
        /\ ReqFits(cbServer', cbReqs'[j]) /\ (cbReqs'[j].status = "failed" => cbPast'.failed)
  BY <1>1, <1>9, <1>10, <1>11, <1>12, <1>13 DEF ListsInv
<1>15. LinkKeepsOthers'
  BY <1>1, <1>4, <1>6 DEF ListsInv, LinkKeepsOthers
<1>16. ASSUME NEW d \in CbBoards, ~NewsOf(cbNews', d)
       PROVE  /\ ~NewsOf(cbNews, d) /\ cbServer'[d].rev = cbServer[d].rev
              /\ AnswersNewest(cbServer, cbReqs, d) => AnswersNewest(cbServer', cbReqs', d)
  <2>1. d # b /\ cbServer'[d] = cbServer[d]
    BY <1>6, <1>16
  <2>2. AnswersNewest(cbServer, cbReqs, d) => AnswersNewest(cbServer', cbReqs', d)
    BY <1>9, <1>10, <1>12, <2>1 DEF AnswersNewest, NewestIn
  <2> QED BY <1>6, <1>16, <2>1, <2>2
<1>17. UNCHANGED <<cbStore, cbPanel, cbDialog, cbUndo>> /\ cbPast' = cbPast
  OBVIOUS
<1>18. DOMAIN cbPast = PastFields /\ DOMAIN cbPast.titles = CbBoards
  BY <1>1 DEF ListsInv
<1> QED BY <1>6, <1>12, <1>14, <1>15, <1>16, <1>17, <1>18 DEF ServerMoves

LEMMA RequestFails ==
  ASSUME PanelInv, NEW i \in DOMAIN cbReqs, cbReqs[i].status = "sent",
         cbReqs' = [cbReqs EXCEPT ![i] = [cbReqs[i] EXCEPT !.status = "failed"]],
         cbPast' = [cbPast EXCEPT !.failed = TRUE, !.others = @ + 1],
         UNCHANGED <<cbServer, cbNews, cbStore, cbPanel, cbDialog, cbUndo>>
  PROVE  ServerMoves
<1> DEFINE r == cbReqs[i]
           t == [r EXCEPT !.status = "failed"]
<1>1. ListsInv /\ cbReqs \in Seq(PanelReqs) /\ i \in 1 .. Len(cbReqs)
  BY DEF PanelInv, ListsInv
<1>2. ReqFits(cbServer, r) /\ ServerFits(cbServer) /\ r \in PanelReqs
  BY <1>1 DEF ListsInv, ReqFits
<1>3. /\ t \in PanelReqs /\ t.kind = r.kind /\ t.what = r.what /\ t.status = "failed" /\ t.answer = r.answer
  BY <1>2 DEF PanelReqs
<1>4. ReqFits(cbServer, t)
  BY <1>2, <1>3 DEF ReqFits
<1>5. cbReqs' = [cbReqs EXCEPT ![i] = t]
  OBVIOUS
<1> HIDE DEF t
<1>6. /\ cbReqs' \in Seq(PanelReqs) /\ Len(cbReqs') = Len(cbReqs) /\ cbReqs'[i] = t
      /\ \A j \in 1 .. Len(cbReqs) : j # i => cbReqs'[j] = cbReqs[j]
  BY <1>1, <1>3, <1>5, RequestServed
<1>7. /\ DOMAIN cbPast' = PastFields /\ cbPast'.failed /\ cbPast'.open = cbPast.open /\ cbPast'.swapped = cbPast.swapped
      /\ cbPast'.overtaken = cbPast.overtaken /\ cbPast'.titles = cbPast.titles
  BY <1>1 DEF ListsInv, PastFields
<1>8. \A j \in 1 .. Len(cbReqs) :
        /\ cbReqs'[j].kind = cbReqs[j].kind /\ cbReqs'[j].what = cbReqs[j].what
        /\ ReqFits(cbServer', cbReqs'[j]) /\ (cbReqs'[j].status = "failed" => cbPast'.failed)
  BY <1>1, <1>3, <1>4, <1>6, <1>7 DEF ListsInv
<1>9. ASSUME NEW b \in CbBoards, AnswersNewest(cbServer, cbReqs, b) PROVE AnswersNewest(cbServer', cbReqs', b)
  BY <1>1, <1>3, <1>6, <1>9 DEF AnswersNewest
<1>10. LinkKeepsOthers'
  BY <1>1, <1>7 DEF ListsInv, LinkKeepsOthers
<1> QED BY <1>1, <1>6, <1>7, <1>8, <1>9, <1>10 DEF ServerMoves, ListsInv

LEMMA RequestTaken == ASSUME PanelInv, ServeRequest  PROVE PanelInv'
<1>1. PICK i \in DOMAIN cbReqs :
        /\ cbReqs[i].status = "sent"
        /\ \/ /\ cbReqs' = [cbReqs EXCEPT ![i].status = "ok", ![i].answer = AnswerTo(cbReqs[i])]
              /\ IF cbReqs[i].kind = "patch"
                 THEN /\ cbServer' = [cbServer EXCEPT ![cbReqs[i].what.id] = AnswerTo(cbReqs[i])]
                      /\ cbNews' = Append(cbNews, AnswerTo(cbReqs[i]))
                 ELSE UNCHANGED <<cbServer, cbNews>>
              /\ UNCHANGED cbPast
           \/ /\ cbReqs' = [cbReqs EXCEPT ![i].status = "failed"]
              /\ cbPast' = [cbPast EXCEPT !.failed = TRUE, !.others = @ + 1]
              /\ UNCHANGED <<cbServer, cbNews>>
  BY DEF ServeRequest
<1>2. UNCHANGED <<cbStore, cbPanel, cbDialog, cbUndo>>
  BY DEF ServeRequest
<1>3. cbPast.open
  <2>1. cbReqs # <<>>
    BY <1>1
  <2> QED BY <2>1 DEF PanelInv, ClosedInv
<1>4. CASE cbReqs' = [cbReqs EXCEPT ![i].status = "failed"] /\ cbPast' = [cbPast EXCEPT !.failed = TRUE, !.others = @ + 1]
           /\ UNCHANGED <<cbServer, cbNews>>
  <2>1. cbReqs' = [cbReqs EXCEPT ![i] = [cbReqs[i] EXCEPT !.status = "failed"]]
    BY <1>1, <1>4
  <2>2. ServerMoves
    BY <1>1, <1>2, <1>4, <2>1, RequestFails
  <2> QED BY <1>3, <2>2, ServerKeeps
<1>5. CASE /\ cbReqs' = [cbReqs EXCEPT ![i].status = "ok", ![i].answer = AnswerTo(cbReqs[i])]
           /\ IF cbReqs[i].kind = "patch"
              THEN /\ cbServer' = [cbServer EXCEPT ![cbReqs[i].what.id] = AnswerTo(cbReqs[i])]
                   /\ cbNews' = Append(cbNews, AnswerTo(cbReqs[i]))
              ELSE UNCHANGED <<cbServer, cbNews>>
           /\ UNCHANGED cbPast
  <2> DEFINE c == AnswerTo(cbReqs[i])
  <2>1. cbReqs' = [cbReqs EXCEPT ![i] = [cbReqs[i] EXCEPT !.status = "ok", !.answer = c]]
    <3> HIDE DEF c
    <3>1. cbReqs' = [cbReqs EXCEPT ![i].status = "ok", ![i].answer = c]
      BY <1>5 DEF c
    <3>2. cbReqs \in Seq(PanelReqs)
      BY DEF PanelInv, ListsInv
    <3> QED BY <1>1, <3>1, <3>2
  <2>2. ServerMoves
    <3>1. CASE cbReqs[i].kind = "patch"
      <4>1. cbServer' = [cbServer EXCEPT ![cbReqs[i].what.id] = c] /\ cbNews' = Append(cbNews, c)
        BY <1>5, <3>1
      <4>2. c = AnswerTo(cbReqs[i]) /\ UNCHANGED cbPast
        BY <1>5
      <4> HIDE DEF c
      <4> QED BY <1>1, <1>2, <2>1, <3>1, <4>1, <4>2, PatchServed
    <3>2. CASE cbReqs[i].kind # "patch"
      <4>1. UNCHANGED <<cbServer, cbNews, cbPast>>
        BY <1>5, <3>2
      <4> QED BY <1>1, <1>2, <2>1, <3>2, <4>1, ListServed
    <3> QED BY <3>1, <3>2
  <2> QED BY <1>3, <2>2, ServerKeeps
<1> QED BY <1>1, <1>4, <1>5

\* Somebody else's change.
LEMMA OthersLink == ASSUME PanelInv, OtherLinks  PROVE PanelInv'
<1>1. PICK b \in CbBoards :
        LET old == cbServer[b] IN
        \E new \in {[old EXCEPT !.title = @ + 1]}
                     \cup {[old EXCEPT !.channel = c, !.rev = @ + 1] : c \in (CbChannels \cup {""}) \ {old.channel}} :
          /\ cbServer' = [cbServer EXCEPT ![b] = new]
          /\ cbNews' = Append(cbNews, new)
          /\ cbPast' = [cbPast EXCEPT !.others = @ + 1, !.titles[b] = new.title]
  BY DEF OtherLinks
<1> DEFINE old == cbServer[b]
<1>2. PICK new :
          /\ \/ new = [old EXCEPT !.title = @ + 1]
             \/ \E c \in CbChannels \cup {""} : new = [old EXCEPT !.channel = c, !.rev = @ + 1]
          /\ cbServer' = [cbServer EXCEPT ![b] = new]
          /\ cbNews' = Append(cbNews, new)
          /\ cbPast' = [cbPast EXCEPT !.others = @ + 1, !.titles[b] = new.title]
  BY <1>1
<1>3. cbPast.open /\ UNCHANGED <<cbStore, cbPanel, cbDialog, cbReqs, cbUndo>>
  BY DEF OtherLinks
<1>4. ListsInv /\ ServerFits(cbServer) /\ cbReqs \in Seq(PanelReqs)
  BY DEF PanelInv, ListsInv
<1>5. old \in BoardCopies /\ old.id = b
  BY <1>4 DEF ServerFits
<1> HIDE DEF old
<1>6. PanelChanged(cbServer, b, new)
  <2>1. old.title \in Int /\ old.rev \in Nat
    BY <1>5 DEF BoardCopies
  <2> DEFINE title == old.title + 1
             next == old.rev + 1
  <2>2. title \in Int /\ next \in Nat
    BY <2>1
  <2>3. CASE new = [old EXCEPT !.title = @ + 1]
    <3>1. new = [old EXCEPT !.title = title]
      BY <2>3
    <3> HIDE DEF title
    <3>2. new \in BoardCopies /\ new.id = b /\ new.rev = old.rev /\ new.channel = old.channel
      BY <1>5, <2>2, <3>1 DEF BoardCopies
    <3> QED BY <3>2 DEF PanelChanged, old
  <2>4. CASE \E c \in CbChannels \cup {""} : new = [old EXCEPT !.channel = c, !.rev = @ + 1]
    <3>1. PICK c \in CbChannels \cup {""} : new = [old EXCEPT !.channel = c, !.rev = next]
      BY <2>4
    <3> HIDE DEF next
    <3>2. new \in BoardCopies /\ new.id = b /\ new.rev = next
      BY <1>5, <2>2, <3>1 DEF BoardCopies
    <3> QED BY <3>2 DEF PanelChanged, old, next
  <2> QED BY <1>2, <2>3, <2>4
<1>7. /\ ServerFits(cbServer') /\ cbServer'[b] = new /\ \A d \in CbBoards \ {b} : cbServer'[d] = cbServer[d]
      /\ \A x : HadAt(cbServer, x) => HadAt(cbServer', x)
      /\ HadAt(cbServer', new)
      /\ cbNews' \in Seq(BoardCopies) /\ NewsFits(cbServer', cbNews') /\ NewsOf(cbNews', b)
      /\ \A d : NewsOf(cbNews, d) => NewsOf(cbNews', d)
  <2>1. cbNews \in Seq(BoardCopies) /\ NewsFits(cbServer, cbNews)
    BY <1>4 DEF ListsInv
  <2> QED BY <1>2, <1>4, <1>6, <2>1, BoardChanges
<1>9. /\ DOMAIN cbPast' = PastFields /\ cbPast'.open = cbPast.open /\ cbPast'.swapped = cbPast.swapped
      /\ cbPast'.overtaken = cbPast.overtaken /\ cbPast'.failed = cbPast.failed
      /\ cbPast'.titles = [cbPast.titles EXCEPT ![b] = new.title]
  BY <1>2, <1>4 DEF ListsInv, PastFields
<1>10. DOMAIN cbPast'.titles = CbBoards /\ LinkKeepsOthers'
  BY <1>4, <1>7, <1>9 DEF ListsInv, LinkKeepsOthers
<1>11. \A j \in 1 .. Len(cbReqs) : ReqFits(cbServer', cbReqs[j]) /\ (cbReqs[j].status = "failed" => cbPast.failed)
  <2>1. \A x : HadAt(cbServer, x) => HadAt(cbServer', x)
    BY <1>7
  <2>2. ASSUME NEW j \in 1 .. Len(cbReqs) PROVE ReqFits(cbServer', cbReqs[j])
    <3>1. ReqFits(cbServer, cbReqs[j])
      BY <1>4 DEF ListsInv
    <3> QED BY <2>1, <3>1, RequestStands
  <2> QED BY <1>4, <2>2 DEF ListsInv
<1>12. ASSUME NEW d \in CbBoards, ~NewsOf(cbNews', d)
       PROVE  /\ ~NewsOf(cbNews, d) /\ cbServer'[d].rev = cbServer[d].rev
              /\ AnswersNewest(cbServer, cbReqs, d) => AnswersNewest(cbServer', cbReqs', d)
  <2>1. d # b /\ cbServer'[d] = cbServer[d]
    BY <1>7, <1>12
  <2>2. cbReqs' = cbReqs
    BY <1>3
  <2>3. AnswersNewest(cbServer, cbReqs, d) => AnswersNewest(cbServer', cbReqs', d)
    BY <2>1, <2>2 DEF AnswersNewest, NewestIn
  <2> QED BY <1>7, <1>12, <2>1, <2>3
<1>13. ServerMoves
  BY <1>3, <1>4, <1>7, <1>9, <1>10, <1>11, <1>12 DEF ServerMoves
<1> QED BY <1>3, <1>13, ServerKeeps

----------------------------------------------------------------------------
(***************************************************************************)
(* Answers and news.                                                        *)
(***************************************************************************)

\* An answer takes its request away and notes what it came after.
PanelAnswered(i) ==
  /\ cbReqs[i].status # "sent" /\ cbReqs' = RemoveAt(cbReqs, i)
  /\ cbPast' = [cbPast EXCEPT !.swapped = @ \/ Late(i), !.overtaken = @ \/ Older(cbStore', cbStore)]
  /\ UNCHANGED <<cbServer, cbNews>>

LEMMA AnswerLeaves ==
  ASSUME ListsInv, NEW i \in DOMAIN cbReqs, PanelAnswered(i)
  PROVE  /\ DOMAIN cbPast' = PastFields /\ cbPast'.titles = cbPast.titles
         /\ cbPast'.open = cbPast.open /\ cbPast'.failed = cbPast.failed
         /\ ~cbPast'.swapped => ~cbPast.swapped /\ ~Late(i)
         /\ ~cbPast'.overtaken => ~cbPast.overtaken /\ ~Older(cbStore', cbStore)
         /\ cbReqs' \in Seq(PanelReqs)
         /\ \A j \in 1 .. Len(cbReqs') : \E k \in 1 .. Len(cbReqs) : cbReqs'[j] = cbReqs[k]
         /\ \A k \in 1 .. Len(cbReqs) : k # i => \E j \in 1 .. Len(cbReqs') : cbReqs'[j] = cbReqs[k]
         /\ \A b \in CbBoards : AnswersNewest(cbServer, cbReqs, b) => AnswersNewest(cbServer', cbReqs', b)
<1>1. /\ DOMAIN cbPast' = PastFields /\ cbPast'.titles = cbPast.titles
      /\ cbPast'.open = cbPast.open /\ cbPast'.failed = cbPast.failed
      /\ cbPast'.swapped = (cbPast.swapped \/ Late(i))
      /\ cbPast'.overtaken = (cbPast.overtaken \/ Older(cbStore', cbStore))
  BY DEF ListsInv, PanelAnswered, PastFields
<1>2. cbReqs \in Seq(PanelReqs) /\ cbReqs' = RemoveAt(cbReqs, i) /\ cbServer' = cbServer
  BY DEF ListsInv, PanelAnswered
<1>3. cbReqs' \in Seq(PanelReqs)
  BY <1>2, RemoveAtType
<1>4. /\ \A j \in DOMAIN cbReqs' : \E k \in DOMAIN cbReqs : cbReqs'[j] = cbReqs[k]
      /\ \A k \in DOMAIN cbReqs \ {i} : \E j \in DOMAIN cbReqs' : cbReqs'[j] = cbReqs[k]
  BY <1>2, RemoveAtElements
<1>5. DOMAIN cbReqs' = 1 .. Len(cbReqs') /\ DOMAIN cbReqs = 1 .. Len(cbReqs)
  BY <1>2, <1>3
<1>6. /\ \A j \in 1 .. Len(cbReqs') : \E k \in 1 .. Len(cbReqs) : cbReqs'[j] = cbReqs[k]
      /\ \A k \in 1 .. Len(cbReqs) : k # i => \E j \in 1 .. Len(cbReqs') : cbReqs'[j] = cbReqs[k]
  BY <1>4, <1>5
<1>7. \A b \in CbBoards : AnswersNewest(cbServer, cbReqs, b) => AnswersNewest(cbServer', cbReqs', b)
  BY <1>2, <1>6 DEF AnswersNewest
<1> QED BY <1>1, <1>3, <1>6, <1>7

LEMMA ListsAnswered ==
  ASSUME ListsInv, NEW i \in DOMAIN cbReqs, PanelAnswered(i), StoreFits(cbServer, cbStore')
  PROVE  ListsInv'
<1>1. cbServer' = cbServer /\ cbNews' = cbNews
  BY DEF PanelAnswered
<1>2. \A j \in 1 .. Len(cbReqs') : ReqFits(cbServer', cbReqs'[j]) /\ (cbReqs'[j].status = "failed" => cbPast'.failed)
  BY <1>1, AnswerLeaves DEF ListsInv
<1>3. /\ DOMAIN cbPast' = PastFields /\ cbPast'.titles = cbPast.titles /\ cbReqs' \in Seq(PanelReqs)
  BY AnswerLeaves
<1>4. LinkKeepsOthers'
  BY <1>1, <1>3 DEF ListsInv, LinkKeepsOthers
<1> QED BY <1>1, <1>2, <1>3, <1>4 DEF ListsInv

\* A store that has no older copies than before is of the server's revisions.
LEMMA StoreNewer ==
  ASSUME ListsInv, NEW b \in CbBoards, RevIn(cbStore, b) = cbServer[b].rev,
         StoreFits(cbServer, cbStore'), DOMAIN cbStore \subseteq DOMAIN cbStore', ~Older(cbStore', cbStore)
  PROVE  RevIn(cbStore', b) = cbServer[b].rev
<1>1. StoreFits(cbServer, cbStore)
  BY DEF ListsInv
<1>2. cbServer[b].rev \in Nat
  BY DEF ListsInv, ServerFits, BoardCopies
<1>3. CASE b \in DOMAIN cbStore'
  <2>1. cbStore'[b].rev \in Nat /\ cbStore'[b].rev <= cbServer[b].rev
    BY <1>1, <1>3 DEF StoreFits, HadAt, BoardCopies
  <2>2. CASE b \in DOMAIN cbStore
    <3>1. cbStore[b].rev = cbServer[b].rev
      BY <2>2 DEF RevIn
    <3>2. ~(cbStore'[b].rev < cbStore[b].rev)
      BY <1>3, <2>2 DEF Older
    <3>3. cbStore'[b].rev = cbServer[b].rev
      BY <1>2, <2>1, <3>1, <3>2
    <3> QED BY <1>3, <3>3 DEF RevIn
  <2>3. CASE b \notin DOMAIN cbStore
    <3>1. cbServer[b].rev = 0
      BY <2>3 DEF RevIn
    <3>2. cbStore'[b].rev = cbServer[b].rev
      BY <2>1, <3>1
    <3> QED BY <1>3, <3>2 DEF RevIn
  <2> QED BY <2>2, <2>3
<1>4. CASE b \notin DOMAIN cbStore'
  BY <1>4 DEF RevIn
<1> QED BY <1>3, <1>4

LEMMA StoreAnswered ==
  ASSUME ListsInv, StoreInv, NEW i \in DOMAIN cbReqs, PanelAnswered(i), StoreFits(cbServer, cbStore'),
         cbPast.failed \/ DOMAIN cbStore \subseteq DOMAIN cbStore',
         cbPast.failed \/ cbReqs[i].kind # "boards" \/ DOMAIN cbStore' = CbBoards
  PROVE  StoreInv'
<1>1. cbServer' = cbServer /\ cbNews' = cbNews
  BY DEF PanelAnswered
<1>2. /\ cbPast'.open = cbPast.open /\ cbPast'.failed = cbPast.failed
      /\ ~cbPast'.overtaken => ~cbPast.overtaken /\ ~Older(cbStore', cbStore)
  BY AnswerLeaves
<1>3. ASSUME cbPast'.open, ~cbPast'.failed
      PROVE  (\E j \in 1 .. Len(cbReqs') : cbReqs'[j].kind = "boards") \/ DOMAIN cbStore' = CbBoards
  <2>1. CASE DOMAIN cbStore' = CbBoards
    BY <2>1
  <2>2. CASE cbReqs[i].kind # "boards"
    <3>1. (\E k \in 1 .. Len(cbReqs) : cbReqs[k].kind = "boards") \/ DOMAIN cbStore = CbBoards
      BY <1>2, <1>3 DEF StoreInv
    <3>2. CASE \E k \in 1 .. Len(cbReqs) : cbReqs[k].kind = "boards"
      <4>1. PICK k \in 1 .. Len(cbReqs) : cbReqs[k].kind = "boards"
        BY <3>2
      <4>2. \E j \in 1 .. Len(cbReqs') : cbReqs'[j] = cbReqs[k]
        BY <2>2, <4>1, AnswerLeaves
      <4> QED BY <4>1, <4>2
    <3>3. CASE DOMAIN cbStore = CbBoards
      BY <1>2, <1>3, <3>3 DEF StoreFits
    <3> QED BY <3>1, <3>2, <3>3
  <2> QED BY <1>2, <1>3, <2>1, <2>2
<1>4. ASSUME ~cbPast'.failed, ~cbPast'.overtaken, NEW b \in CbBoards
      PROVE  NewsOf(cbNews', b) \/ RevIn(cbStore', b) = cbServer'[b].rev
  <2>1. NewsOf(cbNews, b) \/ RevIn(cbStore, b) = cbServer[b].rev
    BY <1>2, <1>4 DEF StoreInv
  <2> QED BY <1>1, <1>2, <1>4, <2>1, StoreNewer
<1> QED BY <1>3, <1>4 DEF StoreInv

\* An answer of another kind leaves the last request of a kind.
LEMMA OtherAnswered ==
  ASSUME ListsInv, NEW i \in DOMAIN cbReqs, PanelAnswered(i), NEW kind, cbReqs[i].kind # kind, NEW what
  PROVE  /\ LastOf(cbReqs, kind, what) => LastOf(cbReqs', kind, what)
         /\ NoneOf(cbReqs, kind) => NoneOf(cbReqs', kind)
<1>1. cbReqs \in Seq(PanelReqs) /\ cbReqs' = RemoveAt(cbReqs, i)
  BY DEF ListsInv, PanelAnswered
<1> QED BY <1>1, AnsweredLast

\* The first answer of a kind is the last one, or the last one is still to come.
LEMMA FirstAnswered ==
  ASSUME ListsInv, NEW i \in DOMAIN cbReqs, PanelAnswered(i), ~Late(i), NEW what,
         LastOf(cbReqs, cbReqs[i].kind, what) \/ NoneOf(cbReqs, cbReqs[i].kind)
  PROVE  \/ LastOf(cbReqs', cbReqs[i].kind, what)
         \/ NoneOf(cbReqs', cbReqs[i].kind) /\ cbReqs[i].what = what
<1>1. cbReqs \in Seq(PanelReqs) /\ cbReqs' = RemoveAt(cbReqs, i) /\ i \in 1 .. Len(cbReqs)
  BY DEF ListsInv, PanelAnswered
<1>2. \A j \in DOMAIN cbReqs : j < i => cbReqs[j].kind # cbReqs[i].kind
  BY DEF Late
<1>3. LastOf(cbReqs, cbReqs[i].kind, what)
  BY <1>1 DEF NoneOf
<1> QED BY <1>1, <1>2, <1>3, AnsweredLast

\* The results of an answer that is not of a search: they stay or are forgotten.
LEMMA ResultsAnswered ==
  ASSUME ListsInv, ResultsInv, NEW i \in DOMAIN cbReqs, PanelAnswered(i), cbReqs[i].kind # "search",
         cbDialog' = cbDialog \/ cbDialog' = [Closed EXCEPT !.timer = cbDialog.timer]
  PROVE  ResultsInv'
<1>1. cbServer' = cbServer /\ cbNews' = cbNews
  BY DEF PanelAnswered
<1>2. cbDialog \in PanelDialogs
  BY DEF ResultsInv
<1>3. /\ cbDialog' \in PanelDialogs /\ cbDialog'.results \subseteq cbDialog.results
      /\ cbDialog' = cbDialog \/ (cbDialog'.link = "" /\ cbDialog'.confirm = <<>>)
  BY <1>2, ClosedType
<1>4. \A c \in cbDialog'.results : HadAt(cbServer', c)
  BY <1>1, <1>3 DEF ResultsInv
<1>5. cbDialog'.confirm # <<>> => cbDialog'.link # "" /\ cbDialog'.confirm[1].channel # cbDialog'.link
  BY <1>3 DEF ResultsInv
<1>6. ASSUME ~cbPast'.overtaken, NEW b \in CbBoards
      PROVE  NewsOf(cbNews', b) \/ (NewestIn(cbServer', b, cbDialog'.results) /\ AnswersNewest(cbServer', cbReqs', b))
  <2>1. ~cbPast.overtaken
    BY <1>6, AnswerLeaves
  <2>2. NewsOf(cbNews, b) \/ (NewestIn(cbServer, b, cbDialog.results) /\ AnswersNewest(cbServer, cbReqs, b))
    BY <2>1 DEF ResultsInv
  <2>3. NewestIn(cbServer, b, cbDialog.results) => NewestIn(cbServer', b, cbDialog'.results)
    BY <1>1, <1>3 DEF NewestIn
  <2>4. AnswersNewest(cbServer, cbReqs, b) => AnswersNewest(cbServer', cbReqs', b)
    BY AnswerLeaves
  <2> QED BY <1>1, <2>2, <2>3, <2>4
<1>7. ASSUME ~cbPast'.failed, ~cbPast'.swapped, cbDialog'.link # ""
      PROVE  \/ LastOf(cbReqs', "search", cbDialog'.query)
             \/ NoneOf(cbReqs', "search") /\ {c.id : c \in cbDialog'.results} = CbMatches[cbDialog'.query]
  <2>1. ~cbPast.failed /\ ~cbPast.swapped
    BY <1>7, AnswerLeaves
  <2>2. cbDialog' = cbDialog
    BY <1>3, <1>7
  <2>3. \/ LastOf(cbReqs, "search", cbDialog.query)
        \/ NoneOf(cbReqs, "search") /\ {c.id : c \in cbDialog.results} = CbMatches[cbDialog.query]
    BY <1>7, <2>1, <2>2 DEF ResultsInv
  <2> QED BY <2>2, <2>3, OtherAnswered
<1> QED BY <1>3, <1>4, <1>5, <1>6, <1>7 DEF ResultsInv

LEMMA CardsAnswered ==
  ASSUME ListsInv, CardsInv, NEW i \in DOMAIN cbReqs, PanelAnswered(i), cbReqs[i].kind # "cards", cbPanel' \in PanelViews,
         cbPanel'.selected = cbPanel.selected, cbPanel'.cards = cbPanel.cards
  PROVE  CardsInv'
<1>1. ASSUME ~cbPast'.failed, ~cbPast'.swapped, cbPanel'.selected # NoBoard
      PROVE  \/ LastOf(cbReqs', "cards", cbPanel'.selected)
             \/ NoneOf(cbReqs', "cards") /\ cbPanel'.cards = cbPanel'.selected
  <2>1. ~cbPast.failed /\ ~cbPast.swapped
    BY <1>1, AnswerLeaves
  <2>2. LastOf(cbReqs, "cards", cbPanel.selected) \/ (NoneOf(cbReqs, "cards") /\ cbPanel.cards = cbPanel.selected)
    BY <1>1, <2>1 DEF CardsInv
  <2> QED BY <2>2, OtherAnswered
<1> QED BY <1>1 DEF CardsInv

\* The answers of each kind.  What a request that failed is taken for is empty.
LEMMA BoardsArrive ==
  ASSUME PanelInv, NEW i \in DOMAIN cbReqs, cbReqs[i].kind = "boards", PanelAnswered(i), ArriveBoards(cbReqs[i])
  PROVE  PanelInv'
<1> DEFINE r == cbReqs[i]
<1>1. /\ ListsInv /\ StoreInv /\ ResultsInv /\ CardsInv /\ UndoInv /\ ClosedInv
  BY DEF PanelInv
<1>2. /\ ReqFits(cbServer, r) /\ r.kind = "boards" /\ (r.status = "failed" => cbPast.failed)
      /\ r.status # "sent" /\ r.status \in {"sent", "ok", "failed"}
  BY <1>1 DEF ListsInv, PanelAnswered, ReqFits, PanelReqs
<1>3. cbStore' = r.answer /\ cbPanel' = [cbPanel EXCEPT !.loaded = TRUE] /\ UNCHANGED <<cbDialog, cbUndo>>
  BY DEF ArriveBoards
<1> HIDE DEF r
<1>4. StoreFits(cbServer, cbStore') /\ (cbPast.failed \/ DOMAIN cbStore' = CbBoards)
  <2>1. CASE r.status = "ok"
    <3>1. r.answer \in [CbBoards -> BoardCopies] /\ \A b \in CbBoards : r.answer[b].id = b /\ HadAt(cbServer, r.answer[b])
      BY <1>2, <2>1 DEF ReqFits, AnswerFits
    <3> QED BY <1>3, <3>1 DEF StoreFits
  <2>2. CASE r.status = "failed"
    <3>1. cbStore' = <<>>
      BY <1>2, <1>3, <2>2 DEF ReqFits
    <3>2. DOMAIN cbStore' = {}
      BY <3>1
    <3> QED BY <1>2, <2>2, <3>2 DEF StoreFits
  <2> QED BY <1>2, <2>1, <2>2
<1>5. ListsInv'
  BY <1>1, <1>4, ListsAnswered
<1>6. StoreInv'
  <2>1. DOMAIN cbStore \subseteq CbBoards
    BY <1>1 DEF ListsInv, StoreFits
  <2> QED BY <1>1, <1>4, <2>1, StoreAnswered
<1>7. ResultsInv'
  BY <1>1, <1>3, ResultsAnswered
<1>8. CardsInv'
  <2>1. /\ cbPanel' \in PanelViews /\ cbPanel'.selected = cbPanel.selected /\ cbPanel'.cards = cbPanel.cards
    BY <1>1, <1>3 DEF CardsInv, PanelViews
  <2> QED BY <1>1, <2>1, CardsAnswered
<1>9. UndoInv' /\ ClosedInv'
  <2>1. cbPast'.open
    BY <1>1, AnswerLeaves DEF ClosedInv
  <2> QED BY <1>1, <1>3, <2>1 DEF UndoInv, ClosedInv
<1> QED BY <1>5, <1>6, <1>7, <1>8, <1>9 DEF PanelInv

\* PanelAnswers that leave the store, the undo and the panel's list as they are.
LEMMA ListsArrive ==
  ASSUME PanelInv, NEW i \in DOMAIN cbReqs, cbReqs[i].kind # "boards", PanelAnswered(i), UNCHANGED <<cbStore, cbUndo>>
  PROVE  ListsInv' /\ StoreInv' /\ UndoInv' /\ ClosedInv'
<1>1. /\ ListsInv /\ StoreInv /\ UndoInv /\ ClosedInv
  BY DEF PanelInv
<1>2. StoreFits(cbServer, cbStore') /\ DOMAIN cbStore \subseteq DOMAIN cbStore'
  BY <1>1 DEF ListsInv
<1>3. ListsInv'
  BY <1>1, <1>2, ListsAnswered
<1>4. StoreInv'
  BY <1>1, <1>2, StoreAnswered
<1>5. cbPast'.open
  BY <1>1, AnswerLeaves DEF ClosedInv
<1> QED BY <1>1, <1>3, <1>4, <1>5 DEF UndoInv, ClosedInv

LEMMA SearchArrives ==
  ASSUME PanelInv, NEW i \in DOMAIN cbReqs, cbReqs[i].kind = "search", PanelAnswered(i), ArriveSearch(cbReqs[i])
  PROVE  PanelInv'
<1> DEFINE r == cbReqs[i]
           found == IF r.status = "ok" THEN r.answer ELSE {}
<1>1. /\ ListsInv /\ ResultsInv /\ CardsInv
  BY DEF PanelInv
<1>2. /\ ReqFits(cbServer, r) /\ r.kind = "search" /\ (r.status = "failed" => cbPast.failed)
      /\ r.status # "sent" /\ r.status \in {"sent", "ok", "failed"} /\ i \in 1 .. Len(cbReqs) /\ cbReqs[i] = r
  BY <1>1 DEF ListsInv, PanelAnswered, ReqFits, PanelReqs
<1>3. cbDialog' = [cbDialog EXCEPT !.results = found] /\ UNCHANGED <<cbStore, cbPanel, cbUndo>>
  BY DEF ArriveSearch
<1>4. cbServer' = cbServer /\ cbNews' = cbNews
  BY DEF PanelAnswered
<1>5. /\ \A c \in found : HadAt(cbServer, c)
      /\ cbPast.failed \/ {c.id : c \in found} = CbMatches[r.what]
      /\ found \in SUBSET BoardCopies
  <2>1. CASE r.status = "ok"
    <3>1. {c.id : c \in r.answer} = CbMatches[r.what] /\ \A c \in r.answer : HadAt(cbServer, c)
      BY <1>2, <2>1 DEF ReqFits, AnswerFits
    <3>2. \A c \in r.answer : c \in BoardCopies
      BY <3>1 DEF HadAt
    <3> QED BY <2>1, <3>1, <3>2
  <2>2. CASE r.status = "failed"
    BY <1>2, <2>2
  <2> QED BY <1>2, <2>1, <2>2
<1>6. \A b \in CbBoards : AnswersNewest(cbServer, cbReqs, b) => NewestIn(cbServer, b, found)
  BY <1>2 DEF AnswersNewest, NewestIn
<1> HIDE DEF r, found
<1>7. /\ cbDialog' \in PanelDialogs /\ cbDialog'.results = found /\ cbDialog'.link = cbDialog.link
      /\ cbDialog'.query = cbDialog.query /\ cbDialog'.confirm = cbDialog.confirm
  BY <1>1, <1>3, <1>5 DEF ResultsInv, PanelDialogs
<1>8. ASSUME ~cbPast'.overtaken, NEW b \in CbBoards
      PROVE  NewsOf(cbNews', b) \/ (NewestIn(cbServer', b, cbDialog'.results) /\ AnswersNewest(cbServer', cbReqs', b))
  <2>1. ~cbPast.overtaken
    BY <1>1, <1>8, AnswerLeaves
  <2>2. NewsOf(cbNews, b) \/ AnswersNewest(cbServer, cbReqs, b)
    BY <1>1, <2>1 DEF ResultsInv
  <2>3. AnswersNewest(cbServer, cbReqs, b) => AnswersNewest(cbServer', cbReqs', b)
    BY <1>1, AnswerLeaves
  <2> QED BY <1>4, <1>6, <1>7, <2>2, <2>3
<1>9. ASSUME ~cbPast'.failed, ~cbPast'.swapped, cbDialog'.link # ""
      PROVE  \/ LastOf(cbReqs', "search", cbDialog'.query)
             \/ NoneOf(cbReqs', "search") /\ {c.id : c \in cbDialog'.results} = CbMatches[cbDialog'.query]
  <2>1. ~cbPast.failed /\ ~cbPast.swapped /\ ~Late(i)
    BY <1>1, <1>9, AnswerLeaves
  <2>2. LastOf(cbReqs, "search", cbDialog.query) \/ NoneOf(cbReqs, "search")
    BY <1>1, <1>7, <1>9, <2>1 DEF ResultsInv
  <2>3. LastOf(cbReqs', "search", cbDialog.query) \/ (NoneOf(cbReqs', "search") /\ r.what = cbDialog.query)
    BY <1>1, <1>2, <2>1, <2>2, FirstAnswered
  <2> QED BY <1>5, <1>7, <2>1, <2>3
<1>10. ResultsInv'
  BY <1>1, <1>4, <1>5, <1>7, <1>8, <1>9 DEF ResultsInv
<1>11. CardsInv'
  <2>1. cbPanel' = cbPanel /\ cbPanel' \in PanelViews
    BY <1>1, <1>3 DEF CardsInv
  <2> QED BY <1>1, <2>1, CardsAnswered
<1>12. ListsInv' /\ StoreInv' /\ UndoInv' /\ ClosedInv'
  BY <1>3, ListsArrive
<1> QED BY <1>10, <1>11, <1>12 DEF PanelInv

LEMMA CardsArrive ==
  ASSUME PanelInv, NEW i \in DOMAIN cbReqs, cbReqs[i].kind = "cards", PanelAnswered(i), ArriveCards(cbReqs[i])
  PROVE  PanelInv'
<1> DEFINE r == cbReqs[i]
           cards == IF r.status = "ok" THEN r.answer ELSE NoBoard
<1>1. /\ ListsInv /\ ResultsInv /\ CardsInv
  BY DEF PanelInv
<1>2. /\ ReqFits(cbServer, r) /\ r.kind = "cards" /\ (r.status = "failed" => cbPast.failed)
      /\ r.status # "sent" /\ r.status \in {"sent", "ok", "failed"}
  BY <1>1 DEF ListsInv, PanelAnswered, ReqFits, PanelReqs
<1>3. cbPanel' = [cbPanel EXCEPT !.cards = cards] /\ UNCHANGED <<cbStore, cbDialog, cbUndo>>
  BY DEF ArriveCards
<1>4. cards \in CbBoards \cup {NoBoard} /\ (cbPast.failed \/ cards = r.what)
  BY <1>2 DEF ReqFits, AnswerFits
<1> HIDE DEF cards
<1>5. cbPanel' \in PanelViews /\ cbPanel'.selected = cbPanel.selected /\ cbPanel'.cards = cards
  BY <1>1, <1>3, <1>4 DEF CardsInv, PanelViews
<1>6. ASSUME ~cbPast'.failed, ~cbPast'.swapped, cbPanel'.selected # NoBoard
      PROVE  \/ LastOf(cbReqs', "cards", cbPanel'.selected)
             \/ NoneOf(cbReqs', "cards") /\ cbPanel'.cards = cbPanel'.selected
  <2>1. ~cbPast.failed /\ ~cbPast.swapped /\ ~Late(i)
    BY <1>1, <1>6, AnswerLeaves
  <2>2. LastOf(cbReqs, "cards", cbPanel.selected) \/ NoneOf(cbReqs, "cards")
    BY <1>1, <1>5, <1>6, <2>1 DEF CardsInv
  <2>3. LastOf(cbReqs', "cards", cbPanel.selected) \/ (NoneOf(cbReqs', "cards") /\ r.what = cbPanel.selected)
    BY <1>1, <1>2, <2>1, <2>2, FirstAnswered
  <2> QED BY <1>4, <1>5, <2>1, <2>3
<1>7. CardsInv'
  BY <1>5, <1>6 DEF CardsInv
<1>8. ResultsInv'
  BY <1>1, <1>2, <1>3, ResultsAnswered
<1>9. ListsInv' /\ StoreInv' /\ UndoInv' /\ ClosedInv'
  BY <1>2, <1>3, ListsArrive
<1> QED BY <1>7, <1>8, <1>9 DEF PanelInv

LEMMA PatchArrives ==
  ASSUME PanelInv, NEW i \in DOMAIN cbReqs, cbReqs[i].kind = "patch", PanelAnswered(i), ArrivePatch(cbReqs[i])
  PROVE  PanelInv'
<1> DEFINE r == cbReqs[i]
           w == r.what
<1>1. /\ ListsInv /\ StoreInv /\ ResultsInv /\ CardsInv /\ UndoInv /\ ClosedInv
  BY DEF PanelInv
<1>2. /\ ReqFits(cbServer, r) /\ r.kind = "patch" /\ LinkFits(w)
  BY <1>1 DEF ListsInv, ReqFits
<1>3. CASE r.status # "ok"
  <2>1. UNCHANGED <<cbStore, cbDialog, cbUndo, cbPanel>>
    BY <1>3 DEF ArrivePatch
  <2>2. ResultsInv'
    BY <1>1, <1>2, <2>1, ResultsAnswered
  <2>3. CardsInv'
    <3>1. cbPanel' = cbPanel /\ cbPanel' \in PanelViews
      BY <1>1, <2>1 DEF CardsInv
    <3> QED BY <1>1, <1>2, <3>1, CardsAnswered
  <2>4. ListsInv' /\ StoreInv' /\ UndoInv' /\ ClosedInv'
    BY <1>2, <2>1, ListsArrive
  <2> QED BY <2>2, <2>3, <2>4 DEF PanelInv
<1>4. CASE r.status = "ok"
  <2> DEFINE c == [w.new EXCEPT !.rev = r.answer.rev]
  <2>1. /\ cbStore' = PutBoard(c) /\ cbPanel' = cbPanel
        /\ cbDialog' = IF w.of = "dialog" THEN [Closed EXCEPT !.timer = cbDialog.timer] ELSE cbDialog
        /\ cbUndo' = IF w.of = "undo" THEN cbUndo ELSE <<w>>
    BY <1>4 DEF ArrivePatch
  <2>2. /\ w.id \in CbBoards /\ w.new \in BoardCopies /\ w.new.id = w.id /\ w \in Links
        /\ HadAt(cbServer, r.answer) /\ r.answer.id = w.id /\ r.answer.channel = w.new.channel
    BY <1>2, <1>4 DEF ReqFits, AnswerFits, LinkFits, Links
  <2>3. r.answer.rev \in Nat
    BY <2>2 DEF HadAt, BoardCopies
  <2> HIDE DEF r, w
  <2>4. c \in BoardCopies /\ c.id = w.id /\ c.rev = r.answer.rev /\ c.channel = r.answer.channel
    BY <2>2, <2>3 DEF BoardCopies
  <2>5. HadAt(cbServer, c)
    BY <2>2, <2>4 DEF HadAt
  <2> HIDE DEF c
  <2>6. /\ DOMAIN cbStore' = {w.id} \cup DOMAIN cbStore /\ cbStore'[w.id] = c
        /\ \A b \in DOMAIN cbStore : b # w.id => cbStore'[b] = cbStore[b]
    BY <2>1, <2>2, <2>4 DEF PutBoard
  <2>7. StoreFits(cbServer, cbStore') /\ DOMAIN cbStore \subseteq DOMAIN cbStore'
    BY <1>1, <2>2, <2>4, <2>5, <2>6 DEF ListsInv, StoreFits
  <2>8. ListsInv'
    BY <1>1, <2>7, ListsAnswered
  <2>9. StoreInv'
    BY <1>1, <2>7, StoreAnswered
  <2>10. ResultsInv'
    BY <1>1, <2>1, ResultsAnswered
  <2>11. CardsInv'
    <3>1. cbPanel' \in PanelViews
      BY <1>1, <2>1 DEF CardsInv
    <3> QED BY <1>1, <2>1, <3>1, CardsAnswered
  <2>12. UndoInv'
    <3>1. <<w>> \in Seq(Links) /\ <<w>>[1] = w
      BY <2>2
    <3> QED BY <1>1, <1>2, <2>1, <3>1 DEF UndoInv, w
  <2>13. ClosedInv'
    <3>1. cbPast'.open
      BY <1>1, AnswerLeaves DEF ClosedInv
    <3> QED BY <3>1 DEF ClosedInv
  <2> QED BY <2>8, <2>9, <2>10, <2>11, <2>12, <2>13 DEF PanelInv
<1> QED BY <1>3, <1>4

LEMMA AnswerArrives == ASSUME PanelInv, ArriveAnswer  PROVE PanelInv'
<1>1. PICK i \in DOMAIN cbReqs :
        /\ cbReqs[i].status # "sent" /\ cbReqs' = RemoveAt(cbReqs, i)
        /\ CASE cbReqs[i].kind = "boards" -> ArriveBoards(cbReqs[i])
             [] cbReqs[i].kind = "search" -> ArriveSearch(cbReqs[i])
             [] cbReqs[i].kind = "cards"  -> ArriveCards(cbReqs[i])
             [] cbReqs[i].kind = "patch"  -> ArrivePatch(cbReqs[i])
        /\ cbPast' = [cbPast EXCEPT !.swapped = @ \/ Late(i), !.overtaken = @ \/ Older(cbStore', cbStore)]
  BY DEF ArriveAnswer
<1>2. UNCHANGED <<cbServer, cbNews>>
  BY DEF ArriveAnswer
<1>3. PanelAnswered(i)
  BY <1>1, <1>2 DEF PanelAnswered
<1>4. cbReqs[i].kind \in {"boards", "search", "cards", "patch"}
  BY DEF PanelInv, ListsInv, ReqFits, PanelReqs
<1>5. CASE cbReqs[i].kind = "boards"
  BY <1>1, <1>3, <1>5, BoardsArrive
<1>6. CASE cbReqs[i].kind = "search"
  BY <1>1, <1>3, <1>6, SearchArrives
<1>7. CASE cbReqs[i].kind = "cards"
  BY <1>1, <1>3, <1>7, CardsArrive
<1>8. CASE cbReqs[i].kind = "patch"
  BY <1>1, <1>3, <1>8, PatchArrives
<1> QED BY <1>4, <1>5, <1>6, <1>7, <1>8

\* Of the news the first is taken.
LEMMA NewsTaken ==
  ASSUME cbNews \in Seq(BoardCopies), cbNews # <<>>, cbNews' = Tail(cbNews), cbServer' = cbServer,
         NewsFits(cbServer, cbNews)
  PROVE  /\ cbNews' \in Seq(BoardCopies) /\ NewsFits(cbServer', cbNews') /\ HadAt(cbServer, Head(cbNews))
         /\ \A b : NewsOf(cbNews, b) => NewsOf(cbNews', b) \/ b = Head(cbNews).id
         /\ NewsOf(cbNews', Head(cbNews).id) \/ Head(cbNews).rev = cbServer[Head(cbNews).id].rev
<1> DEFINE n == Len(cbNews)
           board == Head(cbNews)
<1>1. /\ n \in Nat /\ n >= 1 /\ cbNews' \in Seq(BoardCopies) /\ Len(cbNews') = n - 1 /\ board = cbNews[1]
      /\ \A i \in 1 .. n - 1 : cbNews'[i] = cbNews[i + 1]
  OBVIOUS
<1> HIDE DEF board
<1>2. NewsFits(cbServer', cbNews')
  <2>1. ASSUME NEW i \in 1 .. Len(cbNews')
        PROVE  /\ HadAt(cbServer, cbNews'[i])
               /\ (\A j \in i + 1 .. Len(cbNews') : cbNews'[j].id # cbNews'[i].id) => cbNews'[i].rev = cbServer[cbNews'[i].id].rev
    <3>1. i + 1 \in 1 .. n /\ cbNews'[i] = cbNews[i + 1]
      BY <1>1
    <3>2. ASSUME \A j \in i + 1 .. Len(cbNews') : cbNews'[j].id # cbNews'[i].id,
                 NEW k \in (i + 1) + 1 .. n
          PROVE  cbNews[k].id # cbNews[i + 1].id
      <4>1. k - 1 \in i + 1 .. Len(cbNews') /\ k - 1 \in 1 .. n - 1 /\ (k - 1) + 1 = k
        BY <1>1, <2>1, <3>2
      <4> QED BY <1>1, <3>1, <3>2, <4>1
    <3> QED BY <3>1, <3>2 DEF NewsFits
  <2> QED BY <2>1 DEF NewsFits
<1>3. HadAt(cbServer, board)
  <2>1. 1 \in 1 .. n
    BY <1>1
  <2> QED BY <1>1, <2>1 DEF NewsFits
<1>4. ASSUME NEW b, NewsOf(cbNews, b), b # board.id PROVE NewsOf(cbNews', b)
  <2>1. PICK k \in 1 .. n : cbNews[k].id = b
    BY <1>4 DEF NewsOf
  <2>2. k - 1 \in 1 .. n - 1 /\ (k - 1) + 1 = k
    BY <1>1, <1>4, <2>1
  <2> QED BY <1>1, <2>1, <2>2 DEF NewsOf
<1>5. ASSUME ~NewsOf(cbNews', board.id) PROVE board.rev = cbServer[board.id].rev
  <2>1. ASSUME NEW k \in 1 + 1 .. n PROVE cbNews[k].id # board.id
    <3>1. k - 1 \in 1 .. n - 1 /\ (k - 1) + 1 = k
      BY <1>1, <2>1
    <3> QED BY <1>1, <1>5, <3>1 DEF NewsOf
  <2>2. 1 \in 1 .. n
    BY <1>1
  <2> QED BY <1>1, <2>1, <2>2 DEF NewsFits
<1> QED BY <1>1, <1>2, <1>3, <1>4, <1>5 DEF board

\* The results with the news, of the same boards.
LEMMA ResultsReplaced ==
  ASSUME NEW results \in SUBSET BoardCopies, NEW board \in BoardCopies
  PROVE  LET new == {IF r.id = board.id THEN board ELSE r : r \in results} IN
         /\ new \in SUBSET BoardCopies /\ \A c \in new : c = board \/ (c \in results /\ c.id # board.id)
         /\ {c.id : c \in new} = {c.id : c \in results}
OBVIOUS

LEMMA NewsArrives == ASSUME PanelInv, OnChangeBoardHandler  PROVE PanelInv'
<1> DEFINE board == Head(cbNews)
           b == board.id
           found == {IF r.id = board.id THEN board ELSE r : r \in cbDialog.results}
           older == \E i \in DOMAIN cbReqs :
                      cbReqs[i].kind = "search" /\ cbReqs[i].status = "ok" /\ OlderResult(cbReqs[i].answer, board)
<1>1. /\ ListsInv /\ StoreInv /\ ResultsInv /\ CardsInv /\ UndoInv /\ ClosedInv
  BY DEF PanelInv
<1>2. /\ cbNews # <<>> /\ cbNews' = Tail(cbNews) /\ cbStore' = PutBoard(board)
      /\ cbDialog' = [cbDialog EXCEPT !.results = found]
      /\ cbPast' = [cbPast EXCEPT !.overtaken = @ \/ older]
      /\ UNCHANGED <<cbServer, cbPanel, cbReqs, cbUndo>>
  BY DEF OnChangeBoardHandler
<1>3. /\ cbReqs \in Seq(PanelReqs) /\ cbNews \in Seq(BoardCopies) /\ NewsFits(cbServer, cbNews) /\ ServerFits(cbServer)
  BY <1>1 DEF ListsInv
<1>4. /\ cbNews' \in Seq(BoardCopies) /\ NewsFits(cbServer', cbNews') /\ HadAt(cbServer, board)
      /\ \A d : NewsOf(cbNews, d) => NewsOf(cbNews', d) \/ d = b
      /\ NewsOf(cbNews', b) \/ board.rev = cbServer[b].rev
  BY <1>2, <1>3, NewsTaken
<1>5. board \in BoardCopies /\ b \in CbBoards /\ b = board.id
  BY <1>4 DEF HadAt, BoardCopies
<1>6. cbDialog \in PanelDialogs /\ cbDialog.results \in SUBSET BoardCopies
  BY <1>1 DEF ResultsInv, PanelDialogs
<1>7. /\ found \in SUBSET BoardCopies /\ \A c \in found : c = board \/ (c \in cbDialog.results /\ c.id # b)
      /\ {c.id : c \in found} = {c.id : c \in cbDialog.results}
  BY <1>5, <1>6, ResultsReplaced
<1> HIDE DEF board, b, found, older
<1>8. /\ DOMAIN cbPast' = PastFields /\ cbPast'.titles = cbPast.titles /\ cbPast'.open = cbPast.open
      /\ cbPast'.failed = cbPast.failed /\ cbPast'.swapped = cbPast.swapped
      /\ cbPast'.overtaken = (cbPast.overtaken \/ older)
  BY <1>1, <1>2 DEF ListsInv, PastFields
<1>9. /\ DOMAIN cbStore' = DOMAIN cbStore \cup {b} /\ cbStore'[b] = board
      /\ \A d \in DOMAIN cbStore : d # b => cbStore'[d] = cbStore[d]
  BY <1>2, <1>5 DEF PutBoard
<1>10. ListsInv'
  <2>1. StoreFits(cbServer, cbStore')
    BY <1>1, <1>4, <1>5, <1>9 DEF ListsInv, StoreFits
  <2>2. LinkKeepsOthers'
    BY <1>1, <1>2, <1>8 DEF ListsInv, LinkKeepsOthers
  <2> QED BY <1>1, <1>2, <1>4, <1>8, <2>1, <2>2 DEF ListsInv
<1>11. StoreInv'
  <2>1. ASSUME cbPast'.open, ~cbPast'.failed
        PROVE  (\E i \in 1 .. Len(cbReqs') : cbReqs'[i].kind = "boards") \/ DOMAIN cbStore' = CbBoards
    BY <1>1, <1>2, <1>5, <1>8, <1>9, <2>1 DEF StoreInv
  <2>2. ASSUME ~cbPast'.failed, ~cbPast'.overtaken, NEW d \in CbBoards, ~NewsOf(cbNews', d)
        PROVE  RevIn(cbStore', d) = cbServer'[d].rev
    <3>1. NewsOf(cbNews, d) \/ RevIn(cbStore, d) = cbServer[d].rev
      BY <1>1, <1>8, <2>2 DEF StoreInv
    <3>2. CASE d = b
      BY <1>2, <1>4, <1>9, <2>2, <3>2 DEF RevIn
    <3>3. CASE d # b
      <4>1. RevIn(cbStore, d) = cbServer[d].rev
        BY <1>4, <2>2, <3>1, <3>3
      <4> QED BY <1>2, <1>9, <3>3, <4>1 DEF RevIn
    <3> QED BY <3>2, <3>3
  <2> QED BY <2>1, <2>2 DEF StoreInv
<1>12. /\ cbDialog' \in PanelDialogs /\ cbDialog'.results = found /\ cbDialog'.link = cbDialog.link
       /\ cbDialog'.query = cbDialog.query /\ cbDialog'.confirm = cbDialog.confirm
  BY <1>2, <1>6, <1>7 DEF PanelDialogs
<1>13. ASSUME ~cbPast'.overtaken, NEW d \in CbBoards, ~NewsOf(cbNews', d)
       PROVE  NewestIn(cbServer', d, cbDialog'.results) /\ AnswersNewest(cbServer', cbReqs', d)
  <2>1. NewsOf(cbNews, d) \/ (NewestIn(cbServer, d, cbDialog.results) /\ AnswersNewest(cbServer, cbReqs, d))
    BY <1>1, <1>8, <1>13 DEF ResultsInv
  <2>2. CASE d # b
    <3>1. NewestIn(cbServer, d, cbDialog.results) /\ AnswersNewest(cbServer, cbReqs, d)
      BY <1>4, <1>13, <2>1, <2>2
    <3>2. \A c \in found : c.id = d => c \in cbDialog.results
      BY <1>5, <1>7, <2>2
    <3>3. NewestIn(cbServer, d, found)
      BY <3>1, <3>2 DEF NewestIn
    <3> QED BY <1>2, <1>12, <3>1, <3>3
  <2>3. CASE d = b
    <3>1. board.rev = cbServer[d].rev
      BY <1>4, <1>13, <2>3
    <3>2. NewestIn(cbServer, d, found)
      BY <1>7, <2>3, <3>1 DEF NewestIn
    <3>3. ASSUME NEW i \in 1 .. Len(cbReqs), cbReqs[i].kind = "search", cbReqs[i].status = "ok",
                 NEW c \in cbReqs[i].answer, c.id = d
          PROVE  c.rev = cbServer[d].rev
      <4>1. i \in DOMAIN cbReqs /\ ~OlderResult(cbReqs[i].answer, board)
        <5>1. ~older
          BY <1>8, <1>13, Zenon
        <5>2. i \in DOMAIN cbReqs
          BY <1>3
        <5> QED BY <3>3, <5>1, <5>2 DEF older
      <4>2. ~(c.rev < board.rev)
        BY <1>5, <2>3, <3>3, <4>1 DEF OlderResult
      <4>3. HadAt(cbServer, c)
        BY <1>1, <3>3 DEF ListsInv, ReqFits, AnswerFits
      <4>4. c.rev \in Nat /\ c.rev <= cbServer[d].rev /\ cbServer[d].rev \in Nat
        <5>1. cbServer[d] \in BoardCopies
          BY <1>3, <1>13 DEF ServerFits
        <5> QED BY <3>3, <4>3, <5>1 DEF HadAt, BoardCopies
      <4> QED BY <3>1, <4>2, <4>4
    <3>4. AnswersNewest(cbServer, cbReqs, d)
      BY <3>3 DEF AnswersNewest, NewestIn
    <3> QED BY <1>2, <1>12, <3>2, <3>4
  <2> QED BY <2>2, <2>3
<1>14. ResultsInv'
  <2>1. \A c \in found : HadAt(cbServer', c)
    BY <1>1, <1>2, <1>4, <1>7 DEF ResultsInv
  <2>2. ASSUME ~cbPast'.failed, ~cbPast'.swapped, cbDialog'.link # ""
        PROVE  \/ LastOf(cbReqs', "search", cbDialog'.query)
               \/ NoneOf(cbReqs', "search") /\ {c.id : c \in cbDialog'.results} = CbMatches[cbDialog'.query]
    BY <1>1, <1>2, <1>7, <1>8, <1>12, <2>2 DEF ResultsInv
  <2> QED BY <1>1, <1>12, <1>13, <2>1, <2>2 DEF ResultsInv
<1>15. CardsInv' /\ UndoInv'
  BY <1>1, <1>2, <1>8 DEF CardsInv, UndoInv
<1>16. ClosedInv'
  BY <1>1, <1>2, <1>8 DEF ClosedInv
<1> QED BY <1>10, <1>11, <1>14, <1>15, <1>16 DEF PanelInv

----------------------------------------------------------------------------
LEMMA PanelInit == CbInit => PanelInv
<1> SUFFICES ASSUME CbInit PROVE PanelInv
  OBVIOUS
<1>1. /\ cbReqs = <<>> /\ cbNews = <<>> /\ cbUndo = <<>> /\ cbDialog = Closed
      /\ cbStore = [b \in {} |-> <<>>]
      /\ cbServer = [b \in CbBoards |-> [id |-> b, title |-> 0, channel |-> FirstChannel, rev |-> 0]]
      /\ cbPanel = [channel |-> FirstChannel, loaded |-> FALSE, selected |-> NoBoard, cards |-> NoBoard]
      /\ DOMAIN cbPast = PastFields /\ ~cbPast.open /\ cbPast.titles = [b \in CbBoards |-> 0]
  BY DEF CbInit, PastFields
<1>2. /\ cbReqs \in Seq(PanelReqs) /\ Len(cbReqs) = 0 /\ cbNews \in Seq(BoardCopies) /\ Len(cbNews) = 0 /\ cbUndo \in Seq(Links)
  BY <1>1
<1>3. DOMAIN cbStore = {}
  BY <1>1
<1>4. ServerFits(cbServer) /\ \A b \in CbBoards : cbServer[b].title = 0 /\ cbServer[b].rev = 0
  <2>1. ASSUME NEW b \in CbBoards PROVE [id |-> b, title |-> 0, channel |-> FirstChannel, rev |-> 0] \in BoardCopies
    <3>1. FirstChannel \in CbChannels
      BY BoardNames
    <3>2. 0 \in Int /\ 0 \in Nat
      OBVIOUS
    <3> QED BY <3>1, <3>2, Zenon DEF BoardCopies
  <2> QED BY <1>1, <2>1 DEF ServerFits
<1>5. ListsInv
  <2>1. LinkKeepsOthers
    BY <1>1, <1>4 DEF LinkKeepsOthers
  <2>2. StoreFits(cbServer, cbStore)
    BY <1>3 DEF StoreFits
  <2>3. NewsFits(cbServer, cbNews)
    BY <1>2 DEF NewsFits
  <2>4. DOMAIN cbPast.titles = CbBoards /\ \A i \in 1 .. Len(cbReqs) : FALSE
    BY <1>1, <1>2
  <2> QED BY <1>1, <1>2, <1>4, <2>1, <2>2, <2>3, <2>4 DEF ListsInv
<1>6. StoreInv
  BY <1>1, <1>3, <1>4 DEF StoreInv, RevIn
<1>7. cbDialog.link = "" /\ cbDialog.results = {} /\ cbDialog.confirm = <<>>
  BY <1>1 DEF Closed
<1>8. ResultsInv
  <2>1. cbDialog \in PanelDialogs
    <3>1. <<>> \in Seq(BoardCopies) /\ {} \in SUBSET BoardCopies /\ <<>> \in Seq(DOMAIN CbMatches)
      OBVIOUS
    <3> QED BY <1>1, <3>1, BoardNames DEF Closed, PanelDialogs
  <2>2. \A b \in CbBoards : NewestIn(cbServer, b, cbDialog.results) /\ AnswersNewest(cbServer, cbReqs, b)
    <3>1. \A i \in 1 .. Len(cbReqs) : FALSE
      BY <1>2
    <3> QED BY <1>7, <3>1 DEF NewestIn, AnswersNewest
  <2> QED BY <1>7, <2>1, <2>2 DEF ResultsInv
<1>9. CardsInv /\ cbPanel.selected = NoBoard /\ ~cbPanel.loaded
  BY <1>1, BoardNames DEF CardsInv, PanelViews
<1>10. UndoInv /\ ClosedInv
  BY <1>1, <1>2, <1>3, <1>9 DEF UndoInv, ClosedInv
<1> QED BY <1>5, <1>6, <1>8, <1>9, <1>10 DEF PanelInv

LEMMA PanelStep == ASSUME PanelInv, CbNext  PROVE PanelInv'
BY PanelOpens, ChannelChanges, BoardShown, BoardsShown, LinkStarts, TextTyped, TextSearched, BoardLinked, BoardUnlinked,
   PanelUnlinked, DialogCloses, ConfirmCancelled, PatchUndone, RequestTaken, OthersLink, AnswerArrives, NewsArrives
   DEF CbNext

LEMMA PanelStill == ASSUME PanelInv, UNCHANGED cbVars  PROVE PanelInv'
BY DEF PanelInv, cbVars, ListsInv, StoreInv, ResultsInv, CardsInv, UndoInv, ClosedInv, LinkKeepsOthers

\* The invariant says what the panel and the dialog have to show.
LEMMA PanelShown ==
  ASSUME PanelInv
  PROVE  CbTypeOK /\ PanelListsLinked /\ ResultsAreFor /\ LinkKeepsOthers /\ CardsOfSelected
<1>1. /\ ListsInv /\ StoreInv /\ ResultsInv /\ CardsInv
  BY DEF PanelInv
<1>2. ServerFits(cbServer) /\ \A b \in CbBoards : cbServer[b].channel \in CbChannels \cup {""}
  BY <1>1 DEF ListsInv, ServerFits, BoardCopies
<1>3. CbTypeOK
  BY <1>1, <1>2 DEF CbTypeOK, ListsInv, ServerFits, StoreFits, ResultsInv, PanelDialogs, CardsInv, PanelViews
<1>4. ASSUME CbSettled PROVE (\A i \in 1 .. Len(cbReqs) : FALSE) /\ ~cbPast.failed /\ ~cbPast.overtaken /\ \A b : ~NewsOf(cbNews, b)
  <2>1. cbReqs = <<>> /\ cbNews = <<>> /\ ~cbPast.failed /\ ~cbPast.overtaken
    BY <1>4 DEF CbSettled
  <2>2. (\A i \in 1 .. Len(cbReqs) : FALSE) /\ Len(cbNews) = 0
    BY <2>1
  <2> QED BY <2>1, <2>2 DEF NewsOf
<1>5. PanelListsLinked
  <2> SUFFICES ASSUME CbSettled, cbPast.open, NEW b \in CbBoards
               PROVE  b \in DOMAIN cbStore /\ cbStore[b].channel = cbServer[b].channel
    BY DEF PanelListsLinked
  <2>1. DOMAIN cbStore = CbBoards
    BY <1>1, <1>4 DEF StoreInv
  <2>2. cbStore[b].rev = cbServer[b].rev
    BY <1>1, <1>4, <2>1 DEF StoreInv, RevIn
  <2>3. cbStore[b].id = b /\ HadAt(cbServer, cbStore[b])
    BY <1>1, <2>1 DEF ListsInv, StoreFits
  <2> QED BY <2>1, <2>2, <2>3 DEF HadAt
<1>6. ResultsAreFor
  <2> SUFFICES ASSUME CbSettled, ~cbPast.swapped, cbDialog.link # ""
               PROVE  /\ {r.id : r \in cbDialog.results} = CbMatches[cbDialog.query]
                      /\ \A r \in cbDialog.results : r.channel = cbServer[r.id].channel
    BY DEF ResultsAreFor
  <2>1. ~LastOf(cbReqs, "search", cbDialog.query)
    BY <1>4 DEF LastOf
  <2>2. {r.id : r \in cbDialog.results} = CbMatches[cbDialog.query]
    BY <1>1, <1>4, <2>1 DEF ResultsInv
  <2>3. ASSUME NEW r \in cbDialog.results PROVE r.channel = cbServer[r.id].channel
    <3>1. HadAt(cbServer, r) /\ r.id \in CbBoards
      BY <1>1 DEF ResultsInv, HadAt, BoardCopies
    <3>2. r.rev = cbServer[r.id].rev
      BY <1>1, <1>4, <3>1 DEF ResultsInv, NewestIn
    <3> QED BY <3>1, <3>2 DEF HadAt
  <2> QED BY <2>2, <2>3
<1>7. CardsOfSelected
  <2> SUFFICES ASSUME cbReqs = <<>>, ~cbPast.failed, ~cbPast.swapped, cbPanel.selected # NoBoard PROVE PanelShows = "cards"
    BY DEF CardsOfSelected
  <2>1. ~LastOf(cbReqs, "cards", cbPanel.selected)
    BY DEF LastOf
  <2>2. cbPanel.cards = cbPanel.selected
    BY <1>1, <2>1 DEF CardsInv
  <2> QED BY <2>2 DEF PanelShows
<1> QED BY <1>1, <1>3, <1>5, <1>6, <1>7 DEF ListsInv

(***************************************************************************)
(* The tour: TourGoesOn.                                                    *)
(*                                                                          *)
(* The server takes the requests in their order, so that the last one taken *)
(* knows what the server keeps.  The requests of the welcome page are under *)
(* way alone, and one that starts a tour is the only one unless clicks were *)
(* mixed.  The server is at least as far as a copy that has a tip, which is *)
(* why a step that is sent alone makes a place that has one.                *)
(***************************************************************************)
Viewing == [NoPatch EXCEPT !.viewed = "1"]
TipPatches == {StepTo(s) : s \in 0 .. 2} \cup {MoveOnTo(c, 0) : c \in {TOUR_CARD, TOUR_BOARD, TOUR_SIDEBAR}}
                \cup {MoveOnTo(TOUR_SIDEBAR, FINISHED)}
TourPatches == {NoPatch, Viewing, RestartTour(TOUR_BASE), RestartTour("onboarding")} \cup TipPatches
TourReqs ==
  [kind : {"patch", "prepare", "fetch"}, patch : TourPatches,
   then : {"none", "startTour", "skipTour", "skipped", "prepared", "productTour", "goToTour", "goNowhere"},
   status : {"sent", "ok", "failed"}, answer : Seq(Preferences)]

\* What a request is follows from what comes after it.
TourFits(r) ==
  /\ r \in TourReqs
  /\ r.then \in {"startTour", "skipTour"} => r.kind = "patch" /\ r.patch = Viewing
  /\ r.then = "skipped"     => r.kind = "patch" /\ r.patch = MoveOnTo(TOUR_SIDEBAR, FINISHED)
  /\ r.then = "productTour" => r.kind = "patch" /\ r.patch = RestartTour("onboarding")
  /\ r.then = "none"        => r.kind = "patch" /\ r.patch \in TipPatches \cup {RestartTour(TOUR_BASE)}
  /\ r.then = "prepared"    => r.kind = "prepare"
  /\ r.then = "goToTour"    => r.kind \in {"prepare", "fetch"}
  /\ r.then = "goNowhere"   => r.kind = "fetch"
  /\ r.kind # "patch"       => r.patch = NoPatch
  /\ r.kind = "fetch"       => r.status # "failed"
  /\ r.status = "ok"        => r.answer \in {<<cfg>> : cfg \in Preferences}

\* The request at i is the last one that the server has taken.
ServedEnd(i) == trReqs[i].status # "sent" /\ (i < Len(trReqs) => trReqs[i + 1].status = "sent")

\* Requests are taken in their order, so that the last one taken knows what the
\* server keeps.
TourTypes ==
  /\ TrTypeOK
  /\ trReqs \in Seq(TourReqs) /\ \A i \in 1 .. Len(trReqs) : TourFits(trReqs[i])
  /\ trPast \in [races : Nat, failed : BOOLEAN, ended : BOOLEAN, mixed : BOOLEAN, jumped : BOOLEAN]
  /\ \A i, j \in 1 .. Len(trReqs) : i < j /\ trReqs[j].status # "sent" => trReqs[i].status # "sent"
  /\ \A i \in 1 .. Len(trReqs) : ServedEnd(i) /\ trReqs[i].status = "ok" /\ trReqs[i].kind # "prepare" =>
                                   trReqs[i].answer = <<trServer>>
  /\ \A i \in 1 .. Len(trReqs) : trReqs[i].status = "failed" \/ trReqs[i].then = "goNowhere" => trPast.failed
  /\ trPage = "none" => trReqs = <<>>
  /\ trPage \in {"board", "card", "other"} => trLocal.viewed
  /\ trPage = "lost" => trPast.failed

\* Who waits has one request under way at most, and so has who did not jump;
\* one that starts a tour is the only one, unless they were mixed.
OneRequest ==
  /\ trPast.races = 0 \/ ~trPast.jumped => Len(trReqs) <= 1
  /\ ~trPast.mixed => \A i \in 1 .. Len(trReqs) : Restarts(trReqs[i]) /\ trReqs[i].then # "prepared" => Len(trReqs) = 1

----------------------------------------------------------------------------
LEMMA OrderIs == ToSet(TOUR_ORDER) = {"base", "card", "board", "sidebar"}
BY DEF ToSet, TOUR_ORDER, TOUR_BASE, TOUR_CARD, TOUR_BOARD, TOUR_SIDEBAR

TourCategories == {"", "onboarding"} \cup ToSet(TOUR_ORDER)
LEMMA CategoriesAre == {"onboarding", "base", "card", "board", "sidebar"} \subseteq TourCategories
BY OrderIs, Zenon DEF TourCategories
LEMMA PreferencesAre ==
  Preferences = [viewed : BOOLEAN, started : BOOLEAN, category : TourCategories, step : {NoStep, 0, 1, 2, FINISHED}]
BY Zenon DEF Preferences, TourCategories

\* The fields of the patches, and what they make of the preferences.
LEMMA PatchIs ==
  /\ Viewing.viewed = "1" /\ Viewing.started = "keep" /\ Viewing.category = "keep" /\ Viewing.step = <<>>
  /\ NoPatch.viewed = "keep" /\ NoPatch.started = "keep" /\ NoPatch.category = "keep" /\ NoPatch.step = <<>>
  /\ \A s : StepTo(s).viewed = "keep" /\ StepTo(s).started = "keep" /\ StepTo(s).category = "keep" /\ StepTo(s).step = <<s>>
  /\ \A c, s : /\ MoveOnTo(c, s).viewed = "keep" /\ MoveOnTo(c, s).started = "keep"
               /\ MoveOnTo(c, s).category = c /\ MoveOnTo(c, s).step = <<s>>
  /\ \A c : /\ RestartTour(c).viewed = "keep" /\ RestartTour(c).started = "1"
            /\ RestartTour(c).category = c /\ RestartTour(c).step = <<0>>
<1>1. Viewing.viewed = "1" /\ Viewing.started = "keep" /\ Viewing.category = "keep" /\ Viewing.step = <<>>
  BY DEF Viewing, NoPatch, Kept
<1>2. NoPatch.viewed = "keep" /\ NoPatch.started = "keep" /\ NoPatch.category = "keep" /\ NoPatch.step = <<>>
  BY DEF NoPatch, Kept
<1>3. ASSUME NEW s
      PROVE  StepTo(s).viewed = "keep" /\ StepTo(s).started = "keep" /\ StepTo(s).category = "keep" /\ StepTo(s).step = <<s>>
  BY DEF StepTo, NoPatch, Kept
<1>4. ASSUME NEW c, NEW s
      PROVE  /\ MoveOnTo(c, s).viewed = "keep" /\ MoveOnTo(c, s).started = "keep"
             /\ MoveOnTo(c, s).category = c /\ MoveOnTo(c, s).step = <<s>>
  BY DEF MoveOnTo, NoPatch, Kept
<1>5. ASSUME NEW c
      PROVE  /\ RestartTour(c).viewed = "keep" /\ RestartTour(c).started = "1"
             /\ RestartTour(c).category = c /\ RestartTour(c).step = <<0>>
  BY DEF RestartTour, NoPatch, Kept
<1> QED BY <1>1, <1>2, <1>3, <1>4, <1>5

LEMMA PatchDoes ==
  ASSUME NEW cfg \in Preferences, NEW p, p.viewed \in {"keep", "1"}, p.started \in {"keep", "1"},
         p.step = <<>> \/ \E s \in {0, 1, 2, FINISHED} : p.step = <<s>>,
         p.category \in {"keep", "onboarding", "base", "card", "board", "sidebar"}
  PROVE  /\ PatchedConfig(cfg, p) \in Preferences
         /\ PatchedConfig(cfg, p).viewed <=> (cfg.viewed \/ p.viewed # "keep")
         /\ PatchedConfig(cfg, p).started <=> (cfg.started \/ p.started # "keep")
         /\ PatchedConfig(cfg, p).category = IF p.category = "keep" THEN cfg.category ELSE p.category
         /\ PatchedConfig(cfg, p).step = IF p.step = <<>> THEN cfg.step ELSE p.step[1]
<1> DEFINE q == PatchedConfig(cfg, p)
           viewed == IF p.viewed = Kept THEN cfg.viewed ELSE TRUE
           started == IF p.started = Kept THEN cfg.started ELSE TRUE
           category == IF p.category = Kept THEN cfg.category ELSE p.category
           step == IF p.step = <<>> THEN cfg.step ELSE p.step[1]
<1>1. q = [viewed |-> viewed, started |-> started, category |-> category, step |-> step]
  BY Zenon DEF PatchedConfig
<1>2. /\ cfg.viewed \in BOOLEAN /\ cfg.started \in BOOLEAN
      /\ cfg.category \in TourCategories /\ cfg.step \in {NoStep, 0, 1, 2, FINISHED}
  BY PreferencesAre
<1>4. viewed \in BOOLEAN /\ (viewed <=> (cfg.viewed \/ p.viewed # Kept))
  BY <1>2, Zenon
<1>5. started \in BOOLEAN /\ (started <=> (cfg.started \/ p.started # Kept))
  BY <1>2, Zenon
<1>6. category \in TourCategories
  BY <1>2, CategoriesAre DEF Kept
<1>7. step \in {NoStep, 0, 1, 2, FINISHED}
  <2>1. CASE p.step = <<>>
    BY <2>1, <1>2
  <2>2. CASE \E s \in {0, 1, 2, FINISHED} : p.step = <<s>>
    <3> PICK s \in {0, 1, 2, FINISHED} : p.step = <<s>>
      BY <2>2
    <3>1. p.step # <<>> /\ p.step[1] = s
      OBVIOUS
    <3> QED BY <3>1
  <2> QED BY <2>1, <2>2
<1> HIDE DEF viewed, started, category, step
<1>8. q \in Preferences
  BY <1>1, <1>4, <1>5, <1>6, <1>7, PreferencesAre
<1>9. q.viewed = viewed /\ q.started = started /\ q.category = category /\ q.step = step
  BY <1>1
<1>10. /\ q.viewed <=> (cfg.viewed \/ p.viewed # "keep")
       /\ q.started <=> (cfg.started \/ p.started # "keep")
  BY <1>4, <1>5, <1>9, Zenon DEF Kept
<1>11. /\ q.category = IF p.category = "keep" THEN cfg.category ELSE p.category
       /\ q.step = IF p.step = <<>> THEN cfg.step ELSE p.step[1]
  BY <1>9, Zenon DEF category, step, Kept
<1> QED BY <1>8, <1>10, <1>11, Zenon

LEMMA IndexIs ==
  PlaceIndex("base") = 1 /\ PlaceIndex("card") = 2 /\ PlaceIndex("board") = 3 /\ PlaceIndex("sidebar") = 4
BY DEF PlaceIndex, TOUR_ORDER, TOUR_BASE, TOUR_CARD, TOUR_BOARD, TOUR_SIDEBAR

LEMMA NextIs ==
  /\ NextTour("base") = MoveOnTo("card", 0) /\ NextTour("card") = MoveOnTo("board", 0)
  /\ NextTour("board") = MoveOnTo("sidebar", 0) /\ NextTour("sidebar") = MoveOnTo("sidebar", FINISHED)
<1>1. ASSUME NEW c \in ToSet(TOUR_ORDER)
      PROVE  NextTour(c) = IF PlaceIndex(c) = 4 THEN MoveOnTo(c, FINISHED) ELSE MoveOnTo(TOUR_ORDER[PlaceIndex(c) + 1], 0)
  BY DEF NextTour, PlaceIndex, TOUR_ORDER
<1> QED BY <1>1, OrderIs, IndexIs DEF TOUR_ORDER, TOUR_BASE, TOUR_CARD, TOUR_BOARD, TOUR_SIDEBAR

\* The tips and the steps.
LEMMA TipsAre ==
  ASSUME NEW t \in TourTips
  PROVE  /\ t.category \in {"base", "card", "board", "sidebar"} /\ t.step \in 0 .. 2
         /\ t.category = "base" => t.step = 0 /\ t.hideNavButtons /\ t.pages = {"board"}
         /\ "none" \notin t.pages /\ "lost" \notin t.pages /\ "welcome" \notin t.pages
         /\ TourSteps[t.category] = IF t.category = "base" THEN {0} ELSE 0 .. 2
<1>1. TourTips = {OpenCardTourStep, AddPropertiesTourStep, AddCommentTourStep, AddDescriptionTourStep,
         AddViewTourStep, CopyLinkTourStep, ShareBoardTourStep,
         SidebarCategoriesTourStep, ManageCategoriesTourStep, SearchForBoardsTourStep}
  BY DEF TourTips
<1>2. /\ t.category \in {"base", "card", "board", "sidebar"} /\ t.step \in 0 .. 2
      /\ t.category = "base" => t.step = 0 /\ t.hideNavButtons /\ t.pages = {"board"}
  BY <1>1 DEF TourTip, OpenCardTourStep, AddPropertiesTourStep, AddCommentTourStep, AddDescriptionTourStep,
         AddViewTourStep, CopyLinkTourStep, ShareBoardTourStep,
         SidebarCategoriesTourStep, ManageCategoriesTourStep, SearchForBoardsTourStep,
         TOUR_BASE, TOUR_CARD, TOUR_BOARD, TOUR_SIDEBAR
<1>3. "none" \notin t.pages /\ "lost" \notin t.pages /\ "welcome" \notin t.pages
  BY <1>1 DEF TourTip, OpenCardTourStep, AddPropertiesTourStep, AddCommentTourStep, AddDescriptionTourStep,
         AddViewTourStep, CopyLinkTourStep, ShareBoardTourStep,
         SidebarCategoriesTourStep, ManageCategoriesTourStep, SearchForBoardsTourStep,
         TOUR_BASE, TOUR_CARD, TOUR_BOARD, TOUR_SIDEBAR
<1>4. TourSteps[t.category] = IF t.category = "base" THEN {0} ELSE 0 .. 2
  BY <1>2 DEF TourSteps, TOUR_BASE, TOUR_CARD, TOUR_BOARD, TOUR_SIDEBAR
<1> QED BY <1>2, <1>3, <1>4

LEMMA EveryPlaceHasATip ==
  ASSUME NEW c \in {"base", "card", "board", "sidebar"}, NEW s \in 0 .. 2, c = "base" => s = 0
  PROVE  <<c, s>> \in TipPlaces
<1>1. \/ c = "base" /\ s = 0
      \/ c \in {"card", "board", "sidebar"} /\ s \in {0, 1, 2}
  OBVIOUS
<1>2. \E t \in TourTips : t.category = c /\ t.step = s
  BY <1>1 DEF TourTips, TourTip, OpenCardTourStep, AddPropertiesTourStep, AddCommentTourStep, AddDescriptionTourStep,
         AddViewTourStep, CopyLinkTourStep, ShareBoardTourStep,
         SidebarCategoriesTourStep, ManageCategoriesTourStep, SearchForBoardsTourStep,
         TOUR_BASE, TOUR_CARD, TOUR_BOARD, TOUR_SIDEBAR
<1> QED BY <1>2 DEF TipPlaces

LEMMA LastStepIs == ASSUME NEW t \in TourTips, t.category # "base"  PROVE GetLastStep(t.category) = 2
<1>1. TourSteps[t.category] = 0 .. 2
  BY TipsAre
<1> QED BY <1>1 DEF GetLastStep

\* A tip that is shown stands at the place in the copy.
LEMMA ShownAt ==
  ASSUME NEW cfg \in Preferences, NEW page, NEW t \in TourTipRenderer(cfg, page)
  PROVE  /\ t \in TourTips /\ cfg.started /\ t.category = cfg.category /\ t.step = cfg.step /\ page \in t.pages
         /\ PlaceOf(cfg) = <<t.category, t.step>>
BY DEF TourTipRenderer, PlaceOf

LEMMA ReqFacts ==
  ASSUME NEW r, TourFits(r)
  PROVE  /\ r.kind \in {"patch", "prepare", "fetch"} /\ r.status \in {"sent", "ok", "failed"}
         /\ r.kind = "patch" => r.then \in {"none", "startTour", "skipTour", "skipped", "productTour"}
         /\ r.kind = "prepare" => r.then \in {"prepared", "goToTour"} /\ Restarts(r)
         /\ r.kind = "fetch" => r.then \in {"goToTour", "goNowhere"} /\ ~Restarts(r)
         /\ r.then \in {"startTour", "skipTour", "skipped"} => ~Restarts(r)
         /\ r.then = "productTour" => Restarts(r)
         /\ r.then = "none" => \/ r.patch \in TipPatches /\ ~Restarts(r)
                               \/ r.patch = RestartTour(TOUR_BASE) /\ Restarts(r)
<1>1. /\ r.kind \in {"patch", "prepare", "fetch"} /\ r.status \in {"sent", "ok", "failed"}
      /\ r.then \in {"none", "startTour", "skipTour", "skipped", "prepared", "productTour", "goToTour", "goNowhere"}
  BY DEF TourFits, TourReqs
<1>2. \A p \in TipPatches \cup {Viewing, NoPatch} : p.started = "keep"
  <2>1. \A p \in TipPatches : (\E s : p = StepTo(s)) \/ \E c, s : p = MoveOnTo(c, s)
    BY Zenon DEF TipPatches
  <2>2. \A p \in TipPatches : p.started = "keep"
    BY PatchIs, <2>1
  <2>3. Viewing.started = "keep" /\ NoPatch.started = "keep"
    BY PatchIs
  <2> QED BY <2>2, <2>3
<1>3. \A c : RestartTour(c).started # "keep"
  <2>1. "1" # "keep"
    OBVIOUS
  <2> QED BY PatchIs, <2>1, Zenon
<1>4. MoveOnTo(TOUR_SIDEBAR, FINISHED) \in TipPatches
  BY Zenon DEF TipPatches
<1>5. Restarts(r) <=> (r.patch.started # "keep" \/ r.kind = "prepare")
  BY Zenon DEF Restarts, Kept
<1>6. r.kind = "patch" => r.then \in {"none", "startTour", "skipTour", "skipped", "productTour"}
  BY <1>1 DEF TourFits
<1>7. r.kind = "prepare" => r.then \in {"prepared", "goToTour"} /\ Restarts(r)
  BY <1>1, <1>5 DEF TourFits
<1>8. r.kind = "fetch" => r.then \in {"goToTour", "goNowhere"} /\ ~Restarts(r)
  BY <1>1, <1>2, <1>5 DEF TourFits
<1>9. r.then \in {"startTour", "skipTour", "skipped"} => ~Restarts(r)
  BY <1>1, <1>2, <1>4, <1>5 DEF TourFits
<1>10. r.then = "productTour" => Restarts(r)
  BY <1>3, <1>5 DEF TourFits
<1>11. r.then = "none" => \/ r.patch \in TipPatches /\ ~Restarts(r)
                          \/ r.patch = RestartTour(TOUR_BASE) /\ Restarts(r)
  BY <1>2, <1>3, <1>5 DEF TourFits
<1> QED BY <1>1, <1>6, <1>7, <1>8, <1>9, <1>10, <1>11

\* What the server makes of the preferences.
TourEffect(cfg, r) ==
  CASE r.kind = "patch"   -> PatchedConfig(cfg, r.patch)
    [] r.kind = "prepare" -> PrepareOnboardingTour(cfg)
    [] r.kind = "fetch"   -> cfg

LEMMA EffectIs ==
  ASSUME NEW cfg \in Preferences, NEW r, TourFits(r), NEW q, q = TourEffect(cfg, r)
  PROVE  /\ q \in Preferences
         /\ q.viewed <=> cfg.viewed \/ r.then \in {"startTour", "skipTour"}
         /\ r.then \in {"startTour", "skipTour"} \/ r.kind = "fetch" =>
              q.category = cfg.category /\ q.step = cfg.step
         /\ r.then = "skipped" => q.category = "sidebar" /\ q.step = FINISHED
         /\ r.kind = "prepare" => q.category = "base" /\ q.step = 0
         /\ r.then = "productTour" => q.category = "onboarding" /\ q.step = 0
         /\ r.then = "none" =>
              \/ r.patch = RestartTour(TOUR_BASE) /\ q.category = "base" /\ q.step = 0
              \/ \E s \in 0 .. 2 : r.patch = StepTo(s) /\ q.category = cfg.category /\ q.step = s
              \/ \E c \in {"card", "board", "sidebar"} :
                   r.patch = MoveOnTo(c, 0) /\ q.category = c /\ q.step = 0
              \/ /\ r.patch = MoveOnTo("sidebar", FINISHED)
                 /\ q.category = "sidebar" /\ q.step = FINISHED
<1>0. \A s : <<s>> # <<>> /\ <<s>>[1] = s
  OBVIOUS
<1>1. ASSUME NEW p, r.kind = "patch", r.patch = p, p.viewed \in {"keep", "1"}, p.started \in {"keep", "1"},
             p.step = <<>> \/ \E s \in {0, 1, 2, FINISHED} : p.step = <<s>>,
             p.category \in {"keep", "onboarding", "base", "card", "board", "sidebar"}
      PROVE  /\ q \in Preferences /\ (q.viewed <=> cfg.viewed \/ p.viewed # "keep")
             /\ q.category = IF p.category = "keep" THEN cfg.category ELSE p.category
             /\ q.step = IF p.step = <<>> THEN cfg.step ELSE p.step[1]
  <2>1. q = PatchedConfig(cfg, p)
    BY <1>1 DEF TourEffect
  <2> QED BY <1>1, <2>1, PatchDoes
<1>2. CASE r.then \in {"startTour", "skipTour"}
  <2>1. r.kind = "patch" /\ r.patch = Viewing
    BY <1>2 DEF TourFits
  <2>2. q \in Preferences /\ (q.viewed <=> cfg.viewed \/ Viewing.viewed # "keep") /\ q.category = cfg.category /\ q.step = cfg.step
    BY <1>1, <2>1, PatchIs
  <2>3. Viewing.viewed # "keep"
    BY PatchIs
  <2> QED BY <1>2, <2>1, <2>2, <2>3
<1>3. ASSUME NEW c \in {"card", "board", "sidebar"}, NEW s \in {0, FINISHED}, r.kind = "patch", r.patch = MoveOnTo(c, s)
      PROVE  q \in Preferences /\ (q.viewed <=> cfg.viewed) /\ q.category = c /\ q.step = s
  <2> DEFINE p == MoveOnTo(c, s)
  <2>1. p.viewed = "keep" /\ p.started = "keep" /\ p.category = c /\ p.step = <<s>>
    BY PatchIs
  <2>2. r.patch = p /\ c # "keep" /\ c \in {"keep", "onboarding", "base", "card", "board", "sidebar"}
    BY <1>3
  <2> HIDE DEF p
  <2>3. q \in Preferences /\ (q.viewed <=> cfg.viewed \/ p.viewed # "keep") /\ q.category = c /\ q.step = s
    BY <1>0, <1>1, <1>3, <2>1, <2>2
  <2> QED BY <2>1, <2>3
<1>4. ASSUME NEW c \in {"base", "onboarding"}, r.kind = "patch", r.patch = RestartTour(c)
      PROVE  q \in Preferences /\ (q.viewed <=> cfg.viewed) /\ q.category = c /\ q.step = 0
  <2> DEFINE p == RestartTour(c)
  <2>1. p.viewed = "keep" /\ p.started = "1" /\ p.category = c /\ p.step = <<0>>
    BY PatchIs
  <2>2. r.patch = p /\ c # "keep" /\ c \in {"keep", "onboarding", "base", "card", "board", "sidebar"}
    BY <1>4
  <2> HIDE DEF p
  <2>3. p.viewed \in {"keep", "1"} /\ p.started \in {"keep", "1"} /\ \E s \in {0, 1, 2, FINISHED} : p.step = <<s>>
    BY <2>1
  <2>4. p.category \in {"keep", "onboarding", "base", "card", "board", "sidebar"} /\ p.category # "keep" /\ p.step # <<>>
    BY <1>0, <2>1, <2>2
  <2>5. /\ q \in Preferences /\ (q.viewed <=> cfg.viewed \/ p.viewed # "keep")
        /\ q.category = IF p.category = "keep" THEN cfg.category ELSE p.category
        /\ q.step = IF p.step = <<>> THEN cfg.step ELSE p.step[1]
    BY <1>1, <1>4, <2>2, <2>3, <2>4
  <2>6. q \in Preferences /\ (q.viewed <=> cfg.viewed \/ p.viewed # "keep") /\ q.category = c /\ q.step = 0
    BY <1>0, <2>1, <2>4, <2>5
  <2> QED BY <2>1, <2>6
<1>5. ASSUME NEW s \in 0 .. 2, r.kind = "patch", r.patch = StepTo(s)
      PROVE  q \in Preferences /\ (q.viewed <=> cfg.viewed) /\ q.category = cfg.category /\ q.step = s
  <2> DEFINE p == StepTo(s)
  <2>1. p.viewed = "keep" /\ p.started = "keep" /\ p.category = "keep" /\ p.step = <<s>>
    BY PatchIs
  <2>2. r.patch = p /\ s \in {0, 1, 2, FINISHED}
    BY <1>5
  <2> HIDE DEF p
  <2>3. q \in Preferences /\ (q.viewed <=> cfg.viewed \/ p.viewed # "keep") /\ q.category = cfg.category /\ q.step = s
    BY <1>0, <1>1, <1>5, <2>1, <2>2
  <2> QED BY <2>1, <2>3
<1>6. CASE r.kind = "prepare"
  <2>1. q = [cfg EXCEPT !.started = TRUE, !.category = "base", !.step = 0]
    BY <1>6 DEF TourEffect, PrepareOnboardingTour, TOUR_BASE
  <2>2. r.then \in {"prepared", "goToTour"}
    BY <1>6, ReqFacts
  <2>3. q \in Preferences
    BY <2>1, PreferencesAre, CategoriesAre
  <2>4. q.viewed = cfg.viewed /\ q.category = "base" /\ q.step = 0
    BY <2>1, PreferencesAre
  <2> QED BY <1>6, <2>2, <2>3, <2>4
<1>7. CASE r.kind = "fetch"
  <2>1. q = cfg
    BY <1>7 DEF TourEffect
  <2>2. r.then \in {"goToTour", "goNowhere"}
    BY <1>7, ReqFacts
  <2> QED BY <1>7, <2>1, <2>2
<1>8. CASE r.then = "skipped"
  <2>1. r.kind = "patch" /\ r.patch = MoveOnTo("sidebar", FINISHED)
    BY <1>8 DEF TourFits, TOUR_SIDEBAR
  <2> QED BY <1>3, <1>8, <2>1
<1>9. CASE r.then = "productTour"
  <2>1. r.kind = "patch" /\ r.patch = RestartTour("onboarding")
    BY <1>9 DEF TourFits
  <2> QED BY <1>4, <1>9, <2>1
<1>10. CASE r.then = "none"
  <2>1. r.kind = "patch"
    BY <1>10 DEF TourFits
  <2>2. \/ r.patch = RestartTour("base")
        \/ \E s \in 0 .. 2 : r.patch = StepTo(s)
        \/ \E c \in {"card", "board", "sidebar"} : r.patch = MoveOnTo(c, 0)
        \/ r.patch = MoveOnTo("sidebar", FINISHED)
    BY <1>10, Zenon DEF TourFits, TipPatches, TOUR_BASE, TOUR_CARD, TOUR_BOARD, TOUR_SIDEBAR
  <2>3. CASE r.patch = RestartTour("base")
    BY <1>4, <1>10, <2>1, <2>3 DEF TOUR_BASE
  <2>4. ASSUME NEW s \in 0 .. 2, r.patch = StepTo(s)
        PROVE  q \in Preferences /\ (q.viewed <=> cfg.viewed) /\ q.category = cfg.category /\ q.step = s
    BY <1>5, <2>1, <2>4
  <2>5. ASSUME NEW c \in {"card", "board", "sidebar"}, r.patch = MoveOnTo(c, 0)
        PROVE  q \in Preferences /\ (q.viewed <=> cfg.viewed) /\ q.category = c /\ q.step = 0
    BY <1>3, <2>1, <2>5
  <2>6. CASE r.patch = MoveOnTo("sidebar", FINISHED)
    BY <1>3, <1>10, <2>1, <2>6
  <2> QED BY <1>10, <2>1, <2>2, <2>3, <2>4, <2>5, <2>6
<1> QED BY <1>2, <1>6, <1>7, <1>8, <1>9, <1>10, ReqFacts

----------------------------------------------------------------------------
\* The clicks that send a request, with what the copy says where they are made.
TourClick(r, jumps) ==
  \/ trPage = "welcome" /\ r.then = "startTour"
  \/ trPage = "welcome" /\ r.then = "skipTour" /\ jumps
  \/ /\ r.then = "none"
     /\ \E t \in TipsShown, s \in 0 .. 2 :
          r.patch = StepTo(s) /\ (t.category = "base" => s = 0) /\ (jumps \/ s <= t.step + 1)
  \/ /\ r.then = "none"
     /\ \E t \in TipsShown : r.patch = NextTour(t.category) /\ (jumps \/ (t.category # "base" /\ t.step = 2))
  \/ /\ r.then = "none" /\ r.patch = MoveOnTo("card", 0)
     /\ trPage = "board" /\ trLocal.started /\ PlaceOf(trLocal) = <<"base", 0>>
  \/ /\ r.then = "none" /\ r.patch = MoveOnTo("sidebar", 0)
     /\ trPage \in {"board", "card", "other"} /\ PlaceOf(trLocal) = <<"board", FINISHED>>
  \/ r.then = "none" /\ r.patch = RestartTour(TOUR_BASE) /\ trPage \in {"board", "card", "other"}
  \/ r.then = "productTour" /\ trPage \in {"board", "card", "other"}

TourSeen ==
  /\ trHidden' \in BOOLEAN
  /\ \/ UNCHANGED <<trPage, trSeen>>
     \/ trPage \in {"board", "card", "other"} /\ \E page \in {"board", "card", "other"} : ShowsTour(trLocal, page)

TourSent ==
  /\ \E r, jumps : /\ TourFits(r) /\ r.status = "sent" /\ r.answer = <<>>
                   /\ SendPreferences(r, jumps) /\ TourClick(r, jumps)
  /\ UNCHANGED <<trServer, trLocal>> /\ TourSeen

TourLooked == UNCHANGED <<trServer, trLocal, trReqs, trPast>> /\ TourSeen

LEMMA SentFits ==
  /\ \A p \in TipPatches \cup {RestartTour(TOUR_BASE)} : TourFits(TourReq("patch", p, "none"))
  /\ \A then \in {"startTour", "skipTour"} : TourFits(TourReq("patch", Viewing, then))
  /\ TourFits(TourReq("patch", RestartTour("onboarding"), "productTour"))
  /\ TourFits(TourReq("patch", MoveOnTo(TOUR_SIDEBAR, FINISHED), "skipped"))
  /\ TourFits(TourReq("prepare", NoPatch, "prepared")) /\ TourFits(TourReq("prepare", NoPatch, "goToTour"))
  /\ TourFits(TourReq("fetch", NoPatch, "goToTour")) /\ TourFits(TourReq("fetch", NoPatch, "goNowhere"))
<1>1. TipPatches \cup {NoPatch, Viewing, RestartTour(TOUR_BASE), RestartTour("onboarding"), MoveOnTo(TOUR_SIDEBAR, FINISHED)}
        \subseteq TourPatches
  BY Zenon DEF TourPatches, TipPatches
<1>2. <<>> \in Seq(Preferences)
  OBVIOUS
<1>3. ASSUME NEW kind \in {"patch", "prepare", "fetch"}, NEW p \in TourPatches,
             NEW then \in {"none", "startTour", "skipTour", "skipped", "prepared", "productTour", "goToTour", "goNowhere"}
      PROVE  LET r == TourReq(kind, p, then) IN
             /\ r \in TourReqs /\ r.kind = kind /\ r.patch = p /\ r.then = then /\ r.status = "sent"
  BY <1>2 DEF TourReq, TourReqs
<1>4. ASSUME NEW p \in TipPatches \cup {RestartTour(TOUR_BASE)}  PROVE TourFits(TourReq("patch", p, "none"))
  <2> DEFINE r == TourReq("patch", p, "none")
  <2>1. r \in TourReqs /\ r.kind = "patch" /\ r.patch = p /\ r.then = "none" /\ r.status = "sent"
    BY <1>1, <1>3
  <2> HIDE DEF r
  <2>2. TourFits(r)
    BY <2>1 DEF TourFits
  <2> QED BY <2>2 DEF r
<1>5. ASSUME NEW then \in {"startTour", "skipTour"}  PROVE TourFits(TourReq("patch", Viewing, then))
  <2> DEFINE r == TourReq("patch", Viewing, then)
  <2>1. r \in TourReqs /\ r.kind = "patch" /\ r.patch = Viewing /\ r.then = then /\ r.status = "sent"
    BY <1>1, <1>3
  <2> HIDE DEF r
  <2>2. TourFits(r)
    BY <2>1 DEF TourFits
  <2> QED BY <2>2 DEF r
<1>6. TourFits(TourReq("patch", RestartTour("onboarding"), "productTour"))
  <2> DEFINE r == TourReq("patch", RestartTour("onboarding"), "productTour")
  <2>1. r \in TourReqs /\ r.kind = "patch" /\ r.patch = RestartTour("onboarding") /\ r.then = "productTour" /\ r.status = "sent"
    BY <1>1, <1>3
  <2> HIDE DEF r
  <2>2. TourFits(r)
    BY <2>1 DEF TourFits
  <2> QED BY <2>2 DEF r
<1>7. TourFits(TourReq("patch", MoveOnTo(TOUR_SIDEBAR, FINISHED), "skipped"))
  <2> DEFINE r == TourReq("patch", MoveOnTo(TOUR_SIDEBAR, FINISHED), "skipped")
  <2>1. r \in TourReqs /\ r.kind = "patch" /\ r.patch = MoveOnTo(TOUR_SIDEBAR, FINISHED) /\ r.then = "skipped" /\ r.status = "sent"
    BY <1>1, <1>3
  <2> HIDE DEF r
  <2>2. TourFits(r)
    BY <2>1 DEF TourFits
  <2> QED BY <2>2 DEF r
<1>8. ASSUME NEW kind \in {"prepare", "fetch"}, NEW then \in {"prepared", "goToTour", "goNowhere"},
             then = "prepared" => kind = "prepare", then = "goNowhere" => kind = "fetch"
      PROVE  TourFits(TourReq(kind, NoPatch, then))
  <2> DEFINE r == TourReq(kind, NoPatch, then)
  <2>1. r \in TourReqs /\ r.kind = kind /\ r.patch = NoPatch /\ r.then = then /\ r.status = "sent"
    BY <1>1, <1>3
  <2> HIDE DEF r
  <2>2. TourFits(r)
    BY <1>8, <2>1 DEF TourFits
  <2> QED BY <2>2 DEF r
<1> QED BY <1>4, <1>5, <1>6, <1>7, <1>8

LEMMA SentIs ==
  ASSUME NEW kind, NEW p, NEW then
  PROVE  LET r == TourReq(kind, p, then) IN
         r.kind = kind /\ r.patch = p /\ r.then = then /\ r.status = "sent" /\ r.answer = <<>>
BY DEF TourReq

LEMMA TipClicks ==
  ASSUME TourTypes, TutorialTourTip
  PROVE  TourSent
<1>1. PICK t \in OpenTips : HandleNext(t) \/ HandlePrevious(t) \/ HandleDot(t) \/ HandleClose(t)
  BY DEF TutorialTourTip
<1>2. t \in TipsShown
  BY <1>1 DEF OpenTips
<1>3. trLocal \in Preferences /\ trHidden \in BOOLEAN
  BY DEF TourTypes, TrTypeOK
<1>4. /\ t \in TourTips /\ t.category \in {"base", "card", "board", "sidebar"} /\ t.step \in 0 .. 2
      /\ t.category = "base" => t.step = 0 /\ t.hideNavButtons
      /\ TourSteps[t.category] = IF t.category = "base" THEN {0} ELSE 0 .. 2
  BY <1>2, <1>3, ShownAt, TipsAre DEF TipsShown
<1>5. UNCHANGED <<trServer, trLocal>> /\ UNCHANGED <<trPage, trSeen>>
  BY DEF TutorialTourTip
<1>6. ASSUME NEW s \in 0 .. 2, t.category = "base" => s = 0, NEW jumps, jumps \/ s <= t.step + 1,
             HandleSavePreferences(s, jumps)
      PROVE  TourSent
  <2> DEFINE r == TourReq("patch", StepTo(s), "none")
  <2>1. SendPreferences(r, jumps) /\ trHidden' = TRUE
    BY <1>6 DEF HandleSavePreferences, SendPatch
  <2>2. StepTo(s) \in TipPatches
    BY Zenon DEF TipPatches
  <2>3. TourFits(r) /\ r.then = "none" /\ r.patch = StepTo(s) /\ r.status = "sent" /\ r.answer = <<>>
    BY <2>2, SentFits, SentIs
  <2> HIDE DEF r
  <2>4. TourClick(r, jumps)
    BY <1>2, <1>6, <2>3, Zenon DEF TourClick
  <2>5. TourSeen
    BY <1>5, <2>1 DEF TourSeen
  <2> QED BY <1>5, <2>1, <2>3, <2>4, <2>5, Zenon DEF TourSent
<1>7. ASSUME NEW jumps, jumps \/ (t.category # "base" /\ t.step = 2), HandleSendToNextTour(t.category, jumps),
             trHidden' \in BOOLEAN
      PROVE  TourSent
  <2> DEFINE r == TourReq("patch", NextTour(t.category), "none")
  <2>1. SendPreferences(r, jumps)
    BY <1>7 DEF HandleSendToNextTour, SendPatch
  <2>2. NextTour(t.category) \in TipPatches
    BY <1>4, NextIs, Zenon DEF TipPatches, TOUR_BASE, TOUR_CARD, TOUR_BOARD, TOUR_SIDEBAR
  <2>3. TourFits(r) /\ r.then = "none" /\ r.patch = NextTour(t.category) /\ r.status = "sent" /\ r.answer = <<>>
    BY <2>2, SentFits, SentIs
  <2> HIDE DEF r
  <2>4. TourClick(r, jumps)
    BY <1>2, <1>7, <2>3, Zenon DEF TourClick
  <2>5. TourSeen
    BY <1>5, <1>7 DEF TourSeen
  <2> QED BY <1>5, <2>1, <2>3, <2>4, <2>5, Zenon DEF TourSent
<1>8. CASE HandleNext(t)
  <2>1. t.category # "base"
    BY <1>4, <1>8 DEF HandleNext
  <2>2. GetLastStep(t.category) = 2
    BY <1>4, <2>1, LastStepIs
  <2>3. CASE t.step = 2
    BY <1>3, <1>7, <1>8, <2>1, <2>2, <2>3 DEF HandleNext
  <2>4. CASE t.step # 2
    <3>1. HandleSavePreferences(t.step + 1, FALSE)
      BY <1>8, <2>2, <2>4 DEF HandleNext
    <3>2. t.step + 1 \in 0 .. 2 /\ t.step + 1 <= t.step + 1
      BY <1>4, <2>4
    <3> QED BY <1>6, <2>1, <3>1, <3>2, Zenon
  <2> QED BY <2>3, <2>4
<1>9. CASE HandlePrevious(t)
  <2>1. t.step # 0 /\ HandleSavePreferences(t.step - 1, FALSE)
    BY <1>9 DEF HandlePrevious
  <2>2. t.step - 1 \in 0 .. 2 /\ t.step - 1 <= t.step + 1 /\ (t.category = "base" => t.step - 1 = 0)
    BY <1>4, <2>1
  <2> QED BY <1>6, <2>1, <2>2, Zenon
<1>10. CASE HandleDot(t)
  <2>1. PICK s \in TourSteps[t.category] : HandleSavePreferences(s, s > t.step)
    BY <1>10 DEF HandleDot
  <2>2. s \in 0 .. 2 /\ (t.category = "base" => s = 0) /\ ((s > t.step) \/ s <= t.step + 1)
    BY <1>4
  <2> QED BY <1>6, <2>1, <2>2, Zenon
<1>11. CASE HandleClose(t)
  BY <1>7, <1>11 DEF HandleClose
<1> QED BY <1>1, <1>8, <1>9, <1>10, <1>11

LEMMA StaysOn ==
  ASSUME TourTypes, trPage \in {"board", "card", "other"}, NEW page \in {"board", "card", "other"}, ShowsTour(trLocal, page)
  PROVE  TourSeen /\ trPage' = page /\ trLocal' = trLocal
<1>1. trLocal.viewed
  BY DEF TourTypes
<1>2. trHidden' \in BOOLEAN
  BY Zenon DEF ShowsTour
<1>3. trPage' = page /\ trLocal' = trLocal
  BY <1>1 DEF ShowsTour, FBRoute
<1> QED BY <1>2, <1>3, Zenon DEF TourSeen

LEMMA WelcomeClicks ==
  ASSUME TourTypes, StartTour \/ SkipTour
  PROVE  TourSent
<1>1. ASSUME NEW then \in {"startTour", "skipTour"}, NEW jumps, then = "skipTour" => jumps,
             trPage = "welcome", SetWelcomePageViewed(then, jumps)
      PROVE  \E r : /\ TourFits(r) /\ r.status = "sent" /\ r.answer = <<>>
                    /\ SendPreferences(r, jumps) /\ TourClick(r, jumps)
  <2> DEFINE r == TourReq("patch", Viewing, then)
  <2>1. SendPreferences(r, jumps)
    BY <1>1, Zenon DEF SetWelcomePageViewed, Viewing
  <2>2. TourFits(r) /\ r.then = then /\ r.status = "sent" /\ r.answer = <<>>
    BY SentFits, SentIs
  <2> HIDE DEF r
  <2>3. TourClick(r, jumps)
    BY <1>1, <2>2, Zenon DEF TourClick
  <2> QED BY <2>1, <2>2, <2>3
<1>2. UNCHANGED <<trServer, trLocal>> /\ TourSeen
  BY DEF StartTour, SkipTour, TourSeen, TourTypes, TrTypeOK
<1>3. CASE StartTour
  <2>1. trPage = "welcome" /\ SetWelcomePageViewed("startTour", FALSE)
    BY <1>3 DEF StartTour
  <2> QED BY <1>1, <1>2, <2>1, Zenon DEF TourSent
<1>4. CASE SkipTour
  <2>1. trPage = "welcome" /\ SetWelcomePageViewed("skipTour", TRUE)
    BY <1>4 DEF SkipTour
  <2> QED BY <1>1, <1>2, <2>1, Zenon DEF TourSent
<1> QED BY <1>3, <1>4

\* The requests of the page itself and of the menu.
LEMMA PageClicks ==
  ASSUME TourTypes, OpenTourCard \/ SidebarTour \/ ResetTour \/ ProductTour
  PROVE  TourSent \/ TourLooked
<1>1. ASSUME NEW p \in TipPatches \cup {RestartTour(TOUR_BASE)}, SendPatch(p, FALSE),
             UNCHANGED <<trServer, trLocal>>, TourSeen,
             \/ p = MoveOnTo("card", 0) /\ trPage = "board" /\ trLocal.started /\ PlaceOf(trLocal) = <<"base", 0>>
             \/ p = MoveOnTo("sidebar", 0) /\ trPage \in {"board", "card", "other"} /\ PlaceOf(trLocal) = <<"board", FINISHED>>
             \/ p = RestartTour(TOUR_BASE) /\ trPage \in {"board", "card", "other"}
      PROVE  TourSent
  <2> DEFINE r == TourReq("patch", p, "none")
  <2>1. SendPreferences(r, FALSE)
    BY <1>1, Zenon DEF SendPatch
  <2>2. TourFits(r) /\ r.then = "none" /\ r.patch = p /\ r.status = "sent" /\ r.answer = <<>>
    BY SentFits, SentIs
  <2> HIDE DEF r
  <2>3. TourClick(r, FALSE)
    BY <1>1, <2>2, Zenon DEF TourClick
  <2> QED BY <1>1, <2>1, <2>2, <2>3, Zenon DEF TourSent
<1>2. MoveOnTo("card", 0) \in TipPatches /\ MoveOnTo("sidebar", 0) \in TipPatches
  BY Zenon DEF TipPatches, TOUR_CARD, TOUR_SIDEBAR
<1>3. CASE OpenTourCard
  <2>1. trPage = "board" /\ ShowsTour(trLocal, "card") /\ UNCHANGED trServer
    BY <1>3 DEF OpenTourCard
  <2>2. TourSeen /\ trLocal' = trLocal
    BY <2>1, StaysOn
  <2>3. CASE trLocal.started /\ PlaceOf(trLocal) = <<TOUR_BASE, 0>>
    <3>1. SendPatch(MoveOnTo("card", 0), FALSE) /\ PlaceOf(trLocal) = <<"base", 0>>
      BY <1>3, <2>3, Zenon DEF OpenTourCard, TOUR_BASE, TOUR_CARD
    <3> QED BY <1>1, <1>2, <2>1, <2>2, <2>3, <3>1, Zenon
  <2>4. CASE ~(trLocal.started /\ PlaceOf(trLocal) = <<TOUR_BASE, 0>>)
    <3>1. UNCHANGED <<trReqs, trPast>>
      BY <1>3, <2>4, Zenon DEF OpenTourCard
    <3> QED BY <2>1, <2>2, <3>1, Zenon DEF TourLooked
  <2> QED BY <2>3, <2>4
<1>4. CASE SidebarTour
  <2>0. trPage \in {"board", "card", "other"}
    BY <1>4 DEF SidebarTour
  <2>1. /\ PlaceOf(trLocal) = <<"board", FINISHED>> /\ SendPatch(MoveOnTo("sidebar", 0), FALSE)
        /\ UNCHANGED <<trServer, trLocal>> /\ UNCHANGED <<trPage, trHidden, trSeen>>
    BY <1>4, Zenon DEF SidebarTour, TOUR_BOARD, TOUR_SIDEBAR
  <2>2. TourSeen
    BY <2>1 DEF TourSeen, TourTypes, TrTypeOK
  <2> QED BY <1>1, <1>2, <2>0, <2>1, <2>2, Zenon
<1>5. CASE ResetTour
  <2>1. trPage \in {"board", "card", "other"} /\ ShowsTour(trLocal, "board") /\ SendPatch(RestartTour(TOUR_BASE), FALSE) /\ UNCHANGED trServer
    BY <1>5 DEF ResetTour
  <2>2. TourSeen /\ trLocal' = trLocal
    BY <2>1, StaysOn
  <2> QED BY <1>1, <2>1, <2>2, Zenon
<1>6. CASE ProductTour
  <2> DEFINE r == TourReq("patch", RestartTour("onboarding"), "productTour")
  <2>1. /\ SendPreferences(r, FALSE) /\ trPage \in {"board", "card", "other"}
        /\ UNCHANGED <<trServer, trLocal>> /\ UNCHANGED <<trPage, trHidden, trSeen>>
    BY <1>6 DEF ProductTour
  <2>2. TourFits(r) /\ r.then = "productTour" /\ r.status = "sent" /\ r.answer = <<>>
    BY SentFits, SentIs
  <2> HIDE DEF r
  <2>3. TourClick(r, FALSE)
    BY <2>1, <2>2, Zenon DEF TourClick
  <2>4. TourSeen
    BY <2>1 DEF TourSeen, TourTypes, TrTypeOK
  <2> QED BY <2>1, <2>2, <2>3, <2>4, Zenon DEF TourSent
<1> QED BY <1>3, <1>4, <1>5, <1>6

LEMMA TourShape ==
  ASSUME TourTypes, TrNext
  PROVE  OlderVersion \/ LoadApp \/ TourSent \/ TourLooked \/ LeaveLost \/ ServeConfig \/ AnswerComes
<1>1. CASE HandleHide
  <2>1. UNCHANGED <<trServer, trLocal, trReqs, trPast>> /\ UNCHANGED <<trPage, trSeen>> /\ trHidden' \in BOOLEAN
    BY <1>1 DEF HandleHide, TourTypes, TrTypeOK
  <2> QED BY <2>1 DEF TourLooked, TourSeen
<1>2. CASE VisitBoard
  <2>1. PICK page \in {"board", "other"} : ShowsTour(trLocal, page)
    BY <1>2 DEF VisitBoard
  <2>2. trPage \in {"board", "card", "other"} /\ UNCHANGED <<trServer, trReqs, trPast>>
    BY <1>2 DEF VisitBoard
  <2>3. TourSeen /\ trLocal' = trLocal
    BY <2>1, <2>2, StaysOn
  <2> QED BY <2>2, <2>3 DEF TourLooked
<1> QED BY <1>1, <1>2, TipClicks, WelcomeClicks, PageClicks DEF TrNext

----------------------------------------------------------------------------
(***************************************************************************)
(* What a click, the server and an answer do to the requests.               *)
(***************************************************************************)
TourPasts == [races : Nat, failed : BOOLEAN, ended : BOOLEAN, mixed : BOOLEAN, jumped : BOOLEAN]

LEMMA SentFacts ==
  ASSUME TourTypes, TourSent
  PROVE  \E r, jumps :
           /\ TourFits(r) /\ r.status = "sent" /\ r.answer = <<>> /\ TourClick(r, jumps)
           /\ trReqs' \in Seq(TourReqs) /\ Len(trReqs') = Len(trReqs) + 1
           /\ \A i \in 1 .. Len(trReqs) : trReqs'[i] = trReqs[i]
           /\ trReqs'[Len(trReqs) + 1] = r
           /\ trPast' \in TourPasts
           /\ trPast'.races = trPast.races + Len(trReqs)
           /\ trPast'.failed = trPast.failed /\ trPast'.ended = trPast.ended
           /\ trPast'.jumped <=> (trPast.jumped \/ jumps \/ Len(trReqs) # 0)
           /\ trPast'.mixed <=> (trPast.mixed \/ (Len(trReqs) # 0 /\ (Restarts(r) \/ \E i \in 1 .. Len(trReqs) : Restarts(trReqs[i]))))
<1> PICK r, jumps : /\ TourFits(r) /\ r.status = "sent" /\ r.answer = <<>>
                    /\ SendPreferences(r, jumps) /\ TourClick(r, jumps)
  BY Zenon DEF TourSent
<1>1. trReqs \in Seq(TourReqs) /\ trPast \in TourPasts /\ r \in TourReqs
  BY DEF TourTypes, TourFits, TourPasts
<1>2. trReqs' = Append(trReqs, r)
  BY Zenon DEF SendPreferences
<1>3. /\ trReqs' \in Seq(TourReqs) /\ Len(trReqs') = Len(trReqs) + 1
      /\ \A i \in 1 .. Len(trReqs) : trReqs'[i] = trReqs[i]
      /\ trReqs'[Len(trReqs) + 1] = r
  BY <1>1, <1>2
<1> DEFINE early == trReqs # <<>>
           jumped == trPast.jumped \/ jumps \/ early
           mixed == trPast.mixed \/ (early /\ \E i \in 1 .. Len(trReqs') : Restarts(trReqs'[i]))
<1>4. trPast' = [trPast EXCEPT !.races = trPast.races + Len(trReqs), !.jumped = jumped, !.mixed = mixed]
  BY Zenon DEF SendPreferences
<1>5. early <=> Len(trReqs) # 0
  BY <1>1
<1>6. (\E i \in 1 .. Len(trReqs') : Restarts(trReqs'[i])) <=> (Restarts(r) \/ \E i \in 1 .. Len(trReqs) : Restarts(trReqs[i]))
  BY <1>1, <1>3
<1>7. jumped \in BOOLEAN /\ mixed \in BOOLEAN /\ Len(trReqs) \in Nat
  BY <1>1
<1> DEFINE races == trPast.races + Len(trReqs)
<1>71. races \in Nat
  BY <1>1, <1>7 DEF TourPasts
<1> HIDE DEF jumped, mixed, races
<1>72. trPast' = [trPast EXCEPT !.races = races, !.jumped = jumped, !.mixed = mixed]
  BY <1>4 DEF races
<1>73. trPast' \in TourPasts
  BY <1>1, <1>7, <1>71, <1>72 DEF TourPasts
<1>8. /\ trPast' \in TourPasts
      /\ trPast'.races = races
      /\ trPast'.failed = trPast.failed /\ trPast'.ended = trPast.ended
      /\ trPast'.jumped = jumped /\ trPast'.mixed = mixed
  BY <1>1, <1>72, <1>73 DEF TourPasts
<1>9. trPast'.jumped <=> (trPast.jumped \/ jumps \/ Len(trReqs) # 0)
  BY <1>5, <1>8, Zenon DEF jumped
<1>10. trPast'.mixed <=> (trPast.mixed \/ (Len(trReqs) # 0 /\ (Restarts(r) \/ \E i \in 1 .. Len(trReqs) : Restarts(trReqs[i]))))
  BY <1>5, <1>6, <1>8, Zenon DEF mixed
<1> QED BY <1>3, <1>8, <1>9, <1>10, Zenon DEF races

\* The server takes the request at i, or refuses it.
Took(i) ==
  /\ i \in 1 .. Len(trReqs) /\ trReqs[i].status = "sent"
  /\ \A j \in 1 .. i - 1 : trReqs[j].status # "sent"
  /\ trReqs' \in Seq(TourReqs) /\ Len(trReqs') = Len(trReqs)
  /\ \A j \in 1 .. Len(trReqs) : j # i => trReqs'[j] = trReqs[j]
  /\ TourFits(trReqs'[i])
  /\ trReqs'[i].kind = trReqs[i].kind /\ trReqs'[i].patch = trReqs[i].patch /\ trReqs'[i].then = trReqs[i].then
  /\ trPast' \in TourPasts /\ trPast'.races = trPast.races /\ trPast'.mixed = trPast.mixed /\ trPast'.jumped = trPast.jumped
  /\ UNCHANGED <<trLocal, trPage, trHidden, trSeen>>

TookIt(i) ==
  /\ Took(i) /\ trReqs'[i].status = "ok" /\ trReqs'[i].answer = <<trServer'>>
  /\ trServer' \in Preferences /\ trServer' = TourEffect(trServer, trReqs[i])
  /\ trPast'.failed = trPast.failed
  /\ trPast'.ended <=> (~Restarts(trReqs[i]) /\ (trPast.ended \/ PlaceOf(trServer') = <<TOUR_SIDEBAR, FINISHED>>))

RefusedIt(i) ==
  /\ Took(i) /\ trReqs'[i].status = "failed" /\ trReqs[i].kind # "fetch"
  /\ trServer' = trServer /\ trPast'.failed /\ trPast'.ended = trPast.ended

LEMMA ServedFacts ==
  ASSUME TourTypes, ServeConfig
  PROVE  \E i \in 1 .. Len(trReqs) : TookIt(i) \/ RefusedIt(i)
<1>1. trReqs \in Seq(TourReqs) /\ trPast \in TourPasts /\ trServer \in Preferences
  BY DEF TourTypes, TrTypeOK, TourPasts
<1> PICK i \in 1 .. Len(trReqs) :
      LET r == trReqs[i]
          cfg == TourEffect(trServer, r) IN
      /\ r.status = "sent" /\ \A j \in 1 .. i - 1 : trReqs[j].status # "sent"
      /\ \/ /\ trServer' = cfg
            /\ trReqs' = [trReqs EXCEPT ![i].status = "ok", ![i].answer = <<cfg>>]
            /\ trPast' = [trPast EXCEPT
                            !.ended = IF Restarts(r) THEN FALSE
                                      ELSE @ \/ PlaceOf(cfg) = <<TOUR_SIDEBAR, FINISHED>>]
         \/ /\ r.kind # "fetch" /\ ~trPast.failed
            /\ trReqs' = [trReqs EXCEPT ![i].status = "failed"]
            /\ trPast' = [trPast EXCEPT !.failed = TRUE]
            /\ UNCHANGED trServer
      /\ UNCHANGED <<trLocal, trPage, trHidden, trSeen>>
  BY Zenon DEF ServeConfig, TourEffect
<1> DEFINE r == trReqs[i]
           cfg == TourEffect(trServer, r)
<1>2. r \in TourReqs /\ TourFits(r)
  BY <1>1 DEF TourTypes
<1>3. cfg \in Preferences
  BY <1>1, <1>2, EffectIs
<1>4. <<cfg>> \in Seq(Preferences)
  BY <1>3
<1>5. ASSUME NEW q, TourFits(r), q \in TourReqs, q.kind = r.kind, q.patch = r.patch, q.then = r.then,
             (q.status = "ok" /\ q.answer = <<cfg>>) \/ (q.status = "failed" /\ r.kind # "fetch")
      PROVE  TourFits(q)
  BY <1>3, <1>5 DEF TourFits
<1>6. CASE /\ trServer' = cfg
           /\ trReqs' = [trReqs EXCEPT ![i].status = "ok", ![i].answer = <<cfg>>]
           /\ trPast' = [trPast EXCEPT
                            !.ended = IF Restarts(r) THEN FALSE
                                      ELSE @ \/ PlaceOf(cfg) = <<TOUR_SIDEBAR, FINISHED>>]
  <2> DEFINE q == [r EXCEPT !.status = "ok", !.answer = <<cfg>>]
             ended == IF Restarts(r) THEN FALSE ELSE trPast.ended \/ PlaceOf(cfg) = <<TOUR_SIDEBAR, FINISHED>>
  <2>0. trReqs' = [trReqs EXCEPT ![i] = q]
    BY <1>1, <1>6
  <2>1. q \in TourReqs /\ q.kind = r.kind /\ q.patch = r.patch /\ q.then = r.then /\ q.status = "ok" /\ q.answer = <<cfg>>
    BY <1>2, <1>4 DEF TourReqs
  <2>2. TourFits(q)
    BY <1>2, <1>5, <2>1
  <2>3. trPast' = [trPast EXCEPT !.ended = ended]
    BY <1>6
  <2>4. ended \in BOOLEAN /\ (ended <=> (~Restarts(r) /\ (trPast.ended \/ PlaceOf(cfg) = <<TOUR_SIDEBAR, FINISHED>>)))
    BY <1>1, Zenon DEF TourPasts
  <2> HIDE DEF ended, q, cfg
  <2>5. /\ trPast' \in TourPasts /\ trPast'.races = trPast.races /\ trPast'.mixed = trPast.mixed /\ trPast'.jumped = trPast.jumped
        /\ trPast'.failed = trPast.failed /\ trPast'.ended = ended
    BY <1>1, <2>3, <2>4 DEF TourPasts
  <2>6. /\ trReqs' \in Seq(TourReqs) /\ Len(trReqs') = Len(trReqs)
        /\ \A j \in 1 .. Len(trReqs) : j # i => trReqs'[j] = trReqs[j]
        /\ trReqs'[i] = q
    BY <1>1, <2>0, <2>1
  <2>7. Took(i)
    BY <2>1, <2>2, <2>5, <2>6, Zenon DEF Took
  <2>8. TookIt(i)
    BY <1>3, <1>6, <2>1, <2>4, <2>5, <2>6, <2>7, Zenon DEF TookIt, cfg
  <2> QED BY <2>8
<1>7. CASE /\ r.kind # "fetch" /\ ~trPast.failed
           /\ trReqs' = [trReqs EXCEPT ![i].status = "failed"]
           /\ trPast' = [trPast EXCEPT !.failed = TRUE]
           /\ UNCHANGED trServer
  <2> DEFINE q == [r EXCEPT !.status = "failed"]
  <2>0. trReqs' = [trReqs EXCEPT ![i] = q]
    BY <1>1, <1>7
  <2>1. q \in TourReqs /\ q.kind = r.kind /\ q.patch = r.patch /\ q.then = r.then /\ q.status = "failed"
    BY <1>2 DEF TourReqs
  <2>2. TourFits(q)
    BY <1>2, <1>5, <1>7, <2>1
  <2> HIDE DEF q, cfg
  <2>5. /\ trPast' \in TourPasts /\ trPast'.races = trPast.races /\ trPast'.mixed = trPast.mixed /\ trPast'.jumped = trPast.jumped
        /\ trPast'.failed = TRUE /\ trPast'.ended = trPast.ended
    BY <1>1, <1>7 DEF TourPasts
  <2>6. /\ trReqs' \in Seq(TourReqs) /\ Len(trReqs') = Len(trReqs)
        /\ \A j \in 1 .. Len(trReqs) : j # i => trReqs'[j] = trReqs[j]
        /\ trReqs'[i] = q
    BY <1>1, <2>0, <2>1
  <2>7. Took(i)
    BY <2>1, <2>2, <2>5, <2>6, Zenon DEF Took
  <2>8. RefusedIt(i)
    BY <1>7, <2>1, <2>5, <2>6, <2>7, Zenon DEF RefusedIt
  <2> QED BY <2>8
<1> QED BY <1>6, <1>7

\* What follows a request.
Follows(x, r) ==
  /\ TourFits(x) /\ x.status = "sent" /\ x.answer = <<>>
  /\ \/ r.then = "startTour" /\ x.then = "prepared"
     \/ r.then = "prepared" /\ x.kind = "fetch"
     \/ r.then = "productTour" /\ x.then = "goToTour" /\ x.kind = "prepare"
     \/ r.then = "skipTour" /\ x.then = "skipped"
  /\ x.then = "goNowhere" => r.status = "failed"

LEMMA FollowUpIs ==
  ASSUME NEW r, TourFits(r), r.status # "sent"
  PROVE  \/ FollowUp(r) = <<>> /\ r.then \notin {"startTour", "prepared", "productTour", "skipTour"}
         \/ \E x : FollowUp(r) = <<x>> /\ Follows(x, r)
<1>1. CASE r.then = "startTour"
  <2> DEFINE x == TourReq("prepare", NoPatch, "prepared")
  <2>1. FollowUp(r) = <<x>>
    BY <1>1 DEF FollowUp
  <2>2. TourFits(x) /\ x.status = "sent" /\ x.answer = <<>> /\ x.then = "prepared"
    BY SentFits, SentIs
  <2> HIDE DEF x
  <2> QED BY <1>1, <2>1, <2>2 DEF Follows
<1>2. CASE r.then = "prepared"
  <2> DEFINE then == IF r.status = "ok" THEN "goToTour" ELSE "goNowhere"
             x == TourReq("fetch", NoPatch, then)
  <2>1. FollowUp(r) = <<x>>
    BY <1>2 DEF FollowUp
  <2>2. then \in {"goToTour", "goNowhere"} /\ (then = "goNowhere" => r.status = "failed")
    BY ReqFacts
  <2> HIDE DEF then
  <2>3. TourFits(x) /\ x.status = "sent" /\ x.answer = <<>> /\ x.then = then /\ x.kind = "fetch"
    BY <2>2, SentFits, SentIs
  <2> HIDE DEF x
  <2> QED BY <1>2, <2>1, <2>2, <2>3 DEF Follows
<1>3. CASE r.then = "productTour"
  <2> DEFINE x == TourReq("prepare", NoPatch, "goToTour")
  <2>1. FollowUp(r) = <<x>>
    BY <1>3 DEF FollowUp
  <2>2. TourFits(x) /\ x.status = "sent" /\ x.answer = <<>> /\ x.then = "goToTour" /\ x.kind = "prepare"
    BY SentFits, SentIs
  <2> HIDE DEF x
  <2> QED BY <1>3, <2>1, <2>2 DEF Follows
<1>4. CASE r.then = "skipTour"
  <2> DEFINE x == TourReq("patch", MoveOnTo(TOUR_SIDEBAR, FINISHED), "skipped")
  <2>1. FollowUp(r) = <<x>>
    BY <1>4 DEF FollowUp
  <2>2. TourFits(x) /\ x.status = "sent" /\ x.answer = <<>> /\ x.then = "skipped"
    BY SentFits, SentIs
  <2> HIDE DEF x
  <2> QED BY <1>4, <2>1, <2>2 DEF Follows
<1>5. CASE r.then \notin {"startTour", "prepared", "productTour", "skipTour"}
  BY <1>5 DEF FollowUp
<1> QED BY <1>1, <1>2, <1>3, <1>4, <1>5

\* The answer to the first request r arrives.
TourArrived(r) ==
  /\ Len(trReqs) >= 1 /\ r = trReqs[1] /\ r.status # "sent" /\ TourFits(r)
  /\ trReqs' \in Seq(TourReqs)
  /\ \A i \in 1 .. Len(trReqs) - 1 : trReqs'[i] = trReqs[i + 1]
  /\ \/ /\ Len(trReqs') = Len(trReqs) - 1
        /\ r.then \notin {"startTour", "prepared", "productTour", "skipTour"}
     \/ Len(trReqs') = Len(trReqs) /\ Follows(trReqs'[Len(trReqs)], r)
  /\ UNCHANGED <<trServer, trPast>>
  /\ trLocal' \in Preferences
  /\ r.kind # "prepare" /\ r.status = "ok" => r.answer = <<trLocal'>>
  /\ r.kind = "prepare" \/ r.status = "failed" => trLocal' = trLocal
  /\ ShowsTour(trLocal', WelcomePage(trLocal', PageAfter(r)))

LEMMA ArrivedFacts ==
  ASSUME TourTypes, AnswerComes
  PROVE  TourArrived(trReqs[1])
<1> DEFINE r == trReqs[1]
<1>1. trReqs \in Seq(TourReqs) /\ trReqs # <<>> /\ Head(trReqs).status # "sent" /\ trLocal \in Preferences
  BY DEF TourTypes, TrTypeOK, AnswerComes
<1>2. Len(trReqs) >= 1 /\ Head(trReqs) = r /\ r \in TourReqs /\ TourFits(r)
  BY <1>1 DEF TourTypes
<1>3. trReqs' = Tail(trReqs) \o FollowUp(r)
  BY <1>2 DEF AnswerComes
<1>4. \/ FollowUp(r) = <<>> /\ r.then \notin {"startTour", "prepared", "productTour", "skipTour"}
      \/ \E x : FollowUp(r) = <<x>> /\ Follows(x, r)
  BY <1>1, <1>2, FollowUpIs
<1>5. /\ Tail(trReqs) \in Seq(TourReqs) /\ Len(Tail(trReqs)) = Len(trReqs) - 1
      /\ \A i \in 1 .. Len(trReqs) - 1 : Tail(trReqs)[i] = trReqs[i + 1]
  BY <1>1, <1>2
<1> DEFINE rest == Tail(trReqs)
<1>6. /\ trReqs' \in Seq(TourReqs)
      /\ \A i \in 1 .. Len(trReqs) - 1 : trReqs'[i] = trReqs[i + 1]
      /\ \/ /\ Len(trReqs') = Len(trReqs) - 1
            /\ r.then \notin {"startTour", "prepared", "productTour", "skipTour"}
         \/ Len(trReqs') = Len(trReqs) /\ Follows(trReqs'[Len(trReqs)], r)
  <2> HIDE DEF rest
  <2>1. CASE FollowUp(r) = <<>> /\ r.then \notin {"startTour", "prepared", "productTour", "skipTour"}
    <3>1. trReqs' = rest \o <<>>
      BY <1>3, <2>1 DEF rest
    <3>2. rest \in Seq(TourReqs) /\ Len(rest) = Len(trReqs) - 1 /\ \A i \in 1 .. Len(trReqs) - 1 : rest[i] = trReqs[i + 1]
      BY <1>5 DEF rest
    <3>3. trReqs' = rest
      BY <3>1, <3>2
    <3> QED BY <2>1, <3>2, <3>3
  <2>2. ASSUME NEW x, FollowUp(r) = <<x>>, Follows(x, r)
        PROVE  /\ trReqs' \in Seq(TourReqs) /\ Len(trReqs') = Len(trReqs)
               /\ \A i \in 1 .. Len(trReqs) - 1 : trReqs'[i] = trReqs[i + 1]
               /\ trReqs'[Len(trReqs)] = x
    <3>1. trReqs' = rest \o <<x>> /\ x \in TourReqs
      BY <1>3, <2>2 DEF rest, Follows, TourFits
    <3>2. rest \in Seq(TourReqs) /\ Len(rest) = Len(trReqs) - 1 /\ \A i \in 1 .. Len(trReqs) - 1 : rest[i] = trReqs[i + 1]
      BY <1>5 DEF rest
    <3>3. trReqs' \in Seq(TourReqs) /\ Len(trReqs') = Len(trReqs)
      BY <3>1, <3>2
    <3>4. /\ \A i \in 1 .. Len(rest) : trReqs'[i] = rest[i]
          /\ trReqs'[Len(rest) + 1] = x
      BY <3>1, <3>2
    <3> QED BY <1>1, <1>2, <3>2, <3>3, <3>4
  <2> QED BY <1>4, <2>1, <2>2, Zenon
<1>7. UNCHANGED <<trServer, trPast>>
  BY DEF AnswerComes
<1> DEFINE cfg == PatchProps(r)
<1>8. ShowsTour(cfg, WelcomePage(cfg, PageAfter(r)))
  BY <1>2 DEF AnswerComes
<1>9. trLocal' = cfg
  BY <1>8, Zenon DEF ShowsTour
<1>10. CASE r.kind # "prepare" /\ r.status = "ok"
  <2>1. cfg = r.answer[1] /\ r.answer \in {<<p>> : p \in Preferences}
    BY <1>2, <1>10 DEF PatchProps, TourFits
  <2>2. cfg \in Preferences /\ r.answer = <<cfg>>
    BY <2>1
  <2> QED BY <1>1, <1>2, <1>6, <1>7, <1>8, <1>9, <1>10, <2>2, Zenon DEF TourArrived
<1>11. CASE ~(r.kind # "prepare" /\ r.status = "ok")
  <2>1. cfg = trLocal
    BY <1>11, Zenon DEF PatchProps
  <2> QED BY <1>1, <1>2, <1>6, <1>7, <1>8, <1>9, <1>11, <2>1, Zenon DEF TourArrived
<1> QED BY <1>10, <1>11

----------------------------------------------------------------------------
(***************************************************************************)
(* Types and the order of the requests.                                     *)
(***************************************************************************)
TourPages == {"none", "welcome", "board", "card", "other", "lost"}

LEMMA ShowsFacts ==
  ASSUME TourTypes, NEW cfg \in Preferences, NEW page \in TourPages, ShowsTour(cfg, page)
  PROVE  /\ trLocal' = cfg /\ trPage' \in TourPages /\ trHidden' \in BOOLEAN /\ trSeen' \subseteq TipPlaces
         /\ trPage' \in {"board", "card", "other"} => cfg.viewed
         /\ trPage' = IF page \in {"board", "card", "other"} /\ ~cfg.viewed THEN "welcome" ELSE page
<1>1. trHidden' \in BOOLEAN
  BY Zenon DEF ShowsTour
<1>2. trLocal' = cfg /\ trPage' = IF page \in {"board", "card", "other"} /\ ~cfg.viewed THEN "welcome" ELSE page
  BY DEF ShowsTour, FBRoute
<1>3. trSeen \subseteq TipPlaces
  BY DEF TourTypes, TrTypeOK
<1>4. \A q : \A t \in TourTipRenderer(cfg, q) : <<t.category, t.step>> \in TipPlaces
  BY ShownAt DEF TipPlaces
<1>5. trSeen' = IF trPast.jumped THEN {} ELSE trSeen \cup {<<t.category, t.step>> : t \in TourTipRenderer(cfg, FBRoute(cfg, page))}
  BY Zenon DEF ShowsTour
<1>6. trSeen' \subseteq TipPlaces
  BY <1>3, <1>4, <1>5
<1> QED BY <1>1, <1>2, <1>6 DEF TourPages

\* What is seen is seen on a page that shows the user's copy.
LEMMA SeenFacts ==
  ASSUME TourTypes, TourSeen, trLocal' = trLocal
  PROVE  /\ trPage' \in TourPages /\ trHidden' \in BOOLEAN /\ trSeen' \subseteq TipPlaces
         /\ trPage' = trPage \/ (trPage \in {"board", "card", "other"} /\ trPage' \in {"board", "card", "other"})
         /\ trPage' \in {"board", "card", "other"} => trLocal.viewed
<1>1. trLocal \in Preferences /\ trPage \in TourPages /\ trSeen \subseteq TipPlaces
      /\ (trPage \in {"board", "card", "other"} => trLocal.viewed)
  BY DEF TourTypes, TrTypeOK, TourPages
<1>2. CASE UNCHANGED <<trPage, trSeen>>
  BY <1>1, <1>2 DEF TourSeen
<1>3. ASSUME trPage \in {"board", "card", "other"}, NEW page \in {"board", "card", "other"}, ShowsTour(trLocal, page)
      PROVE  trPage' = page /\ trHidden' \in BOOLEAN /\ trSeen' \subseteq TipPlaces
  <2>1. page \in TourPages
    BY DEF TourPages
  <2> QED BY <1>1, <1>3, <2>1, ShowsFacts
<1> QED BY <1>1, <1>2, <1>3 DEF TourSeen, TourPages

LEMMA ClickedOn == ASSUME TourTypes, NEW r, NEW jumps, TourClick(r, jumps)  PROVE trPage # "none" /\ trPage # "lost"
<1>1. trLocal \in Preferences
  BY DEF TourTypes, TrTypeOK
<1>2. \A t \in TipsShown : "none" \notin t.pages /\ trPage \in t.pages /\ "lost" \notin t.pages
  BY <1>1, ShownAt, TipsAre DEF TipsShown
<1> QED BY <1>2 DEF TourClick

LEMMA TourTypesSplit ==
  ASSUME TourTypes
  PROVE  /\ trServer \in Preferences /\ trLocal \in Preferences /\ trPage \in TourPages /\ trHidden \in BOOLEAN
         /\ trSeen \subseteq TipPlaces /\ trReqs \in Seq(TourReqs) /\ trPast \in TourPasts
         /\ \A i \in 1 .. Len(trReqs) : TourFits(trReqs[i])
         /\ Len(trReqs) \in Nat
BY DEF TourTypes, TrTypeOK, TourPages, TourPasts

LEMMA TourTypesSent == ASSUME TourTypes, TourSent  PROVE TourTypes'
<1>1. trLocal' = trLocal /\ trServer' = trServer /\ TourSeen
  BY DEF TourSent
<1>2. /\ trPage' \in TourPages /\ trHidden' \in BOOLEAN /\ trSeen' \subseteq TipPlaces
      /\ trPage' = trPage \/ (trPage \in {"board", "card", "other"} /\ trPage' \in {"board", "card", "other"})
      /\ trPage' \in {"board", "card", "other"} => trLocal.viewed
  BY <1>1, SeenFacts
<1> PICK r, jumps :
           /\ TourFits(r) /\ r.status = "sent" /\ r.answer = <<>> /\ TourClick(r, jumps)
           /\ trReqs' \in Seq(TourReqs) /\ Len(trReqs') = Len(trReqs) + 1
           /\ \A i \in 1 .. Len(trReqs) : trReqs'[i] = trReqs[i]
           /\ trReqs'[Len(trReqs) + 1] = r
           /\ trPast' \in TourPasts
           /\ trPast'.failed = trPast.failed
  BY SentFacts
<1>3. trPage # "none" /\ trPage # "lost" /\ trPage' # "none" /\ trPage' # "lost"
  BY <1>2, ClickedOn
<1>4. \A i \in 1 .. Len(trReqs') : TourFits(trReqs'[i])
  BY TourTypesSplit
<1>5. \A i, j \in 1 .. Len(trReqs') : i < j /\ trReqs'[j].status # "sent" => trReqs'[i].status # "sent"
  <2> SUFFICES ASSUME NEW i \in 1 .. Len(trReqs'), NEW j \in 1 .. Len(trReqs'), i < j, trReqs'[j].status # "sent"
               PROVE  trReqs'[i].status # "sent"
    OBVIOUS
  <2>1. j \in 1 .. Len(trReqs) /\ i \in 1 .. Len(trReqs) /\ trReqs'[j] = trReqs[j] /\ trReqs'[i] = trReqs[i]
    BY TourTypesSplit
  <2> QED BY <2>1 DEF TourTypes
<1>6. \A i \in 1 .. Len(trReqs') : ServedEnd(i)' /\ trReqs'[i].status = "ok" /\ trReqs'[i].kind # "prepare" =>
                                     trReqs'[i].answer = <<trServer'>>
  <2> SUFFICES ASSUME NEW i \in 1 .. Len(trReqs'), ServedEnd(i)', trReqs'[i].status = "ok", trReqs'[i].kind # "prepare"
               PROVE  trReqs'[i].answer = <<trServer'>>
    OBVIOUS
  <2>1. i \in 1 .. Len(trReqs) /\ trReqs'[i] = trReqs[i]
    BY TourTypesSplit
  <2>2. ServedEnd(i)
    BY <2>1, TourTypesSplit DEF ServedEnd
  <2> QED BY <1>1, <2>1, <2>2 DEF TourTypes
<1>7. \A i \in 1 .. Len(trReqs') : trReqs'[i].status = "failed" \/ trReqs'[i].then = "goNowhere" => trPast'.failed
  <2>1. r.then # "goNowhere"
    BY DEF TourClick
  <2> QED BY <2>1, TourTypesSplit DEF TourTypes
<1> QED BY <1>1, <1>2, <1>3, <1>4, <1>5, <1>6, <1>7, TourTypesSplit DEF TourTypes, TrTypeOK, TourPages, TourPasts

LEMMA TourTypesServed == ASSUME TourTypes, ServeConfig  PROVE TourTypes'
<1> PICK i \in 1 .. Len(trReqs) : TookIt(i) \/ RefusedIt(i)
  BY ServedFacts
<1>1. Took(i)
  BY DEF TookIt, RefusedIt
<1>2. /\ trReqs[i].status = "sent" /\ \A j \in 1 .. i - 1 : trReqs[j].status # "sent"
      /\ trReqs' \in Seq(TourReqs) /\ Len(trReqs') = Len(trReqs)
      /\ \A j \in 1 .. Len(trReqs) : j # i => trReqs'[j] = trReqs[j]
      /\ TourFits(trReqs'[i]) /\ trReqs'[i].kind = trReqs[i].kind /\ trReqs'[i].then = trReqs[i].then
      /\ trPast' \in TourPasts /\ UNCHANGED <<trLocal, trPage, trHidden, trSeen>>
  BY <1>1 DEF Took
<1>3. /\ trServer' \in Preferences
      /\ \/ trReqs'[i].status = "ok" /\ trReqs'[i].answer = <<trServer'>> /\ trPast'.failed = trPast.failed
         \/ trReqs'[i].status = "failed" /\ trPast'.failed
  BY TourTypesSplit DEF TookIt, RefusedIt
<1>4. \A j \in 1 .. Len(trReqs') : TourFits(trReqs'[j])
  BY <1>2, TourTypesSplit
<1>5. \A j, k \in 1 .. Len(trReqs') : j < k /\ trReqs'[k].status # "sent" => trReqs'[j].status # "sent"
  <2> SUFFICES ASSUME NEW j \in 1 .. Len(trReqs'), NEW k \in 1 .. Len(trReqs'), j < k, trReqs'[k].status # "sent"
               PROVE  trReqs'[j].status # "sent"
    OBVIOUS
  <2>1. \A m, n \in 1 .. Len(trReqs) : m < n /\ trReqs[n].status # "sent" => trReqs[m].status # "sent"
    BY DEF TourTypes
  <2>2. CASE k = i
    BY <1>2, <2>2, TourTypesSplit
  <2>3. CASE k # i
    BY <1>2, <1>3, <2>1, <2>3, TourTypesSplit
  <2> QED BY <2>2, <2>3
<1>6. ASSUME NEW j \in 1 .. Len(trReqs'), ServedEnd(j)'
      PROVE  j = i
  <2>1. \A m, n \in 1 .. Len(trReqs) : m < n /\ trReqs[n].status # "sent" => trReqs[m].status # "sent"
    BY DEF TourTypes
  <2>2. trReqs'[j].status # "sent" /\ (j < Len(trReqs') => trReqs'[j + 1].status = "sent")
    BY <1>6 DEF ServedEnd
  <2>3. trReqs'[i].status # "sent"
    BY <1>3
  <2>4. CASE j < i
    <3>1. j + 1 \in 1 .. Len(trReqs) /\ (j + 1 = i \/ j + 1 \in 1 .. i - 1)
      BY <2>4, TourTypesSplit
    <3> QED BY <1>2, <2>2, <2>3, <2>4, <3>1, TourTypesSplit
  <2>5. CASE j > i
    BY <1>2, <2>1, <2>2, <2>5, TourTypesSplit
  <2> QED BY <2>4, <2>5, TourTypesSplit
<1>7. \A j \in 1 .. Len(trReqs') : ServedEnd(j)' /\ trReqs'[j].status = "ok" /\ trReqs'[j].kind # "prepare" =>
                                     trReqs'[j].answer = <<trServer'>>
  BY <1>3, <1>6
<1>8. \A j \in 1 .. Len(trReqs') : trReqs'[j].status = "failed" \/ trReqs'[j].then = "goNowhere" => trPast'.failed
  BY <1>2, <1>3 DEF TourTypes
<1>9. trPage # "none"
  BY <1>2, TourTypesSplit DEF TourTypes
<1>10. trPage = "lost" => trPast'.failed
  BY <1>3 DEF TourTypes
<1> QED BY <1>2, <1>3, <1>4, <1>5, <1>7, <1>8, <1>9, <1>10, TourTypesSplit DEF TourTypes, TrTypeOK, TourPages, TourPasts

\* The page after an answer.
LEMMA PageAfterIs ==
  ASSUME TourTypes, NEW r, TourArrived(r), NEW page, page = WelcomePage(trLocal', PageAfter(r))
  PROVE  /\ page \in TourPages \ {"none"} /\ trPage # "none"
         /\ page = "lost" => trPast.failed
         /\ page = "welcome" => trPage = "welcome" /\ ~trLocal'.viewed
<1>1. /\ TourFits(r) /\ r = trReqs[1] /\ Len(trReqs) >= 1
  BY DEF TourArrived
<1>2. trPage # "none" /\ trPage \in TourPages /\ (trPage = "lost" => trPast.failed)
  BY <1>1, TourTypesSplit DEF TourTypes
<1>3. r.status = "failed" \/ r.then = "goNowhere" => trPast.failed
  BY <1>1, TourTypesSplit DEF TourTypes
<1>4. /\ PageAfter(r) \in TourPages \ {"none"} /\ (PageAfter(r) = "lost" => trPast.failed)
      /\ PageAfter(r) = "welcome" => trPage = "welcome"
  BY <1>2, <1>3 DEF PageAfter, TourPages
<1>5. page = IF PageAfter(r) = "welcome" /\ trLocal'.viewed THEN "other" ELSE PageAfter(r)
  BY DEF WelcomePage
<1> QED BY <1>2, <1>4, <1>5 DEF TourPages

LEMMA TourTypesArrived == ASSUME TourTypes, AnswerComes  PROVE TourTypes'
<1> DEFINE r == trReqs[1]
           page == WelcomePage(trLocal', PageAfter(r))
<1>1. TourArrived(r)
  BY ArrivedFacts
<1>2. page \in TourPages \ {"none"} /\ (page = "lost" => trPast.failed)
  BY <1>1, PageAfterIs
<1>3. trLocal' \in Preferences /\ ShowsTour(trLocal', page) /\ UNCHANGED <<trServer, trPast>>
  BY <1>1 DEF TourArrived
<1> HIDE DEF page
<1>4. /\ trPage' \in TourPages /\ trHidden' \in BOOLEAN /\ trSeen' \subseteq TipPlaces
      /\ trPage' \in {"board", "card", "other"} => trLocal'.viewed
      /\ trPage' # "none" /\ (trPage' = "lost" => trPast.failed)
  BY <1>2, <1>3, ShowsFacts
<1>5. /\ Len(trReqs) >= 1 /\ r.status # "sent" /\ TourFits(r)
      /\ trReqs' \in Seq(TourReqs)
      /\ \A i \in 1 .. Len(trReqs) - 1 : trReqs'[i] = trReqs[i + 1]
      /\ Len(trReqs') = Len(trReqs) - 1 \/ (Len(trReqs') = Len(trReqs) /\ Follows(trReqs'[Len(trReqs)], r))
  BY <1>1 DEF TourArrived
<1>6. \A i \in 1 .. Len(trReqs') : \/ i \in 1 .. Len(trReqs) - 1 /\ i + 1 \in 1 .. Len(trReqs) /\ trReqs'[i] = trReqs[i + 1]
                                   \/ i = Len(trReqs') /\ i = Len(trReqs) /\ Follows(trReqs'[i], r) /\ trReqs'[i].status = "sent"
  BY <1>5, TourTypesSplit DEF Follows
<1>7. \A i \in 1 .. Len(trReqs') : TourFits(trReqs'[i])
  BY <1>6, TourTypesSplit DEF Follows
<1>8. \A i, j \in 1 .. Len(trReqs') : i < j /\ trReqs'[j].status # "sent" => trReqs'[i].status # "sent"
  <2> SUFFICES ASSUME NEW i \in 1 .. Len(trReqs'), NEW j \in 1 .. Len(trReqs'), i < j, trReqs'[j].status # "sent"
               PROVE  trReqs'[i].status # "sent"
    OBVIOUS
  <2>1. j + 1 \in 1 .. Len(trReqs) /\ trReqs'[j] = trReqs[j + 1]
    BY <1>6
  <2>2. i + 1 \in 1 .. Len(trReqs) /\ trReqs'[i] = trReqs[i + 1] /\ i + 1 < j + 1
    BY <1>5, <2>1, TourTypesSplit
  <2> QED BY <2>1, <2>2 DEF TourTypes
<1>9. \A i \in 1 .. Len(trReqs') : ServedEnd(i)' /\ trReqs'[i].status = "ok" /\ trReqs'[i].kind # "prepare" =>
                                     trReqs'[i].answer = <<trServer'>>
  <2> SUFFICES ASSUME NEW i \in 1 .. Len(trReqs'), ServedEnd(i)', trReqs'[i].status = "ok", trReqs'[i].kind # "prepare"
               PROVE  trReqs'[i].answer = <<trServer'>>
    OBVIOUS
  <2>1. i + 1 \in 1 .. Len(trReqs) /\ trReqs'[i] = trReqs[i + 1]
    BY <1>6
  <2>2. i < Len(trReqs') => trReqs'[i + 1].status = "sent"
    BY DEF ServedEnd
  <2>3. i + 1 < Len(trReqs) => trReqs[i + 2].status = "sent"
    BY <1>5, <2>1, <2>2, TourTypesSplit
  <2>4. ServedEnd(i + 1)
    BY <2>1, <2>3 DEF ServedEnd
  <2> QED BY <1>3, <2>1, <2>4 DEF TourTypes
<1>10. \A i \in 1 .. Len(trReqs) : trReqs[i].status = "failed" \/ trReqs[i].then = "goNowhere" => trPast.failed
  BY DEF TourTypes
<1>11. \A i \in 1 .. Len(trReqs') : trReqs'[i].status = "failed" \/ trReqs'[i].then = "goNowhere" => trPast'.failed
  <2> SUFFICES ASSUME NEW i \in 1 .. Len(trReqs')
               PROVE  trReqs'[i].status = "failed" \/ trReqs'[i].then = "goNowhere" => trPast.failed
    BY <1>3
  <2>1. CASE trReqs'[i] = trReqs[i + 1] /\ i + 1 \in 1 .. Len(trReqs)
    BY <1>10, <2>1
  <2>2. CASE Follows(trReqs'[i], r)
    <3>1. 1 \in 1 .. Len(trReqs)
      BY <1>5, TourTypesSplit
    <3> QED BY <1>10, <2>2, <3>1 DEF Follows
  <2> QED BY <1>6, <2>1, <2>2
<1>12. TrTypeOK' /\ trPast' \in [races : Nat, failed : BOOLEAN, ended : BOOLEAN, mixed : BOOLEAN, jumped : BOOLEAN]
  BY <1>3, <1>4, TourTypesSplit DEF TrTypeOK, TourPages, TourPasts
<1>13. /\ trPage' = "none" => trReqs' = <<>>
       /\ trPage' \in {"board", "card", "other"} => trLocal'.viewed
       /\ trPage' = "lost" => trPast'.failed
  BY <1>3, <1>4
<1> QED BY <1>5, <1>7, <1>8, <1>9, <1>11, <1>12, <1>13 DEF TourTypes

LEMMA TourTypesStep == ASSUME TourTypes, TrNext  PROVE TourTypes'
<1>1. CASE OlderVersion
  <2>1. [viewed |-> TRUE, started |-> TRUE, category |-> TOUR_BOARD, step |-> FINISHED] \in Preferences
    BY PreferencesAre, CategoriesAre DEF TOUR_BOARD
  <2>2. trPage = "none" /\ trServer' \in Preferences /\ UNCHANGED <<trLocal, trPage, trHidden, trReqs, trSeen>>
    BY <1>1, <2>1 DEF OlderVersion
  <2>3. trPast' \in TourPasts /\ trPast'.failed = trPast.failed
    BY <1>1, TourTypesSplit DEF OlderVersion, TourPasts
  <2>4. trReqs = <<>>
    BY <2>2 DEF TourTypes
  <2>5. 1 .. Len(trReqs) = {}
    BY <2>4
  <2> QED BY <2>2, <2>3, <2>4, <2>5, TourTypesSplit DEF TourTypes, TrTypeOK, TourPages, TourPasts
<1>2. CASE LoadApp
  <2>1. trPage = "none" /\ ShowsTour(trServer, "other") /\ UNCHANGED <<trServer, trReqs, trPast>>
    BY <1>2 DEF LoadApp
  <2>2. trReqs = <<>>
    BY <2>1 DEF TourTypes
  <2>3. 1 .. Len(trReqs) = {}
    BY <2>2
  <2>4. "other" \in TourPages
    BY DEF TourPages
  <2>5. /\ trLocal' = trServer /\ trPage' \in TourPages /\ trHidden' \in BOOLEAN /\ trSeen' \subseteq TipPlaces
        /\ trPage' \in {"board", "card", "other"} => trServer.viewed
        /\ trPage' # "lost" /\ trPage' # "none"
    BY <2>1, <2>4, ShowsFacts, TourTypesSplit
  <2> QED BY <2>1, <2>2, <2>3, <2>5, TourTypesSplit DEF TourTypes, TrTypeOK, TourPages, TourPasts
<1>3. CASE TourLooked
  <2>1. UNCHANGED <<trServer, trLocal, trReqs, trPast>> /\ TourSeen
    BY <1>3 DEF TourLooked
  <2>2. /\ trPage' \in TourPages /\ trHidden' \in BOOLEAN /\ trSeen' \subseteq TipPlaces
        /\ trPage' = trPage \/ (trPage \in {"board", "card", "other"} /\ trPage' \in {"board", "card", "other"})
        /\ trPage' \in {"board", "card", "other"} => trLocal.viewed
    BY <2>1, SeenFacts
  <2>3. \A i \in 1 .. Len(trReqs) : ServedEnd(i)' <=> ServedEnd(i)
    BY <2>1 DEF ServedEnd
  <2> QED BY <2>1, <2>2, <2>3, TourTypesSplit DEF TourTypes, TrTypeOK, TourPages, TourPasts
<1>4. CASE LeaveLost
  <2>1. trReqs = <<>> /\ trPage' = "none" /\ UNCHANGED <<trServer, trLocal, trHidden, trReqs, trSeen, trPast>>
    BY <1>4 DEF LeaveLost
  <2>2. 1 .. Len(trReqs) = {}
    BY <2>1
  <2> QED BY <2>1, <2>2, TourTypesSplit DEF TourTypes, TrTypeOK, TourPages, TourPasts
<1> QED BY <1>1, <1>2, <1>3, <1>4, TourShape, TourTypesSent, TourTypesServed, TourTypesArrived

----------------------------------------------------------------------------
LEMMA RestartsSame ==
  ASSUME NEW q, NEW r, q.kind = r.kind, q.patch = r.patch
  PROVE  Restarts(q) <=> Restarts(r)
BY DEF Restarts

LEMMA OneRequestStep == ASSUME TourTypes, OneRequest, TrNext  PROVE OneRequest'
<1>0. trReqs \in Seq(TourReqs) /\ trPast \in TourPasts /\ Len(trReqs) \in Nat /\ \A i \in 1 .. Len(trReqs) : TourFits(trReqs[i])
  BY TourTypesSplit
<1>1. CASE UNCHANGED <<trReqs, trPast>>
  BY <1>1 DEF OneRequest
<1>2. CASE OlderVersion
  <2>1. trReqs = <<>> /\ trReqs' = trReqs
    BY <1>2 DEF OlderVersion, TourTypes
  <2>2. Len(trReqs') = 0
    BY <2>1
  <2> QED BY <2>2 DEF OneRequest
<1>3. CASE TourSent
  <2> PICK r, jumps :
           /\ Len(trReqs') = Len(trReqs) + 1
           /\ \A i \in 1 .. Len(trReqs) : trReqs'[i] = trReqs[i]
           /\ trReqs'[Len(trReqs) + 1] = r
           /\ trPast'.races = trPast.races + Len(trReqs)
           /\ trPast'.jumped <=> (trPast.jumped \/ jumps \/ Len(trReqs) # 0)
           /\ trPast'.mixed <=> (trPast.mixed \/ (Len(trReqs) # 0 /\ (Restarts(r) \/ \E i \in 1 .. Len(trReqs) : Restarts(trReqs[i]))))
    BY <1>3, SentFacts
  <2>1. trPast'.races = 0 \/ ~trPast'.jumped => Len(trReqs) = 0
    BY <1>0 DEF TourPasts
  <2>2. ASSUME ~trPast'.mixed, NEW i \in 1 .. Len(trReqs'), Restarts(trReqs'[i])
        PROVE  Len(trReqs') = 1
    BY <1>0, <2>2
  <2> QED BY <1>0, <2>1, <2>2 DEF OneRequest
<1>4. CASE ServeConfig
  <2> PICK k \in 1 .. Len(trReqs) : TookIt(k) \/ RefusedIt(k)
    BY <1>4, ServedFacts
  <2>1. Took(k)
    BY DEF TookIt, RefusedIt
  <2>2. /\ Len(trReqs') = Len(trReqs) /\ \A j \in 1 .. Len(trReqs) : j # k => trReqs'[j] = trReqs[j]
        /\ trReqs'[k].kind = trReqs[k].kind /\ trReqs'[k].patch = trReqs[k].patch /\ trReqs'[k].then = trReqs[k].then
        /\ trPast'.races = trPast.races /\ trPast'.mixed = trPast.mixed /\ trPast'.jumped = trPast.jumped
    BY <2>1 DEF Took
  <2>3. \A i \in 1 .. Len(trReqs) : (Restarts(trReqs'[i]) <=> Restarts(trReqs[i])) /\ trReqs'[i].then = trReqs[i].then
    BY <2>2, RestartsSame
  <2> QED BY <2>2, <2>3 DEF OneRequest
<1>5. CASE AnswerComes
  <2> DEFINE r == trReqs[1]
  <2>1. TourArrived(r)
    BY <1>5, ArrivedFacts
  <2>2. /\ Len(trReqs) >= 1 /\ TourFits(r) /\ trPast' = trPast
        /\ \A i \in 1 .. Len(trReqs) - 1 : trReqs'[i] = trReqs[i + 1]
        /\ Len(trReqs') = Len(trReqs) - 1 \/ (Len(trReqs') = Len(trReqs) /\ Follows(trReqs'[Len(trReqs)], r))
    BY <2>1 DEF TourArrived
  <2>3. ASSUME ~trPast.mixed, NEW i \in 1 .. Len(trReqs'), Restarts(trReqs'[i]), trReqs'[i].then # "prepared"
        PROVE  Len(trReqs') = 1
    <3>1. CASE i \in 1 .. Len(trReqs) - 1
      <4>1. i + 1 \in 1 .. Len(trReqs) /\ trReqs'[i] = trReqs[i + 1]
        BY <1>0, <2>2, <3>1
      <4>2. Len(trReqs) = 1
        BY <2>3, <4>1 DEF OneRequest
      <4> QED BY <3>1, <4>2
    <3>2. CASE Len(trReqs') = Len(trReqs) /\ Follows(trReqs'[Len(trReqs)], r) /\ i = Len(trReqs)
      <4> DEFINE x == trReqs'[i]
      <4>1. Follows(x, r) /\ TourFits(x)
        BY <3>2 DEF Follows
      <4>2. x.kind # "fetch" /\ x.then # "skipped"
        BY <2>3, <4>1, ReqFacts
      <4>3. r.then = "productTour"
        BY <2>3, <4>1, <4>2 DEF Follows
      <4>4. Restarts(r) /\ r.then # "prepared" /\ 1 \in 1 .. Len(trReqs)
        BY <1>0, <2>2, <4>3, ReqFacts
      <4> QED BY <2>3, <3>2, <4>4 DEF OneRequest
    <3> QED BY <1>0, <2>2, <3>1, <3>2
  <2> QED BY <1>0, <2>2, <2>3 DEF OneRequest
<1>6. TourLooked \/ LoadApp \/ LeaveLost => UNCHANGED <<trReqs, trPast>>
  BY DEF TourLooked, LoadApp, LeaveLost
<1> QED BY <1>1, <1>2, <1>3, <1>4, <1>5, <1>6, TourShape

----------------------------------------------------------------------------
(***************************************************************************)
(* The welcome page.                                                        *)
(***************************************************************************)
BeforeTour == <<"", NoStep>>
AfterTour == <<"sidebar", FINISHED>>
Welcomes(r) == r.then \in {"startTour", "skipTour"}

\* While nothing failed, the page is there only until it was seen, and then it
\* was seen for the server, too.
WelcomeInv ==
  ~trPast.failed =>
    /\ trPage = "none" => trServer = FirstPreferences \/ (trServer.viewed /\ PlaceOf(trServer) = <<"board", FINISHED>>)
    /\ trPage = "welcome" =>
         /\ PlaceOf(trLocal) = BeforeTour /\ PlaceOf(trServer) = BeforeTour
         /\ \A i \in 1 .. Len(trReqs) : Welcomes(trReqs[i])
    /\ trPage \in {"board", "card", "other"} => trServer.viewed
    /\ \A i \in 1 .. Len(trReqs) : trReqs[i].status = "ok" => trServer.viewed
    /\ \A i \in 1 .. Len(trReqs), cfg \in Preferences : trReqs[i].status = "ok" /\ trReqs[i].answer = <<cfg>> => cfg.viewed

LEMMA FirstIs ==
  FirstPreferences \in Preferences /\ ~FirstPreferences.viewed /\ ~FirstPreferences.started /\ PlaceOf(FirstPreferences) = BeforeTour
<1> DEFINE c == ""
<1>1. c \in TourCategories
  BY Zenon DEF TourCategories
<1>2. FirstPreferences = [viewed |-> FALSE, started |-> FALSE, category |-> c, step |-> NoStep]
  BY Zenon DEF FirstPreferences
<1>3. BeforeTour = <<c, NoStep>>
  BY Zenon DEF BeforeTour
<1> HIDE DEF c
<1> QED BY <1>1, <1>2, <1>3, PreferencesAre DEF PlaceOf

LEMMA WelcomeClicked ==
  ASSUME TourTypes, NEW r, NEW jumps, TourClick(r, jumps), trPage = "welcome"
  PROVE  Welcomes(r)
<1>1. trLocal \in Preferences
  BY DEF TourTypes, TrTypeOK
<1>2. \A t \in TipsShown : trPage \in t.pages /\ "welcome" \notin t.pages
  BY <1>1, ShownAt, TipsAre DEF TipsShown
<1> QED BY <1>2 DEF TourClick, Welcomes

LEMMA WelcomeStep == ASSUME TourTypes, WelcomeInv, TrNext, TourTypes'  PROVE WelcomeInv'
<1> SUFFICES ASSUME ~trPast'.failed  PROVE WelcomeInv'
  BY DEF WelcomeInv
<1>0. trReqs \in Seq(TourReqs) /\ Len(trReqs) \in Nat /\ (\A i \in 1 .. Len(trReqs) : TourFits(trReqs[i]))
      /\ trServer \in Preferences /\ trLocal \in Preferences
  BY TourTypesSplit
<1>1. CASE OlderVersion
  <2>1. /\ trPage' = "none" /\ trReqs = <<>> /\ trReqs' = trReqs
        /\ trServer' = [viewed |-> TRUE, started |-> TRUE, category |-> "board", step |-> FINISHED]
    BY <1>1 DEF OlderVersion, TourTypes, TOUR_BOARD
  <2>2. trServer'.viewed /\ PlaceOf(trServer') = <<"board", FINISHED>> /\ Len(trReqs') = 0
    BY <2>1 DEF PlaceOf
  <2> QED BY <2>1, <2>2 DEF WelcomeInv
<1>2. CASE LoadApp
  <2>1. trPage = "none" /\ ShowsTour(trServer, "other") /\ UNCHANGED <<trServer, trReqs, trPast>>
    BY <1>2 DEF LoadApp
  <2>2. trReqs = <<>> /\ "other" \in TourPages
    BY <2>1 DEF TourTypes, TourPages
  <2>3. Len(trReqs') = 0
    BY <2>1, <2>2
  <2>4. trLocal' = trServer /\ trPage' = IF ~trServer.viewed THEN "welcome" ELSE "other"
    BY <1>0, <2>1, <2>2, ShowsFacts
  <2>5. trServer = FirstPreferences \/ trServer.viewed
    BY <2>1 DEF WelcomeInv
  <2> QED BY <2>1, <2>3, <2>4, <2>5, FirstIs DEF WelcomeInv
<1>3. CASE TourSent
  <2>1. trLocal' = trLocal /\ trServer' = trServer /\ TourSeen
    BY <1>3 DEF TourSent
  <2>2. trPage' = trPage \/ (trPage \in {"board", "card", "other"} /\ trPage' \in {"board", "card", "other"})
    BY <2>1, SeenFacts
  <2> PICK r, jumps :
           /\ r.status = "sent" /\ TourClick(r, jumps)
           /\ Len(trReqs') = Len(trReqs) + 1
           /\ \A i \in 1 .. Len(trReqs) : trReqs'[i] = trReqs[i]
           /\ trReqs'[Len(trReqs) + 1] = r
           /\ trPast'.failed = trPast.failed
    BY <1>3, SentFacts
  <2>3. trPage # "none"
    BY ClickedOn
  <2>4. trPage = "welcome" => Welcomes(r)
    BY WelcomeClicked
  <2>5. \A i \in 1 .. Len(trReqs') : (i \in 1 .. Len(trReqs) /\ trReqs'[i] = trReqs[i]) \/ trReqs'[i] = r
    BY <1>0
  <2> QED BY <2>1, <2>2, <2>3, <2>4, <2>5 DEF WelcomeInv
<1>4. CASE TourLooked
  <2>1. UNCHANGED <<trServer, trLocal, trReqs, trPast>> /\ TourSeen
    BY <1>4 DEF TourLooked
  <2>2. trPage' = trPage \/ (trPage \in {"board", "card", "other"} /\ trPage' \in {"board", "card", "other"})
    BY <2>1, SeenFacts
  <2> QED BY <2>1, <2>2 DEF WelcomeInv
<1>5. CASE LeaveLost
  BY <1>5 DEF LeaveLost, TourTypes
<1>6. CASE ServeConfig
  <2> PICK k \in 1 .. Len(trReqs) : TookIt(k) \/ RefusedIt(k)
    BY <1>6, ServedFacts
  <2>1. TookIt(k) /\ Took(k)
    BY DEF TookIt, RefusedIt
  <2>2. /\ Len(trReqs') = Len(trReqs) /\ \A j \in 1 .. Len(trReqs) : j # k => trReqs'[j] = trReqs[j]
        /\ trReqs'[k].then = trReqs[k].then /\ UNCHANGED <<trLocal, trPage>>
        /\ trReqs'[k].answer = <<trServer'>> /\ trServer' \in Preferences
        /\ trServer' = TourEffect(trServer, trReqs[k]) /\ ~trPast.failed
    BY <2>1 DEF TookIt, Took
  <2>3. /\ trServer'.viewed <=> trServer.viewed \/ Welcomes(trReqs[k])
        /\ Welcomes(trReqs[k]) => trServer'.category = trServer.category /\ trServer'.step = trServer.step
    BY <1>0, <2>2, EffectIs DEF Welcomes
  <2>4. trPage \in {"welcome", "board", "card", "other"}
    BY <1>0, <2>2, TourTypesSplit DEF TourTypes, TourPages
  <2>5. trServer'.viewed
    BY <2>2, <2>3, <2>4 DEF WelcomeInv
  <2>6. trPage = "welcome" => PlaceOf(trServer') = PlaceOf(trServer)
    BY <2>2, <2>3 DEF WelcomeInv, PlaceOf
  <2>7. \A i \in 1 .. Len(trReqs) : Welcomes(trReqs'[i]) <=> Welcomes(trReqs[i])
    BY <2>2 DEF Welcomes
  <2>8. \A i \in 1 .. Len(trReqs), cfg \in Preferences : trReqs'[i].status = "ok" /\ trReqs'[i].answer = <<cfg>> => cfg.viewed
    BY <2>2, <2>5 DEF WelcomeInv
  <2> QED BY <2>2, <2>4, <2>5, <2>6, <2>7, <2>8 DEF WelcomeInv
<1>7. CASE AnswerComes
  <2> DEFINE r == trReqs[1]
             page == WelcomePage(trLocal', PageAfter(r))
  <2>1. TourArrived(r)
    BY <1>7, ArrivedFacts
  <2>2. /\ Len(trReqs) >= 1 /\ TourFits(r) /\ UNCHANGED <<trServer, trPast>> /\ trLocal' \in Preferences
        /\ r.status \in {"ok", "failed"}
        /\ r.kind # "prepare" /\ r.status = "ok" => r.answer = <<trLocal'>>
        /\ r.kind = "prepare" \/ r.status = "failed" => trLocal' = trLocal
        /\ \A i \in 1 .. Len(trReqs) - 1 : trReqs'[i] = trReqs[i + 1]
        /\ Len(trReqs') = Len(trReqs) - 1 \/ (Len(trReqs') = Len(trReqs) /\ Follows(trReqs'[Len(trReqs)], r))
        /\ ShowsTour(trLocal', page)
    BY <2>1, ReqFacts DEF TourArrived
  <2>3. page \in TourPages \ {"none"} /\ trPage # "none" /\ (page = "lost" => trPast.failed)
        /\ (page = "welcome" => trPage = "welcome" /\ ~trLocal'.viewed)
    BY <2>1, PageAfterIs
  <2> HIDE DEF page
  <2>4. 1 \in 1 .. Len(trReqs) /\ ~trPast.failed
    BY <1>0, <2>2
  <2>5. r.status = "ok"
    BY <2>2, <2>4 DEF TourTypes
  <2>6. trLocal'.viewed
    <3>1. CASE r.kind # "prepare"
      BY <2>2, <2>4, <2>5, <3>1 DEF WelcomeInv
    <3>2. CASE r.kind = "prepare"
      <4>1. ~Welcomes(r)
        BY <2>2, <3>2, ReqFacts DEF Welcomes
      <4>2. trPage \in {"board", "card", "other"}
        BY <2>3, <2>4, <4>1, TourTypesSplit DEF WelcomeInv, TourTypes, TourPages
      <4> QED BY <2>2, <3>2, <4>2 DEF TourTypes
    <3> QED BY <3>1, <3>2
  <2>7. trPage' = page
    BY <2>2, <2>3, <2>6, ShowsFacts
  <2>8. page \in {"board", "card", "other"}
    BY <2>3, <2>4, <2>6 DEF TourPages
  <2>9. trServer.viewed
    BY <2>4, <2>5 DEF WelcomeInv
  <2>10. ASSUME NEW i \in 1 .. Len(trReqs'), NEW cfg \in Preferences, trReqs'[i].status = "ok", trReqs'[i].answer = <<cfg>>
         PROVE  cfg.viewed
    <3>1. i + 1 \in 1 .. Len(trReqs) /\ trReqs'[i] = trReqs[i + 1]
      BY <1>0, <2>2, <2>10 DEF Follows
    <3> QED BY <2>4, <2>10, <3>1 DEF WelcomeInv
  <2> QED BY <2>2, <2>7, <2>8, <2>9, <2>10 DEF WelcomeInv
<1> QED BY <1>1, <1>2, <1>3, <1>4, <1>5, <1>6, <1>7, TourShape

Welcomed(r) == r.then \in {"prepared", "skipped"}
Starting == \E i \in 1 .. Len(trReqs) : Welcomes(trReqs[i]) \/ Welcomed(trReqs[i])

\* While the page's requests are under way nothing else is, and no tip is shown:
\* those that say that the page was seen come first, the fetches last.
StartInv ==
  ~trPast.failed /\ ~trPast.mixed /\ Starting =>
    /\ \A i \in 1 .. Len(trReqs) : Welcomes(trReqs[i]) \/ Welcomed(trReqs[i]) \/ trReqs[i].kind = "fetch"
    /\ PlaceOf(trLocal) \in {BeforeTour, AfterTour}
    /\ \A i, j \in 1 .. Len(trReqs) :
         /\ i < j /\ Welcomes(trReqs[j]) => Welcomes(trReqs[i])
         /\ i < j /\ trReqs[i].kind = "fetch" => trReqs[j].kind = "fetch"
         /\ Welcomes(trReqs[i]) => trReqs[j].kind # "fetch"
    /\ \A i \in 1 .. Len(trReqs) : Welcomes(trReqs[i]) /\ trReqs[i].status = "sent" => PlaceOf(trServer) = BeforeTour
    /\ \A i \in 1 .. Len(trReqs), cfg \in Preferences :
         trReqs[i].status = "ok" /\ trReqs[i].answer = <<cfg>> =>
           /\ Welcomes(trReqs[i]) => PlaceOf(cfg) = BeforeTour
           /\ trReqs[i].then = "skipped" => PlaceOf(cfg) = AfterTour

LEMMA PlacesApart ==
  /\ \A c \in {"base", "card", "board", "sidebar"}, s \in {0, 1, 2, FINISHED} : <<c, s>> # BeforeTour
  /\ \A c \in {"base", "card", "board", "sidebar"}, s \in 0 .. 2 : <<c, s>> # AfterTour
  /\ <<"board", FINISHED>> # AfterTour
<1>1. NoStep \notin {0, 1, 2, FINISHED} /\ FINISHED \notin 0 .. 2
  BY DEF NoStep, FINISHED
<1>2. \A c, d, s, t : <<c, s>> = <<d, t>> => c = d /\ s = t
  OBVIOUS
<1>3. \A c \in {"base", "card", "board", "sidebar"}, s \in {0, 1, 2, FINISHED} : <<c, s>> # BeforeTour
  BY <1>1, <1>2, Zenon DEF BeforeTour
<1>4. \A c \in {"base", "card", "board", "sidebar"}, s \in 0 .. 2 : <<c, s>> # AfterTour
  BY <1>1, <1>2, Zenon DEF AfterTour
<1> QED BY <1>2, <1>3, <1>4 DEF AfterTour

\* Where no tip is shown only the welcome page and the starts of a tour send anything.
LEMMA NoTipNoClick ==
  ASSUME TourTypes, NEW r, NEW jumps, TourFits(r), TourClick(r, jumps), PlaceOf(trLocal) \in {BeforeTour, AfterTour}
  PROVE  (Welcomes(r) /\ trPage = "welcome") \/ Restarts(r)
<1>1. trLocal \in Preferences
  BY DEF TourTypes, TrTypeOK
<1>2. \A t \in TipsShown : PlaceOf(trLocal) = <<t.category, t.step>> /\ t.category \in {"base", "card", "board", "sidebar"} /\ t.step \in 0 .. 2
  BY <1>1, ShownAt, TipsAre DEF TipsShown
<1>3. TipsShown = {}
  BY <1>2, PlacesApart
<1>4. PlaceOf(trLocal) # <<"base", 0>> /\ PlaceOf(trLocal) # <<"board", FINISHED>>
  BY PlacesApart
<1>5. r.patch = RestartTour(TOUR_BASE) \/ r.then = "productTour" => Restarts(r)
  <2>1. "1" # "keep"
    OBVIOUS
  <2>2. RestartTour(TOUR_BASE).started # Kept
    BY <2>1, PatchIs, Zenon DEF Kept
  <2> QED BY <2>2, ReqFacts DEF Restarts
<1> QED BY <1>3, <1>4, <1>5 DEF TourClick, Welcomes

LEMMA StartSent == ASSUME TourTypes, WelcomeInv, StartInv, TourSent  PROVE StartInv'
<1>0. trReqs \in Seq(TourReqs) /\ Len(trReqs) \in Nat /\ \A i \in 1 .. Len(trReqs) : TourFits(trReqs[i])
  BY TourTypesSplit
<1>1. trLocal' = trLocal /\ trServer' = trServer
  BY DEF TourSent
<1> PICK r, jumps :
      /\ TourFits(r) /\ r.status = "sent" /\ TourClick(r, jumps)
      /\ Len(trReqs') = Len(trReqs) + 1
      /\ \A i \in 1 .. Len(trReqs) : trReqs'[i] = trReqs[i]
      /\ trReqs'[Len(trReqs) + 1] = r
      /\ trPast'.failed = trPast.failed
      /\ trPast'.mixed <=> (trPast.mixed \/ (Len(trReqs) # 0 /\ (Restarts(r) \/ \E i \in 1 .. Len(trReqs) : Restarts(trReqs[i]))))
  BY SentFacts
<1> SUFFICES ASSUME ~trPast'.failed, ~trPast'.mixed, Starting'  PROVE StartInv'
  BY DEF StartInv
<1>2. \A i \in 1 .. Len(trReqs') : (i \in 1 .. Len(trReqs) /\ trReqs'[i] = trReqs[i]) \/ (i = Len(trReqs) + 1 /\ trReqs'[i] = r)
  BY <1>0
<1>3. Welcomes(r) => r.kind # "fetch"
  BY DEF TourFits, Welcomes
<1>4. CASE Starting
  <2>1. PlaceOf(trLocal) \in {BeforeTour, AfterTour} /\ Len(trReqs) # 0
    BY <1>0, <1>4 DEF StartInv, Starting
  <2>2. Welcomes(r) /\ trPage = "welcome"
    BY <2>1, NoTipNoClick
  <2>3. PlaceOf(trServer) = BeforeTour /\ \A i \in 1 .. Len(trReqs) : Welcomes(trReqs[i])
    BY <2>2 DEF WelcomeInv
  <2>4. \A i \in 1 .. Len(trReqs') : Welcomes(trReqs'[i]) /\ trReqs'[i].kind # "fetch"
    BY <1>0, <1>2, <2>2, <2>3 DEF TourFits, Welcomes
  <2>5. \A i \in 1 .. Len(trReqs'), cfg \in Preferences :
          trReqs'[i].status = "ok" /\ trReqs'[i].answer = <<cfg>> => PlaceOf(cfg) = BeforeTour /\ trReqs'[i].then # "skipped"
    BY <1>2, <1>4, <2>2, <2>4 DEF StartInv, Welcomes
  <2> QED BY <1>1, <2>1, <2>3, <2>4, <2>5 DEF StartInv
<1>5. CASE ~Starting
  <2>1. Welcomes(r) \/ Welcomed(r)
    BY <1>2, <1>5 DEF Starting
  <2>2. Welcomes(r) /\ trPage = "welcome"
    BY <2>1 DEF TourClick, Welcomes, Welcomed
  <2>3. /\ PlaceOf(trServer) = BeforeTour /\ PlaceOf(trLocal) = BeforeTour
        /\ \A i \in 1 .. Len(trReqs) : Welcomes(trReqs[i])
    BY <2>2 DEF WelcomeInv
  <2>4. Len(trReqs) = 0
    BY <1>0, <1>5, <2>3 DEF Starting
  <2>5. \A i \in 1 .. Len(trReqs') : i = 1 /\ trReqs'[i] = r
    BY <1>2, <2>4
  <2> QED BY <1>1, <1>3, <2>2, <2>3, <2>5 DEF StartInv
<1> QED BY <1>4, <1>5

LEMMA StartServed == ASSUME TourTypes, StartInv, ServeConfig  PROVE StartInv'
<1>0. trReqs \in Seq(TourReqs) /\ Len(trReqs) \in Nat /\ (\A i \in 1 .. Len(trReqs) : TourFits(trReqs[i]))
      /\ trServer \in Preferences
  BY TourTypesSplit
<1> SUFFICES ASSUME ~trPast'.failed, ~trPast'.mixed, Starting'  PROVE StartInv'
  BY DEF StartInv
<1> PICK k \in 1 .. Len(trReqs) : TookIt(k) \/ RefusedIt(k)
  BY ServedFacts
<1>1. TookIt(k) /\ Took(k)
  BY DEF TookIt, RefusedIt
<1>2. /\ Len(trReqs') = Len(trReqs) /\ \A j \in 1 .. Len(trReqs) : j # k => trReqs'[j] = trReqs[j]
      /\ trReqs[k].status = "sent" /\ \A j \in 1 .. k - 1 : trReqs[j].status # "sent"
      /\ trReqs'[k].then = trReqs[k].then /\ trReqs'[k].kind = trReqs[k].kind /\ trLocal' = trLocal
      /\ trReqs'[k].answer = <<trServer'>> /\ trServer' \in Preferences /\ trReqs'[k].status = "ok"
      /\ trServer' = TourEffect(trServer, trReqs[k]) /\ ~trPast.failed /\ ~trPast.mixed
  BY <1>1 DEF TookIt, Took
<1>3. \A i \in 1 .. Len(trReqs) : /\ Welcomes(trReqs'[i]) <=> Welcomes(trReqs[i])
                                  /\ Welcomed(trReqs'[i]) <=> Welcomed(trReqs[i])
                                  /\ trReqs'[i].kind = trReqs[i].kind /\ trReqs'[i].then = trReqs[i].then
  BY <1>2 DEF Welcomes, Welcomed
<1>4. Starting
  BY <1>2, <1>3 DEF Starting
<1>5. /\ Welcomes(trReqs[k]) => PlaceOf(trServer') = BeforeTour
      /\ trReqs[k].then = "skipped" => PlaceOf(trServer') = AfterTour
  <2>1. /\ Welcomes(trReqs[k]) => trServer'.category = trServer.category /\ trServer'.step = trServer.step
        /\ trReqs[k].then = "skipped" => trServer'.category = "sidebar" /\ trServer'.step = FINISHED
    BY <1>0, <1>2, EffectIs DEF Welcomes
  <2>2. Welcomes(trReqs[k]) => PlaceOf(trServer) = BeforeTour
    BY <1>2, <1>4 DEF StartInv
  <2> QED BY <2>1, <2>2 DEF PlaceOf, AfterTour
<1>6. \A i \in 1 .. Len(trReqs') : Welcomes(trReqs'[i]) /\ trReqs'[i].status = "sent" => PlaceOf(trServer') = BeforeTour
  <2> SUFFICES ASSUME NEW i \in 1 .. Len(trReqs), Welcomes(trReqs'[i]), trReqs'[i].status = "sent"
               PROVE  Welcomes(trReqs[k])
    BY <1>2, <1>5
  <2>1. i # k /\ trReqs'[i] = trReqs[i] /\ Welcomes(trReqs[i]) /\ i \notin 1 .. k - 1
    BY <1>2, <1>3
  <2>2. k < i
    BY <1>0, <2>1
  <2> QED BY <1>2, <1>4, <2>1, <2>2 DEF StartInv
<1>7. \A i \in 1 .. Len(trReqs'), cfg \in Preferences :
         trReqs'[i].status = "ok" /\ trReqs'[i].answer = <<cfg>> =>
           /\ Welcomes(trReqs'[i]) => PlaceOf(cfg) = BeforeTour
           /\ trReqs'[i].then = "skipped" => PlaceOf(cfg) = AfterTour
  <2> SUFFICES ASSUME NEW i \in 1 .. Len(trReqs), NEW cfg \in Preferences, trReqs'[i].status = "ok", trReqs'[i].answer = <<cfg>>
               PROVE  /\ Welcomes(trReqs'[i]) => PlaceOf(cfg) = BeforeTour
                      /\ trReqs'[i].then = "skipped" => PlaceOf(cfg) = AfterTour
    BY <1>2
  <2>1. CASE i = k
    <3>1. cfg = trServer'
      BY <1>2, <2>1
    <3> QED BY <1>3, <1>5, <2>1, <3>1
  <2>2. CASE i # k
    BY <1>2, <1>4, <2>2 DEF StartInv
  <2> QED BY <2>1, <2>2
<1>8. /\ \A i \in 1 .. Len(trReqs') : Welcomes(trReqs'[i]) \/ Welcomed(trReqs'[i]) \/ trReqs'[i].kind = "fetch"
      /\ PlaceOf(trLocal') \in {BeforeTour, AfterTour}
  BY <1>2, <1>3, <1>4 DEF StartInv
<1>9. \A i, j \in 1 .. Len(trReqs') :
         /\ i < j /\ Welcomes(trReqs'[j]) => Welcomes(trReqs'[i])
         /\ i < j /\ trReqs'[i].kind = "fetch" => trReqs'[j].kind = "fetch"
         /\ Welcomes(trReqs'[i]) => trReqs'[j].kind # "fetch"
  BY <1>2, <1>3, <1>4 DEF StartInv
<1> QED BY <1>6, <1>7, <1>8, <1>9 DEF StartInv

LEMMA StartAnswered == ASSUME TourTypes, StartInv, AnswerComes  PROVE StartInv'
<1>0. trReqs \in Seq(TourReqs) /\ Len(trReqs) \in Nat /\ (\A i \in 1 .. Len(trReqs) : TourFits(trReqs[i]))
  BY TourTypesSplit
<1> DEFINE r == trReqs[1]
<1>1. TourArrived(r)
  BY ArrivedFacts
<1>2. /\ Len(trReqs) >= 1 /\ TourFits(r) /\ UNCHANGED <<trServer, trPast>> /\ trLocal' \in Preferences
      /\ r.status \in {"ok", "failed"}
      /\ r.kind # "prepare" /\ r.status = "ok" => r.answer = <<trLocal'>>
      /\ r.kind = "prepare" \/ r.status = "failed" => trLocal' = trLocal
      /\ \A i \in 1 .. Len(trReqs) - 1 : trReqs'[i] = trReqs[i + 1]
      /\ \/ Len(trReqs') = Len(trReqs) - 1
         \/ Len(trReqs') = Len(trReqs) /\ Follows(trReqs'[Len(trReqs)], r)
  BY <1>1, ReqFacts DEF TourArrived
<1> SUFFICES ASSUME ~trPast'.failed, ~trPast'.mixed, Starting'  PROVE StartInv'
  BY DEF StartInv
<1>3. ~trPast.failed /\ ~trPast.mixed /\ 1 \in 1 .. Len(trReqs)
  BY <1>0, <1>2
<1>4. r.status = "ok"
  BY <1>2, <1>3 DEF TourTypes
<1>5. \A i \in 1 .. Len(trReqs') :
        \/ i \in 1 .. Len(trReqs) - 1 /\ i + 1 \in 1 .. Len(trReqs) /\ trReqs'[i] = trReqs[i + 1]
        \/ i = Len(trReqs) /\ i = Len(trReqs') /\ Follows(trReqs'[i], r)
  BY <1>0, <1>2
<1>6. \A x : Follows(x, r) => /\ x.status = "sent" /\ ~Welcomes(x) /\ (Welcomed(x) => Welcomes(r) /\ x.kind # "fetch")
                              /\ (x.kind = "fetch" => r.then = "prepared")
                              /\ (Welcomes(r) => Welcomed(x) /\ x.kind # "fetch")
                              /\ (r.then = "prepared" => x.kind = "fetch")
  BY DEF Follows, Welcomes, Welcomed, TourFits
<1>7. Starting
  BY <1>3, <1>5, <1>6 DEF Starting
<1>8. Welcomes(r) \/ Welcomed(r)
  <2>1. SUFFICES ASSUME r.kind = "fetch"  PROVE FALSE
    BY <1>3, <1>7 DEF StartInv
  <2>2. \A i \in 1 .. Len(trReqs) : trReqs[i].kind = "fetch"
    BY <1>0, <1>3, <1>7, <2>1 DEF StartInv
  <2>3. ~Welcomes(r)
    BY <1>2, <2>1 DEF TourFits, Welcomes
  <2>4. \A i \in 1 .. Len(trReqs) : ~Welcomes(trReqs[i]) /\ ~Welcomed(trReqs[i])
    BY <1>0, <2>2 DEF TourFits, Welcomes, Welcomed
  <2> QED BY <1>7, <2>4 DEF Starting
<1>9. PlaceOf(trLocal') \in {BeforeTour, AfterTour}
  <2>1. CASE r.then = "prepared"
    BY <1>2, <1>3, <1>7, <2>1 DEF StartInv, TourFits
  <2>2. CASE r.then # "prepared"
    <3>1. r.kind # "prepare" /\ r.answer = <<trLocal'>>
      BY <1>2, <1>4, <1>8, <2>2, ReqFacts DEF Welcomes, Welcomed
    <3>2. Welcomes(r) \/ r.then = "skipped"
      BY <1>8, <2>2 DEF Welcomed
    <3> QED BY <1>2, <1>3, <1>4, <1>7, <3>1, <3>2 DEF StartInv
  <2> QED BY <2>1, <2>2
<1>10. \A i \in 1 .. Len(trReqs') : Welcomes(trReqs'[i]) \/ Welcomed(trReqs'[i]) \/ trReqs'[i].kind = "fetch"
  <2> SUFFICES ASSUME NEW i \in 1 .. Len(trReqs')
               PROVE  Welcomes(trReqs'[i]) \/ Welcomed(trReqs'[i]) \/ trReqs'[i].kind = "fetch"
    OBVIOUS
  <2>1. CASE i + 1 \in 1 .. Len(trReqs) /\ trReqs'[i] = trReqs[i + 1]
    BY <1>3, <1>7, <2>1 DEF StartInv
  <2>2. CASE Follows(trReqs'[i], r)
    BY <1>6, <1>8, <2>2 DEF Follows, Welcomed
  <2> QED BY <1>5, <2>1, <2>2
<1>11. \A i, j \in 1 .. Len(trReqs') :
         /\ i < j /\ Welcomes(trReqs'[j]) => Welcomes(trReqs'[i])
         /\ i < j /\ trReqs'[i].kind = "fetch" => trReqs'[j].kind = "fetch"
         /\ Welcomes(trReqs'[i]) => trReqs'[j].kind # "fetch"
  <2> SUFFICES ASSUME NEW i \in 1 .. Len(trReqs'), NEW j \in 1 .. Len(trReqs')
               PROVE  /\ i < j /\ Welcomes(trReqs'[j]) => Welcomes(trReqs'[i])
                      /\ i < j /\ trReqs'[i].kind = "fetch" => trReqs'[j].kind = "fetch"
                      /\ Welcomes(trReqs'[i]) => trReqs'[j].kind # "fetch"
    OBVIOUS
  <2>0. \A m, n \in 1 .. Len(trReqs) :
         /\ m < n /\ Welcomes(trReqs[n]) => Welcomes(trReqs[m])
         /\ m < n /\ trReqs[m].kind = "fetch" => trReqs[n].kind = "fetch"
         /\ Welcomes(trReqs[m]) => trReqs[n].kind # "fetch"
    BY <1>3, <1>7 DEF StartInv
  <2>1. CASE i + 1 \in 1 .. Len(trReqs) /\ trReqs'[i] = trReqs[i + 1] /\ j + 1 \in 1 .. Len(trReqs) /\ trReqs'[j] = trReqs[j + 1]
    BY <1>0, <2>0, <2>1
  <2>2. CASE i = Len(trReqs') /\ Follows(trReqs'[i], r)
    <3>1. ~(i < j) /\ ~Welcomes(trReqs'[i])
      BY <1>0, <1>2, <1>6, <2>2
    <3> QED BY <3>1
  <2>3. CASE i + 1 \in 1 .. Len(trReqs) /\ trReqs'[i] = trReqs[i + 1] /\ Follows(trReqs'[j], r)
    <3>1. ~Welcomes(trReqs'[j])
      BY <1>6, <2>3
    <3>2. trReqs'[i].kind = "fetch" => ~Welcomes(r)
      BY <1>3, <2>0, <2>3
    <3>3. Welcomes(trReqs'[i]) => Welcomes(r)
      <4>1. 1 < i + 1
        BY <1>0
      <4> QED BY <1>3, <2>0, <2>3, <4>1
    <3>4. Welcomes(r) => trReqs'[j].kind # "fetch"
      BY <1>6, <2>3
    <3>5. ~Welcomes(r) => trReqs'[j].kind = "fetch"
      BY <1>6, <1>8, <2>3 DEF Follows, Welcomed
    <3> QED BY <3>1, <3>2, <3>3, <3>4, <3>5
  <2> QED BY <1>5, <2>1, <2>2, <2>3
<1>12. \A i \in 1 .. Len(trReqs') : Welcomes(trReqs'[i]) /\ trReqs'[i].status = "sent" => PlaceOf(trServer') = BeforeTour
  BY <1>2, <1>3, <1>5, <1>6, <1>7 DEF StartInv
<1>13. \A i \in 1 .. Len(trReqs'), cfg \in Preferences :
         trReqs'[i].status = "ok" /\ trReqs'[i].answer = <<cfg>> =>
           /\ Welcomes(trReqs'[i]) => PlaceOf(cfg) = BeforeTour
           /\ trReqs'[i].then = "skipped" => PlaceOf(cfg) = AfterTour
  <2> SUFFICES ASSUME NEW i \in 1 .. Len(trReqs'), NEW cfg \in Preferences, trReqs'[i].status = "ok", trReqs'[i].answer = <<cfg>>
               PROVE  /\ Welcomes(trReqs'[i]) => PlaceOf(cfg) = BeforeTour
                      /\ trReqs'[i].then = "skipped" => PlaceOf(cfg) = AfterTour
    OBVIOUS
  <2>1. i + 1 \in 1 .. Len(trReqs) /\ trReqs'[i] = trReqs[i + 1]
    BY <1>5, <1>6
  <2> QED BY <1>3, <1>7, <2>1 DEF StartInv
<1> QED BY <1>9, <1>10, <1>11, <1>12, <1>13 DEF StartInv

LEMMA StartStep == ASSUME TourTypes, WelcomeInv, StartInv, TrNext  PROVE StartInv'
<1>1. CASE UNCHANGED <<trServer, trLocal, trReqs, trPast>>
  BY <1>1 DEF StartInv, Starting
<1>2. CASE OlderVersion \/ LoadApp
  <2>1. trReqs' = <<>>
    BY <1>2 DEF OlderVersion, LoadApp, TourTypes
  <2>2. Len(trReqs') = 0
    BY <2>1
  <2> QED BY <2>2 DEF StartInv, Starting
<1>3. TourLooked \/ LeaveLost => UNCHANGED <<trServer, trLocal, trReqs, trPast>>
  BY DEF TourLooked, LeaveLost
<1> QED BY <1>1, <1>2, <1>3, StartSent, StartServed, StartAnswered, TourShape

----------------------------------------------------------------------------
(***************************************************************************)
(* The page's copy and the place of the tour.                               *)
(***************************************************************************)
TourNames == {"base", "card", "board", "sidebar"}
OnlyBoardIsNew == trLocal.category = "onboarding" /\ PlaceOf(trServer) = <<"base", 0>>

\* The copy is current when no answer is on its way, but for the menu's product
\* tour, whose second request does not return the preferences.
CopyInv ==
  ~trPast.failed /\ ~trPast.mixed /\ trPage # "none" =>
    /\ Len(trReqs) = 0 \/ trReqs[1].status = "sent" =>
         trLocal = trServer \/ OnlyBoardIsNew \/ \E i \in 1 .. Len(trReqs) : trReqs[i].kind = "fetch"
    /\ \A i \in 1 .. Len(trReqs) : trReqs[i].kind = "prepare" /\ trReqs[i].then = "goToTour" =>
         trLocal.category = "onboarding" /\ (trReqs[i].status = "ok" => PlaceOf(trServer) = <<"base", 0>>)
    /\ \A i \in 1 .. Len(trReqs), cfg \in Preferences :
         trReqs[i].then = "productTour" /\ trReqs[i].status = "ok" /\ trReqs[i].answer = <<cfg>> => cfg.category = "onboarding"

\* The server is at least as far as a copy that has a tip.
HasStep(cfg) == cfg.category \in TourNames /\ cfg.step \in 0 .. 2
ServerAhead(cfg) == trServer.category \in TourNames /\ (cfg.category # "base" => trServer.category # "base")
Replaces(r) ==
  (r.then = "productTour" /\ r.status = "ok") \/ (r.kind = "prepare" /\ r.then = "goToTour" /\ r.status = "sent")

\* A patch of the step alone makes a place that has a tip.
PlaceInv ==
  ~trPast.failed /\ ~trPast.mixed =>
    /\ (\A i \in 1 .. Len(trReqs) : ~Restarts(trReqs[i])) /\ HasStep(trLocal) => ServerAhead(trLocal)
    /\ \A i \in 1 .. Len(trReqs), cfg \in Preferences :
         trReqs[i].status = "ok" /\ trReqs[i].kind # "prepare" /\ trReqs[i].answer = <<cfg>> /\ HasStep(cfg) => ServerAhead(cfg)
    /\ \A i \in 1 .. Len(trReqs), s \in 0 .. 2 :
         trReqs[i].status = "sent" /\ trReqs[i].then = "none" /\ trReqs[i].patch = StepTo(s) =>
           trServer.category \in TourNames /\ (s # 0 => trServer.category # "base")
    /\ \/ PlaceOf(trServer) \in TipPlaces \cup {BeforeTour, AfterTour, <<"board", FINISHED>>}
       \/ \E i \in 1 .. Len(trReqs) : Replaces(trReqs[i])

\* Who is through the tour stays there until one begins anew.
EndedInv ==
  trPast.races = 0 /\ trPast.ended =>
    /\ PlaceOf(trServer) = AfterTour
    /\ PlaceOf(trLocal) = AfterTour \/ (Len(trReqs) = 1 /\ trReqs[1].status = "ok" /\ trReqs[1].kind # "prepare")
    /\ \A i \in 1 .. Len(trReqs) : trReqs[i].status = "sent" =>
         trReqs[i].kind = "fetch" \/ Restarts(trReqs[i]) \/ Welcomes(trReqs[i]) \/ trReqs[i].then = "skipped"

\* The tips before a place are seen.
SeenBefore(seen, c, s) ==
  \A t \in TourTips :
    \/ PlaceIndex(t.category) > PlaceIndex(c)
    \/ (t.category = c /\ t.step >= s)
    \/ <<t.category, t.step>> \in seen
OrderInv ==
  ~trPast.jumped =>
    /\ trServer.category \in TourNames => SeenBefore(trSeen, trServer.category, trServer.step)
    /\ trLocal.category \in TourNames => SeenBefore(trSeen, trLocal.category, trLocal.step)
    /\ \A t \in TipsShown : <<t.category, t.step>> \in trSeen
    /\ \A i \in 1 .. Len(trReqs) : trReqs[i].then \notin {"skipTour", "skipped"}
    /\ \A i \in 1 .. Len(trReqs), s \in 0 .. 2 :
         trReqs[i].status = "sent" /\ trReqs[i].then = "none" /\ trReqs[i].patch = StepTo(s) /\ trServer.category \in TourNames =>
           SeenBefore(trSeen, trServer.category, s)
    /\ \A i \in 1 .. Len(trReqs), c \in TourNames, s \in {0, FINISHED} :
         trReqs[i].status = "sent" /\ trReqs[i].then = "none" /\ trReqs[i].patch = MoveOnTo(c, s) => SeenBefore(trSeen, c, s)
    /\ \/ trPage = "none" \/ PlaceOf(trLocal) = PlaceOf(trServer) \/ PlaceOf(trServer) = <<"base", 0>>
       \/ /\ Len(trReqs) = 1
          /\ (trReqs[1].kind = "fetch" /\ trReqs[1].status = "sent") \/ (trReqs[1].kind # "prepare" /\ trReqs[1].status = "ok")

\* What arrives, when nothing failed.
LEMMA ArrivesWell ==
  ASSUME TourTypes, AnswerComes
  PROVE  LET r == trReqs[1] IN
         /\ Len(trReqs) >= 1 /\ 1 \in 1 .. Len(trReqs) /\ TourFits(r) /\ UNCHANGED <<trServer, trPast>> /\ trLocal' \in Preferences
         /\ ~trPast.failed => r.status = "ok"
         /\ r.status \in {"ok", "failed"}
         /\ r.kind # "prepare" /\ r.status = "ok" => r.answer = <<trLocal'>>
         /\ r.kind # "prepare" /\ r.status = "ok" /\ (Len(trReqs) = 1 \/ trReqs[2].status = "sent") => trLocal' = trServer
         /\ r.kind = "prepare" \/ r.status = "failed" => trLocal' = trLocal
         /\ Len(trReqs') \in Nat /\ trPage # "none"
         /\ \A i \in 1 .. Len(trReqs') :
              \/ i \in 1 .. Len(trReqs) - 1 /\ i + 1 \in 1 .. Len(trReqs) /\ trReqs'[i] = trReqs[i + 1]
              \/ i = Len(trReqs) /\ Follows(trReqs'[i], r)
         /\ Len(trReqs') = Len(trReqs) - 1 \/ (Len(trReqs') = Len(trReqs) /\ Follows(trReqs'[Len(trReqs)], r))
<1> DEFINE r == trReqs[1]
<1>0. trReqs \in Seq(TourReqs) /\ Len(trReqs) \in Nat /\ (\A i \in 1 .. Len(trReqs) : TourFits(trReqs[i]))
  BY TourTypesSplit
<1>1. TourArrived(r)
  BY ArrivedFacts
<1>2. /\ Len(trReqs) >= 1 /\ TourFits(r) /\ UNCHANGED <<trServer, trPast>> /\ trLocal' \in Preferences
      /\ r.status # "sent"
      /\ r.kind # "prepare" /\ r.status = "ok" => r.answer = <<trLocal'>>
      /\ r.kind = "prepare" \/ r.status = "failed" => trLocal' = trLocal
      /\ trReqs' \in Seq(TourReqs)
      /\ \A i \in 1 .. Len(trReqs) - 1 : trReqs'[i] = trReqs[i + 1]
      /\ \/ Len(trReqs') = Len(trReqs) - 1
         \/ Len(trReqs') = Len(trReqs) /\ Follows(trReqs'[Len(trReqs)], r)
  BY <1>1 DEF TourArrived
<1>3. r.status \in {"ok", "failed"} /\ 1 \in 1 .. Len(trReqs) /\ Len(trReqs') \in Nat
  BY <1>0, <1>2, ReqFacts
<1>4. ~trPast.failed => r.status = "ok"
  BY <1>3 DEF TourTypes
<1>5. Len(trReqs) = 1 \/ trReqs[2].status = "sent" => ServedEnd(1)
  BY <1>0, <1>2 DEF ServedEnd
<1>6. r.kind # "prepare" /\ r.status = "ok" /\ (Len(trReqs) = 1 \/ trReqs[2].status = "sent") => trLocal' = trServer
  <2> SUFFICES ASSUME r.kind # "prepare", r.status = "ok", ServedEnd(1)  PROVE trLocal' = trServer
    BY <1>5
  <2>1. r.answer = <<trServer>> /\ r.answer = <<trLocal'>>
    BY <1>2, <1>3 DEF TourTypes
  <2> QED BY <2>1
<1>7. trPage # "none"
  BY <1>0, <1>2 DEF TourTypes
<1>8. \A i \in 1 .. Len(trReqs') :
              \/ i \in 1 .. Len(trReqs) - 1 /\ i + 1 \in 1 .. Len(trReqs) /\ trReqs'[i] = trReqs[i + 1]
              \/ i = Len(trReqs) /\ Follows(trReqs'[i], r)
  BY <1>0, <1>2
<1> QED BY <1>2, <1>3, <1>4, <1>6, <1>7, <1>8

\* What the server takes.
LEMMA TakesWell ==
  ASSUME TourTypes, NEW k \in 1 .. Len(trReqs), TookIt(k)
  PROVE  /\ Len(trReqs') = Len(trReqs) /\ \A j \in 1 .. Len(trReqs) : j # k => trReqs'[j] = trReqs[j]
         /\ trReqs[k].status = "sent" /\ \A j \in 1 .. Len(trReqs) : j # k /\ trReqs[j].status # "sent" => j < k
         /\ TourFits(trReqs[k]) /\ trReqs'[k].kind = trReqs[k].kind /\ trReqs'[k].then = trReqs[k].then
         /\ trReqs'[k].patch = trReqs[k].patch /\ (Restarts(trReqs'[k]) <=> Restarts(trReqs[k]))
         /\ trReqs'[k].status = "ok" /\ trReqs'[k].answer = <<trServer'>> /\ trServer' \in Preferences
         /\ trServer' = TourEffect(trServer, trReqs[k])
         /\ UNCHANGED <<trLocal, trPage, trSeen>>
         /\ trPast'.races = trPast.races /\ trPast'.mixed = trPast.mixed /\ trPast'.jumped = trPast.jumped /\ trPast'.failed = trPast.failed
         /\ trPast'.ended <=> (~Restarts(trReqs[k]) /\ (trPast.ended \/ PlaceOf(trServer') = AfterTour))
<1>1. Took(k)
  BY DEF TookIt
<1>2. \A j \in 1 .. Len(trReqs) : j # k /\ trReqs[j].status # "sent" => j < k
  <2>1. \A i, j \in 1 .. Len(trReqs) : i < j /\ trReqs[j].status # "sent" => trReqs[i].status # "sent"
    BY DEF TourTypes
  <2>2. trReqs[k].status = "sent"
    BY <1>1 DEF Took
  <2> QED BY <2>1, <2>2
<1>3. Restarts(trReqs'[k]) <=> Restarts(trReqs[k])
  BY <1>1, RestartsSame DEF Took
<1>4. trPast'.ended <=> (~Restarts(trReqs[k]) /\ (trPast.ended \/ PlaceOf(trServer') = AfterTour))
  BY Zenon DEF TookIt, AfterTour, TOUR_SIDEBAR
<1>5. TourFits(trReqs[k])
  BY TourTypesSplit
<1> QED BY <1>1, <1>2, <1>3, <1>4, <1>5 DEF Took, TookIt

LEMMA RefusesWell ==
  ASSUME TourTypes, NEW k \in 1 .. Len(trReqs), RefusedIt(k)
  PROVE  /\ Len(trReqs') = Len(trReqs) /\ \A j \in 1 .. Len(trReqs) : j # k => trReqs'[j] = trReqs[j]
         /\ trReqs[k].status = "sent" /\ trReqs[k].kind # "fetch" /\ trReqs'[k].status = "failed" /\ trReqs'[k].then = trReqs[k].then
         /\ UNCHANGED <<trServer, trLocal, trPage, trSeen>>
         /\ trPast'.races = trPast.races /\ trPast'.jumped = trPast.jumped /\ trPast'.failed /\ trPast'.ended = trPast.ended
BY DEF RefusedIt, Took

LEMMA CopySent == ASSUME TourTypes, CopyInv, TourSent  PROVE CopyInv'
<1>0. trReqs \in Seq(TourReqs) /\ Len(trReqs) \in Nat
  BY TourTypesSplit
<1>1. trLocal' = trLocal /\ trServer' = trServer
  BY DEF TourSent
<1> PICK r, jumps :
      /\ TourFits(r) /\ r.status = "sent" /\ TourClick(r, jumps)
      /\ Len(trReqs') = Len(trReqs) + 1
      /\ \A i \in 1 .. Len(trReqs) : trReqs'[i] = trReqs[i]
      /\ trReqs'[Len(trReqs) + 1] = r
      /\ trPast'.failed = trPast.failed
      /\ trPast'.mixed <=> (trPast.mixed \/ (Len(trReqs) # 0 /\ (Restarts(r) \/ \E i \in 1 .. Len(trReqs) : Restarts(trReqs[i]))))
  BY SentFacts
<1> SUFFICES ASSUME ~trPast'.failed, ~trPast'.mixed  PROVE CopyInv'
  BY DEF CopyInv
<1>2. ~trPast.failed /\ ~trPast.mixed /\ trPage # "none"
  BY ClickedOn
<1>3. r.kind = "patch"
  BY DEF TourFits, TourClick
<1>4. \A i \in 1 .. Len(trReqs') : (i \in 1 .. Len(trReqs) /\ trReqs'[i] = trReqs[i]) \/ (i = Len(trReqs) + 1 /\ trReqs'[i] = r)
  BY <1>0
<1>5. Len(trReqs') = 0 \/ trReqs'[1].status = "sent" =>
        trLocal' = trServer' \/ OnlyBoardIsNew' \/ \E i \in 1 .. Len(trReqs') : trReqs'[i].kind = "fetch"
  <2> SUFFICES ASSUME trReqs'[1].status = "sent"
               PROVE  trLocal' = trServer' \/ OnlyBoardIsNew' \/ \E i \in 1 .. Len(trReqs') : trReqs'[i].kind = "fetch"
    BY <1>0
  <2>1. Len(trReqs) = 0 \/ trReqs[1].status = "sent"
    BY <1>0
  <2>2. trLocal = trServer \/ OnlyBoardIsNew \/ \E i \in 1 .. Len(trReqs) : trReqs[i].kind = "fetch"
    BY <1>2, <2>1 DEF CopyInv
  <2>3. OnlyBoardIsNew => OnlyBoardIsNew'
    BY <1>1 DEF OnlyBoardIsNew
  <2>4. (\E i \in 1 .. Len(trReqs) : trReqs[i].kind = "fetch") => \E i \in 1 .. Len(trReqs') : trReqs'[i].kind = "fetch"
    BY <1>0
  <2> QED BY <1>1, <2>2, <2>3, <2>4
<1>6. \A i \in 1 .. Len(trReqs') : trReqs'[i].kind = "prepare" /\ trReqs'[i].then = "goToTour" =>
         trLocal'.category = "onboarding" /\ (trReqs'[i].status = "ok" => PlaceOf(trServer') = <<"base", 0>>)
  BY <1>1, <1>2, <1>3, <1>4 DEF CopyInv
<1>7. \A i \in 1 .. Len(trReqs'), cfg \in Preferences :
         trReqs'[i].then = "productTour" /\ trReqs'[i].status = "ok" /\ trReqs'[i].answer = <<cfg>> => cfg.category = "onboarding"
  BY <1>2, <1>4 DEF CopyInv
<1> QED BY <1>5, <1>6, <1>7 DEF CopyInv

LEMMA CopyServed == ASSUME TourTypes, OneRequest, CopyInv, ServeConfig  PROVE CopyInv'
<1>0. trReqs \in Seq(TourReqs) /\ Len(trReqs) \in Nat /\ trServer \in Preferences /\ \A i \in 1 .. Len(trReqs) : TourFits(trReqs[i])
  BY TourTypesSplit
<1> SUFFICES ASSUME ~trPast'.failed, ~trPast'.mixed, trPage' # "none"  PROVE CopyInv'
  BY DEF CopyInv
<1> PICK k \in 1 .. Len(trReqs) : TookIt(k) \/ RefusedIt(k)
  BY ServedFacts
<1>1. TookIt(k)
  BY DEF RefusedIt
<1>2. /\ Len(trReqs') = Len(trReqs) /\ \A j \in 1 .. Len(trReqs) : j # k => trReqs'[j] = trReqs[j]
      /\ trReqs[k].status = "sent" /\ \A j \in 1 .. Len(trReqs) : j # k /\ trReqs[j].status # "sent" => j < k
      /\ TourFits(trReqs[k]) /\ trReqs'[k].kind = trReqs[k].kind /\ trReqs'[k].then = trReqs[k].then
      /\ trReqs'[k].status = "ok" /\ trReqs'[k].answer = <<trServer'>> /\ trServer' \in Preferences
      /\ trServer' = TourEffect(trServer, trReqs[k]) /\ UNCHANGED <<trLocal, trPage>>
      /\ ~trPast.failed /\ ~trPast.mixed /\ trPage # "none"
  BY <1>1, TakesWell
<1>3. trReqs'[1].status # "sent" /\ Len(trReqs') # 0
  <2>1. CASE k = 1
    BY <1>2, <2>1
  <2>2. CASE k # 1
    <3>1. 1 \in 1 .. k - 1 /\ 1 # k
      BY <1>0, <2>2
    <3>2. trReqs[1].status # "sent"
      BY <1>1, <3>1 DEF TookIt, Took
    <3> QED BY <1>0, <1>2, <3>1, <3>2
  <2> QED BY <2>1, <2>2
<1>4. /\ trReqs[k].kind = "prepare" => PlaceOf(trServer') = <<"base", 0>>
      /\ trReqs[k].then = "productTour" => trServer'.category = "onboarding"
  BY <1>0, <1>2, EffectIs DEF PlaceOf
<1>5. ASSUME NEW i \in 1 .. Len(trReqs'), trReqs'[i].kind = "prepare", trReqs'[i].then = "goToTour"
      PROVE  trLocal'.category = "onboarding" /\ PlaceOf(trServer') = <<"base", 0>>
  <2>1. i \in 1 .. Len(trReqs) /\ trReqs[i].kind = "prepare" /\ trReqs[i].then = "goToTour"
    BY <1>2, <1>5
  <2>2. Restarts(trReqs[i]) /\ trReqs[i].then # "prepared"
    BY <1>0, <2>1, ReqFacts
  <2>3. Len(trReqs) = 1
    BY <1>2, <2>1, <2>2 DEF OneRequest
  <2>4. i = k
    BY <2>1, <2>3
  <2> QED BY <1>2, <1>4, <2>1, <2>4 DEF CopyInv
<1>6. ASSUME NEW i \in 1 .. Len(trReqs'), NEW cfg \in Preferences, trReqs'[i].then = "productTour", trReqs'[i].status = "ok",
             trReqs'[i].answer = <<cfg>>
      PROVE  cfg.category = "onboarding"
  <2>1. CASE i = k
    <3>1. cfg = trServer'
      BY <1>2, <1>6, <2>1
    <3> QED BY <1>2, <1>4, <1>6, <2>1, <3>1
  <2>2. CASE i # k
    BY <1>2, <1>6, <2>2 DEF CopyInv
  <2> QED BY <2>1, <2>2
<1> QED BY <1>3, <1>5, <1>6 DEF CopyInv

LEMMA CopyAnswered == ASSUME TourTypes, OneRequest, CopyInv, AnswerComes  PROVE CopyInv'
<1> DEFINE r == trReqs[1]
<1>0. trReqs \in Seq(TourReqs) /\ Len(trReqs) \in Nat /\ trServer \in Preferences /\ \A i \in 1 .. Len(trReqs) : TourFits(trReqs[i])
  BY TourTypesSplit
<1> SUFFICES ASSUME ~trPast'.failed, ~trPast'.mixed  PROVE CopyInv'
  BY DEF CopyInv
<1>1. /\ Len(trReqs) >= 1 /\ 1 \in 1 .. Len(trReqs) /\ TourFits(r) /\ UNCHANGED <<trServer, trPast>> /\ trLocal' \in Preferences
      /\ ~trPast.failed /\ ~trPast.mixed /\ r.status = "ok"
      /\ r.kind # "prepare" => r.answer = <<trLocal'>>
      /\ r.kind # "prepare" /\ (Len(trReqs) = 1 \/ trReqs[2].status = "sent") => trLocal' = trServer
      /\ r.kind = "prepare" => trLocal' = trLocal
      /\ Len(trReqs') \in Nat /\ trPage # "none"
      /\ Len(trReqs') = Len(trReqs) - 1 \/ (Len(trReqs') = Len(trReqs) /\ Follows(trReqs'[Len(trReqs)], r))
  BY ArrivesWell
<1>2. \A i \in 1 .. Len(trReqs') :
        \/ i \in 1 .. Len(trReqs) - 1 /\ i + 1 \in 1 .. Len(trReqs) /\ trReqs'[i] = trReqs[i + 1]
        \/ i = Len(trReqs) /\ Follows(trReqs'[i], r)
  BY ArrivesWell
<1>3. Len(trReqs') = 0 \/ trReqs'[1].status = "sent" =>
        trLocal' = trServer' \/ OnlyBoardIsNew' \/ \E i \in 1 .. Len(trReqs') : trReqs'[i].kind = "fetch"
  <2> SUFFICES ASSUME Len(trReqs') = 0 \/ trReqs'[1].status = "sent"
               PROVE  trLocal' = trServer' \/ OnlyBoardIsNew' \/ \E i \in 1 .. Len(trReqs') : trReqs'[i].kind = "fetch"
    OBVIOUS
  <2>1. CASE r.kind # "prepare"
    <3>1. Len(trReqs) = 1 \/ trReqs[2].status = "sent"
      <4> SUFFICES ASSUME Len(trReqs) # 1  PROVE trReqs[2].status = "sent"
        OBVIOUS
      <4>0. /\ Len(trReqs) \in Nat /\ Len(trReqs) >= 1 /\ Len(trReqs') \in Nat
            /\ Len(trReqs') = Len(trReqs) - 1 \/ Len(trReqs') = Len(trReqs)
        BY <1>0, <1>1, Zenon
      <4>01. \A m, n \in Nat : n >= 1 /\ n # 1 /\ (m = n - 1 \/ m = n) => 1 \in 1 .. m /\ 1 # n
        OBVIOUS
      <4>1. 1 \in 1 .. Len(trReqs') /\ 1 # Len(trReqs)
        BY <4>0, <4>01, Zenon
      <4>2. trReqs'[1] = trReqs[1 + 1]
        BY <1>2, <4>1
      <4> QED BY <1>1, <4>1, <4>2
    <3> QED BY <1>1, <2>1, <3>1
  <2>2. CASE r.kind = "prepare" /\ r.then = "prepared"
    <3>1. Len(trReqs') = Len(trReqs) /\ Follows(trReqs'[Len(trReqs)], r)
      <4>1. TourArrived(r)
        BY ArrivedFacts
      <4> QED BY <1>1, <2>2, <4>1 DEF TourArrived
    <3>2. trReqs'[Len(trReqs)].kind = "fetch"
      BY <2>2, <3>1 DEF Follows
    <3> QED BY <1>1, <3>1, <3>2
  <2>3. CASE r.kind = "prepare" /\ r.then = "goToTour"
    <3>1. trLocal.category = "onboarding" /\ PlaceOf(trServer) = <<"base", 0>>
      BY <1>1, <2>3 DEF CopyInv
    <3> QED BY <1>1, <2>3, <3>1 DEF OnlyBoardIsNew
  <2> QED BY <1>1, <2>1, <2>2, <2>3, ReqFacts
<1>4. ASSUME NEW i \in 1 .. Len(trReqs'), trReqs'[i].kind = "prepare", trReqs'[i].then = "goToTour"
      PROVE  trLocal'.category = "onboarding" /\ trReqs'[i].status # "ok"
  <2>1. CASE i + 1 \in 1 .. Len(trReqs) /\ trReqs'[i] = trReqs[i + 1]
    <3>1. Restarts(trReqs[i + 1]) /\ trReqs[i + 1].then # "prepared"
      BY <1>0, <1>4, <2>1, ReqFacts
    <3>2. Len(trReqs) = 1
      BY <1>1, <2>1, <3>1 DEF OneRequest
    <3> QED BY <2>1, <3>2
  <2>2. CASE Follows(trReqs'[i], r)
    <3>1. r.then = "productTour" /\ trReqs'[i].status = "sent"
      BY <1>4, <2>2 DEF Follows
    <3>2. r.kind # "prepare" /\ r.answer = <<trLocal'>>
      BY <1>1, <3>1, ReqFacts
    <3> QED BY <1>1, <3>1, <3>2 DEF CopyInv
  <2> QED BY <1>2, <2>1, <2>2
<1>5. ASSUME NEW i \in 1 .. Len(trReqs'), NEW cfg \in Preferences, trReqs'[i].then = "productTour", trReqs'[i].status = "ok",
             trReqs'[i].answer = <<cfg>>
      PROVE  cfg.category = "onboarding"
  <2>1. i + 1 \in 1 .. Len(trReqs) /\ trReqs'[i] = trReqs[i + 1]
    BY <1>2, <1>5 DEF Follows
  <2> QED BY <1>1, <1>5, <2>1 DEF CopyInv
<1> QED BY <1>3, <1>4, <1>5 DEF CopyInv

LEMMA CopyStep == ASSUME TourTypes, OneRequest, CopyInv, TrNext  PROVE CopyInv'
<1>1. CASE OlderVersion \/ LeaveLost
  BY <1>1 DEF OlderVersion, LeaveLost, CopyInv
<1>2. CASE LoadApp
  <2>1. trReqs = <<>> /\ trReqs' = trReqs /\ trServer' = trServer /\ trLocal' = trServer
    BY <1>2 DEF LoadApp, ShowsTour, TourTypes
  <2>2. Len(trReqs') = 0
    BY <2>1
  <2> QED BY <2>1, <2>2 DEF CopyInv
<1>3. CASE TourLooked
  <2>1. UNCHANGED <<trServer, trLocal, trReqs, trPast>> /\ trLocal' = trLocal
    BY <1>3 DEF TourLooked
  <2>2. trPage' = trPage \/ trPage # "none"
    BY <1>3, <2>1, SeenFacts DEF TourLooked
  <2>3. OnlyBoardIsNew' <=> OnlyBoardIsNew
    BY <2>1 DEF OnlyBoardIsNew
  <2> QED BY <2>1, <2>2, <2>3 DEF CopyInv
<1> QED BY <1>1, <1>2, <1>3, CopySent, CopyServed, CopyAnswered, TourShape

----------------------------------------------------------------------------
LEMMA PatchesApart ==
  /\ \A s, u : StepTo(s) = StepTo(u) => s = u
  /\ \A c, d, s, u : MoveOnTo(c, s) = MoveOnTo(d, u) => c = d /\ s = u
  /\ \A s, u : \A c \in TourNames : StepTo(s) # MoveOnTo(c, u)
  /\ \A s, c : StepTo(s) # RestartTour(c)
  /\ \A c, d, s : RestartTour(c) # MoveOnTo(d, s)
<1>0. \A s, u : <<s>> = <<u>> => s = u
  OBVIOUS
<1>1. "keep" \notin TourNames /\ "1" # "keep"
  BY DEF TourNames
<1>2. \A s, u : StepTo(s) = StepTo(u) => s = u
  BY <1>0, PatchIs
<1>3. \A c, d, s, u : MoveOnTo(c, s) = MoveOnTo(d, u) => c = d /\ s = u
  BY <1>0, PatchIs
<1>4. \A s, u : \A c \in TourNames : StepTo(s) # MoveOnTo(c, u)
  BY <1>1, PatchIs
<1>5. \A s, c : StepTo(s) # RestartTour(c)
  BY <1>1, PatchIs
<1>6. \A c, d, s : RestartTour(c) # MoveOnTo(d, s)
  BY <1>1, PatchIs
<1> QED BY <1>2, <1>3, <1>4, <1>5, <1>6

LEMMA NextMoves == \A c \in TourNames : \E d \in TourNames, u \in {0, FINISHED} : NextTour(c) = MoveOnTo(d, u)
BY NextIs DEF TourNames

LEMMA RestartRestarts == ASSUME NEW r, NEW c, r.patch = RestartTour(c)  PROVE Restarts(r)
<1>1. "1" # "keep"
  OBVIOUS
<1>2. RestartTour(c).started # Kept
  BY <1>1, PatchIs, Zenon DEF Kept
<1> QED BY <1>2 DEF Restarts

LEMMA NoStepOutside == ASSUME NEW cfg, PlaceOf(cfg) \in {BeforeTour, AfterTour}  PROVE ~HasStep(cfg)
<1>1. HasStep(cfg) => PlaceOf(cfg) \notin {BeforeTour, AfterTour}
  BY PlacesApart DEF PlaceOf, HasStep, TourNames
<1> QED BY <1>1

\* A tip stands at a step of the copy.
LEMMA TipStands ==
  ASSUME TourTypes, NEW t \in TipsShown
  PROVE  /\ t \in TourTips /\ t.category = trLocal.category /\ t.step = trLocal.step /\ HasStep(trLocal) /\ trPage \in t.pages
         /\ t.category \in TourNames /\ t.step \in 0 .. 2 /\ PlaceOf(trLocal) = <<t.category, t.step>>
<1>1. trLocal \in Preferences
  BY TourTypesSplit
<1> QED BY <1>1, ShownAt, TipsAre DEF TipsShown, HasStep, TourNames

\* Only a new tour puts the place back.
LEMMA StaysAhead ==
  ASSUME TourTypes, NEW k \in 1 .. Len(trReqs), TookIt(k), ~Restarts(trReqs[k]), trServer.category \in TourNames
  PROVE  trServer'.category \in TourNames /\ (trServer.category # "base" => trServer'.category # "base")
<1> DEFINE r == trReqs[k]
<1>1. TourFits(r) /\ trServer \in Preferences /\ trServer' = TourEffect(trServer, r)
  BY TakesWell, TourTypesSplit
<1>2. /\ r.then \in {"startTour", "skipTour"} \/ r.kind = "fetch" => trServer'.category = trServer.category
      /\ r.then = "skipped" => trServer'.category = "sidebar"
      /\ r.then = "none" => \/ r.patch = RestartTour(TOUR_BASE)
                            \/ trServer'.category = trServer.category
                            \/ trServer'.category \in {"card", "board", "sidebar"}
  BY <1>1, EffectIs
<1>3. r.patch # RestartTour(TOUR_BASE)
  BY RestartRestarts
<1>4. r.kind = "fetch" \/ r.then \in {"none", "startTour", "skipTour", "skipped"}
  BY <1>1, ReqFacts
<1> QED BY <1>2, <1>3, <1>4 DEF TourNames

LEMMA PlaceSent == ASSUME TourTypes, OneRequest, PlaceInv, TourSent  PROVE PlaceInv'
<1>0. trReqs \in Seq(TourReqs) /\ Len(trReqs) \in Nat
  BY TourTypesSplit
<1>1. trLocal' = trLocal /\ trServer' = trServer
  BY DEF TourSent
<1> PICK r, jumps :
      /\ TourFits(r) /\ r.status = "sent" /\ TourClick(r, jumps)
      /\ Len(trReqs') = Len(trReqs) + 1
      /\ \A i \in 1 .. Len(trReqs) : trReqs'[i] = trReqs[i]
      /\ trReqs'[Len(trReqs) + 1] = r
      /\ trPast'.failed = trPast.failed
      /\ trPast'.mixed <=> (trPast.mixed \/ (Len(trReqs) # 0 /\ (Restarts(r) \/ \E i \in 1 .. Len(trReqs) : Restarts(trReqs[i]))))
  BY SentFacts
<1> SUFFICES ASSUME ~trPast'.failed, ~trPast'.mixed  PROVE PlaceInv'
  BY DEF PlaceInv
<1>2. ~trPast.failed /\ ~trPast.mixed
  OBVIOUS
<1>3. \A i \in 1 .. Len(trReqs') : (i \in 1 .. Len(trReqs) /\ trReqs'[i] = trReqs[i]) \/ (i = Len(trReqs) + 1 /\ trReqs'[i] = r)
  BY <1>0
<1>31. \A i \in 1 .. Len(trReqs) : i \in 1 .. Len(trReqs')
  BY <1>0
<1>5. (\A i \in 1 .. Len(trReqs') : ~Restarts(trReqs'[i])) /\ HasStep(trLocal)' => ServerAhead(trLocal)'
  <2>1. (\A i \in 1 .. Len(trReqs') : ~Restarts(trReqs'[i])) => \A i \in 1 .. Len(trReqs) : ~Restarts(trReqs[i])
    BY <1>31
  <2>2. (HasStep(trLocal)' <=> HasStep(trLocal)) /\ (ServerAhead(trLocal)' <=> ServerAhead(trLocal))
    BY <1>1 DEF HasStep, ServerAhead
  <2> QED BY <1>2, <2>1, <2>2 DEF PlaceInv
<1>6. ASSUME NEW i \in 1 .. Len(trReqs'), NEW cfg \in Preferences,
             trReqs'[i].status = "ok", trReqs'[i].kind # "prepare", trReqs'[i].answer = <<cfg>>, HasStep(cfg)
      PROVE  trServer'.category \in TourNames /\ (cfg.category # "base" => trServer'.category # "base")
  BY <1>1, <1>2, <1>3, <1>6 DEF PlaceInv, ServerAhead
<1>7. ASSUME NEW i \in 1 .. Len(trReqs'), NEW s \in 0 .. 2,
             trReqs'[i].status = "sent", trReqs'[i].then = "none", trReqs'[i].patch = StepTo(s)
      PROVE  trServer'.category \in TourNames /\ (s # 0 => trServer'.category # "base")
  <2>1. CASE i \in 1 .. Len(trReqs) /\ trReqs'[i] = trReqs[i]
    BY <1>1, <1>2, <1>7, <2>1 DEF PlaceInv
  <2>2. CASE trReqs'[i] = r
    <3>1. r.patch = StepTo(s) /\ r.then = "none"
      BY <1>7, <2>2
    <3>2. \A t \in TipsShown : r.patch # NextTour(t.category)
      <4> SUFFICES ASSUME NEW t \in TipsShown  PROVE r.patch # NextTour(t.category)
        OBVIOUS
      <4>1. t.category \in TourNames
        BY TipStands
      <4>2. PICK d \in TourNames, u \in {0, FINISHED} : NextTour(t.category) = MoveOnTo(d, u)
        BY <4>1, NextMoves
      <4> QED BY <3>1, <4>2, PatchesApart
    <3>3. r.patch # MoveOnTo("card", 0) /\ r.patch # MoveOnTo("sidebar", 0) /\ r.patch # RestartTour(TOUR_BASE)
      BY <3>1, PatchesApart DEF TourNames
    <3>4. \E t \in TipsShown, u \in 0 .. 2 : r.patch = StepTo(u) /\ (t.category = "base" => u = 0)
      BY <3>1, <3>2, <3>3 DEF TourClick
    <3>5. PICK t \in TipsShown : t.category = "base" => s = 0
      BY <3>1, <3>4, PatchesApart
    <3>6. HasStep(trLocal) /\ t.category = trLocal.category
      BY TipStands
    <3>7. \A j \in 1 .. Len(trReqs) : ~Restarts(trReqs[j])
      BY <1>0
    <3>8. ServerAhead(trLocal)
      BY <1>2, <3>6, <3>7 DEF PlaceInv
    <3> QED BY <1>1, <3>5, <3>6, <3>8 DEF ServerAhead
  <2> QED BY <1>3, <2>1, <2>2
<1>8. \/ PlaceOf(trServer') \in TipPlaces \cup {BeforeTour, AfterTour, <<"board", FINISHED>>}
      \/ \E i \in 1 .. Len(trReqs') : Replaces(trReqs'[i])
  <2>1. \/ PlaceOf(trServer) \in TipPlaces \cup {BeforeTour, AfterTour, <<"board", FINISHED>>}
        \/ \E i \in 1 .. Len(trReqs) : Replaces(trReqs[i])
    BY <1>2 DEF PlaceInv
  <2>2. (\E i \in 1 .. Len(trReqs) : Replaces(trReqs[i])) => \E i \in 1 .. Len(trReqs') : Replaces(trReqs'[i])
    BY <1>31
  <2> QED BY <1>1, <2>1, <2>2
<1> QED BY <1>5, <1>6, <1>7, <1>8 DEF PlaceInv, ServerAhead

LEMMA PlaceServed == ASSUME TourTypes, OneRequest, StartInv, PlaceInv, ServeConfig  PROVE PlaceInv'
<1>0. trReqs \in Seq(TourReqs) /\ Len(trReqs) \in Nat /\ trServer \in Preferences /\ \A i \in 1 .. Len(trReqs) : TourFits(trReqs[i])
  BY TourTypesSplit
<1> SUFFICES ASSUME ~trPast'.failed, ~trPast'.mixed  PROVE PlaceInv'
  BY DEF PlaceInv
<1> PICK k \in 1 .. Len(trReqs) : TookIt(k) \/ RefusedIt(k)
  BY ServedFacts
<1>1. TookIt(k)
  BY DEF RefusedIt
<1> DEFINE r == trReqs[k]
<1>2. /\ Len(trReqs') = Len(trReqs) /\ \A j \in 1 .. Len(trReqs) : j # k => trReqs'[j] = trReqs[j]
      /\ r.status = "sent" /\ \A j \in 1 .. Len(trReqs) : j # k /\ trReqs[j].status # "sent" => j < k
      /\ TourFits(r) /\ trReqs'[k].kind = r.kind /\ trReqs'[k].then = r.then
      /\ Restarts(trReqs'[k]) <=> Restarts(r)
      /\ trReqs'[k].status = "ok" /\ trReqs'[k].answer = <<trServer'>> /\ trServer' \in Preferences
      /\ trServer' = TourEffect(trServer, r) /\ trLocal' = trLocal /\ ~trPast.failed /\ ~trPast.mixed
  BY <1>1, TakesWell
<1>3. Restarts(r) /\ r.then # "prepared" => Len(trReqs) = 1
  BY <1>2 DEF OneRequest
\* A tour that starts begins where no tip is.
<1>4. ASSUME r.then = "prepared", NEW i \in 1 .. Len(trReqs), i # k
      PROVE  /\ trReqs[i].then # "none"
             /\ \A cfg \in Preferences :
                  trReqs[i].status = "ok" /\ trReqs[i].kind # "prepare" /\ trReqs[i].answer = <<cfg>> => ~HasStep(cfg)
  <2>1. Starting
    BY <1>4 DEF Starting, Welcomed
  <2>2. Welcomes(trReqs[i]) \/ Welcomed(trReqs[i]) \/ trReqs[i].kind = "fetch"
    BY <1>2, <2>1 DEF StartInv
  <2>3. trReqs[i].then # "none"
    BY <1>0, <2>2, ReqFacts DEF Welcomes, Welcomed
  <2>4. ASSUME NEW cfg \in Preferences, trReqs[i].status = "ok", trReqs[i].kind # "prepare", trReqs[i].answer = <<cfg>>
        PROVE  ~HasStep(cfg)
    <3>1. i < k /\ r.kind = "prepare"
      BY <1>2, <1>4, <2>4 DEF TourFits
    <3>2. trReqs[i].kind # "fetch"
      BY <1>2, <2>1, <3>1 DEF StartInv
    <3>3. Welcomes(trReqs[i]) \/ trReqs[i].then = "skipped"
      BY <1>0, <2>2, <2>4, <3>2 DEF Welcomed, TourFits
    <3>4. PlaceOf(cfg) \in {BeforeTour, AfterTour}
      BY <1>2, <2>1, <2>4, <3>3 DEF StartInv
    <3> QED BY <3>4, NoStepOutside
  <2> QED BY <2>3, <2>4
<1>5. ASSUME NEW i \in 1 .. Len(trReqs), i # k, Restarts(r)  PROVE r.then = "prepared"
  <2> SUFFICES ASSUME r.then # "prepared"  PROVE FALSE
    OBVIOUS
  <2>1. Len(trReqs) = 1
    BY ZenonT(60), <1>3, <1>5
  <2>2. k \in 1 .. 1 /\ i \in 1 .. 1 /\ i # k
    BY ZenonT(60), <1>5, <2>1
  <2>3. \A a, b \in 1 .. 1 : a = b
    OBVIOUS
  <2> QED BY ZenonT(60), <2>2, <2>3
<1>6. ~Restarts(r) /\ trServer.category \in TourNames =>
        trServer'.category \in TourNames /\ (trServer.category # "base" => trServer'.category # "base")
  BY <1>1, StaysAhead
<1>7. (\A i \in 1 .. Len(trReqs') : ~Restarts(trReqs'[i])) /\ HasStep(trLocal)' => ServerAhead(trLocal)'
  <2> SUFFICES ASSUME \A i \in 1 .. Len(trReqs') : ~Restarts(trReqs'[i]), HasStep(trLocal)'  PROVE ServerAhead(trLocal)'
    OBVIOUS
  <2>1. \A i \in 1 .. Len(trReqs) : ~Restarts(trReqs[i])
    BY <1>2
  <2>2. HasStep(trLocal)
    BY <1>2 DEF HasStep
  <2> QED BY <1>2, <1>6, <2>1, <2>2 DEF PlaceInv, ServerAhead
<1>8. ASSUME NEW i \in 1 .. Len(trReqs'), NEW cfg \in Preferences,
             trReqs'[i].status = "ok", trReqs'[i].kind # "prepare", trReqs'[i].answer = <<cfg>>, HasStep(cfg)
      PROVE  trServer'.category \in TourNames /\ (cfg.category # "base" => trServer'.category # "base")
  <2>1. CASE i = k
    <3>1. cfg = trServer'
      BY <1>2, <1>8, <2>1
    <3> QED BY <1>8, <3>1 DEF HasStep
  <2>2. CASE i # k
    <3>1. ~Restarts(r)
      BY <1>2, <1>4, <1>5, <1>8, <2>2
    <3>2. trServer.category \in TourNames /\ (cfg.category # "base" => trServer.category # "base")
      BY <1>2, <1>8, <2>2 DEF PlaceInv, ServerAhead
    <3> QED BY <1>6, <3>1, <3>2
  <2> QED BY <2>1, <2>2
<1>9. ASSUME NEW i \in 1 .. Len(trReqs'), NEW s \in 0 .. 2,
             trReqs'[i].status = "sent", trReqs'[i].then = "none", trReqs'[i].patch = StepTo(s)
      PROVE  trServer'.category \in TourNames /\ (s # 0 => trServer'.category # "base")
  <2>1. i # k /\ i \in 1 .. Len(trReqs) /\ trReqs'[i] = trReqs[i]
    BY <1>2, <1>9
  <2>2. ~Restarts(r)
    BY <1>4, <1>5, <1>9, <2>1
  <2>3. trServer.category \in TourNames /\ (s # 0 => trServer.category # "base")
    BY <1>2, <1>9, <2>1 DEF PlaceInv
  <2> QED BY <1>6, <2>2, <2>3
<1> DEFINE Places == TipPlaces \cup {BeforeTour, AfterTour, <<"board", FINISHED>>}
<1>10. PlaceOf(trServer') \in Places \/ \E i \in 1 .. Len(trReqs') : Replaces(trReqs'[i])
  <2>1. CASE r.then = "productTour"
    BY <1>2, <2>1 DEF Replaces
  <2>2. CASE r.kind = "prepare"
    <3>1. PlaceOf(trServer') = <<"base", 0>>
      BY <1>0, <1>2, <2>2, EffectIs DEF PlaceOf
    <3> QED BY <3>1, EveryPlaceHasATip
  <2>3. CASE r.then = "skipped"
    BY <1>0, <1>2, <2>3, EffectIs DEF PlaceOf, AfterTour
  <2>4. CASE r.kind = "fetch" \/ r.then \in {"startTour", "skipTour"}
    <3>1. PlaceOf(trServer') = PlaceOf(trServer)
      BY <1>0, <1>2, <2>4, EffectIs DEF PlaceOf
    <3>2. \A i \in 1 .. Len(trReqs) : ~Replaces(trReqs[i])
      <4> SUFFICES ASSUME NEW i \in 1 .. Len(trReqs), Replaces(trReqs[i])  PROVE FALSE
        OBVIOUS
      <4>1. Restarts(trReqs[i]) /\ trReqs[i].then # "prepared"
        BY <1>0, ReqFacts DEF Replaces
      <4>2. i = k
        BY <1>2, <4>1 DEF OneRequest
      <4> QED BY <1>2, <2>4, <4>2, ReqFacts DEF Replaces
    <3> QED BY <1>2, <3>1, <3>2 DEF PlaceInv
  <2>5. CASE r.then = "none"
    <3>1. \/ trServer'.category = "base" /\ trServer'.step = 0
          \/ \E s \in 0 .. 2 : r.patch = StepTo(s) /\ trServer'.category = trServer.category /\ trServer'.step = s
          \/ trServer'.category \in {"card", "board", "sidebar"} /\ trServer'.step = 0
          \/ trServer'.category = "sidebar" /\ trServer'.step = FINISHED
      BY <1>0, <1>2, <2>5, EffectIs
    <3>2. ASSUME NEW s \in 0 .. 2, r.patch = StepTo(s), trServer'.category = trServer.category, trServer'.step = s
          PROVE  <<trServer'.category, trServer'.step>> \in TipPlaces
      <4>1. trServer.category \in TourNames /\ (s # 0 => trServer.category # "base")
        BY <1>2, <2>5, <3>2 DEF PlaceInv
      <4> QED BY <3>2, <4>1, EveryPlaceHasATip DEF TourNames
    <3>3. 0 \in 0 .. 2
      OBVIOUS
    <3>4. <<trServer'.category, trServer'.step>> \in TipPlaces \/ <<trServer'.category, trServer'.step>> = AfterTour
      BY <3>1, <3>2, <3>3, EveryPlaceHasATip DEF AfterTour
    <3> QED BY <3>4 DEF PlaceOf
  <2> QED BY <1>2, <2>1, <2>2, <2>3, <2>4, <2>5, ReqFacts
<1> QED BY <1>7, <1>8, <1>9, <1>10 DEF PlaceInv, ServerAhead

LEMMA PlaceAnswered == ASSUME TourTypes, OneRequest, CopyInv, StartInv, PlaceInv, AnswerComes  PROVE PlaceInv'
<1> DEFINE r == trReqs[1]
<1>0. trReqs \in Seq(TourReqs) /\ Len(trReqs) \in Nat /\ \A i \in 1 .. Len(trReqs) : TourFits(trReqs[i])
  BY TourTypesSplit
<1> SUFFICES ASSUME ~trPast'.failed, ~trPast'.mixed  PROVE PlaceInv'
  BY DEF PlaceInv
<1>1. /\ Len(trReqs) >= 1 /\ 1 \in 1 .. Len(trReqs) /\ TourFits(r) /\ UNCHANGED <<trServer, trPast>> /\ trLocal' \in Preferences
      /\ ~trPast.failed /\ ~trPast.mixed /\ r.status = "ok"
      /\ r.kind # "prepare" => r.answer = <<trLocal'>>
      /\ r.kind = "prepare" => trLocal' = trLocal
      /\ Len(trReqs') \in Nat /\ trPage # "none"
      /\ Len(trReqs') = Len(trReqs) - 1 \/ (Len(trReqs') = Len(trReqs) /\ Follows(trReqs'[Len(trReqs)], r))
  BY ArrivesWell
<1>2. \A i \in 1 .. Len(trReqs') :
        \/ i \in 1 .. Len(trReqs) - 1 /\ i + 1 \in 1 .. Len(trReqs) /\ trReqs'[i] = trReqs[i + 1]
        \/ i = Len(trReqs) /\ Follows(trReqs'[i], r)
  BY ArrivesWell
<1>3. \A x : Follows(x, r) => x.status = "sent" /\ x.then # "none"
  BY ReqFacts DEF Follows
<1>4. HasStep(trLocal') => ServerAhead(trLocal')
  <2>1. CASE r.kind # "prepare"
    BY <1>1, <2>1 DEF PlaceInv
  <2>2. CASE r.then = "prepared"
    <3>1. Starting
      BY <1>1, <2>2 DEF Starting, Welcomed
    <3>2. PlaceOf(trLocal) \in {BeforeTour, AfterTour}
      BY <1>1, <3>1 DEF StartInv
    <3>3. r.kind = "prepare"
      BY <1>1, <2>2 DEF TourFits
    <3> QED BY <1>1, <3>2, <3>3, NoStepOutside
  <2>3. CASE r.kind = "prepare" /\ r.then = "goToTour"
    <3>1. trLocal.category = "onboarding"
      BY <1>1, <2>3 DEF CopyInv
    <3> QED BY <1>1, <2>3, <3>1 DEF HasStep, TourNames
  <2> QED BY <1>1, <2>1, <2>2, <2>3, ReqFacts
<1>5. (HasStep(trLocal)' <=> HasStep(trLocal')) /\ (ServerAhead(trLocal)' <=> ServerAhead(trLocal'))
  BY <1>1 DEF HasStep, ServerAhead
<1>6. ASSUME NEW i \in 1 .. Len(trReqs'), NEW cfg \in Preferences,
             trReqs'[i].status = "ok", trReqs'[i].kind # "prepare", trReqs'[i].answer = <<cfg>>, HasStep(cfg)
      PROVE  trServer'.category \in TourNames /\ (cfg.category # "base" => trServer'.category # "base")
  <2>1. i + 1 \in 1 .. Len(trReqs) /\ trReqs'[i] = trReqs[i + 1]
    BY <1>2, <1>3, <1>6
  <2> QED BY <1>1, <1>6, <2>1 DEF PlaceInv, ServerAhead
<1>7. ASSUME NEW i \in 1 .. Len(trReqs'), NEW s \in 0 .. 2,
             trReqs'[i].status = "sent", trReqs'[i].then = "none", trReqs'[i].patch = StepTo(s)
      PROVE  trServer'.category \in TourNames /\ (s # 0 => trServer'.category # "base")
  <2>1. i + 1 \in 1 .. Len(trReqs) /\ trReqs'[i] = trReqs[i + 1]
    BY <1>2, <1>3, <1>7
  <2> QED BY <1>1, <1>7, <2>1 DEF PlaceInv
<1> DEFINE Places == TipPlaces \cup {BeforeTour, AfterTour, <<"board", FINISHED>>}
<1>8. PlaceOf(trServer') \in Places \/ \E i \in 1 .. Len(trReqs') : Replaces(trReqs'[i])
  <2>1. CASE PlaceOf(trServer) \in Places
    BY <1>1, <2>1
  <2>2. ASSUME NEW i \in 1 .. Len(trReqs), Replaces(trReqs[i])
        PROVE  \E j \in 1 .. Len(trReqs') : Replaces(trReqs'[j])
    <3>1. Restarts(trReqs[i]) /\ trReqs[i].then # "prepared"
      BY <1>0, <2>2, ReqFacts DEF Replaces
    <3>2. Len(trReqs) = 1 /\ i = 1
      BY <1>1, <3>1 DEF OneRequest
    <3>3. r.then = "productTour"
      BY <1>1, <2>2, <3>2 DEF Replaces
    <3>4. Len(trReqs') = 1 /\ Follows(trReqs'[1], r)
      <4>1. TourArrived(r)
        BY ArrivedFacts
      <4> QED BY <3>2, <3>3, <4>1 DEF TourArrived
    <3>5. Replaces(trReqs'[1]) /\ 1 \in 1 .. Len(trReqs')
      BY <3>3, <3>4 DEF Follows, Replaces
    <3> QED BY <3>5
  <2> QED BY <1>1, <2>1, <2>2 DEF PlaceInv
<1> QED BY <1>4, <1>5, <1>6, <1>7, <1>8 DEF PlaceInv, ServerAhead

LEMMA PlaceStep == ASSUME TourTypes, OneRequest, CopyInv, StartInv, PlaceInv, TrNext  PROVE PlaceInv'
<1>1. CASE UNCHANGED <<trServer, trLocal, trReqs, trPast>>
  BY <1>1 DEF PlaceInv, HasStep, ServerAhead
<1>2. CASE OlderVersion
  <2>1. trReqs = <<>> /\ trReqs' = trReqs /\ trServer' = [viewed |-> TRUE, started |-> TRUE, category |-> TOUR_BOARD, step |-> FINISHED]
    BY <1>2 DEF OlderVersion, TourTypes
  <2>2. Len(trReqs') = 0 /\ trServer'.category = "board" /\ trServer'.step = FINISHED
    BY <2>1 DEF TOUR_BOARD
  <2> QED BY <2>2 DEF PlaceInv, HasStep, ServerAhead, PlaceOf, TourNames
<1>3. CASE LoadApp
  <2>1. trReqs = <<>> /\ trReqs' = trReqs /\ trServer' = trServer /\ trLocal' = trServer /\ trPast' = trPast
    BY <1>3 DEF LoadApp, ShowsTour, TourTypes
  <2>2. Len(trReqs') = 0 /\ Len(trReqs) = 0
    BY <2>1
  <2> QED BY <2>1, <2>2 DEF PlaceInv, HasStep, ServerAhead
<1>4. TourLooked \/ LeaveLost => UNCHANGED <<trServer, trLocal, trReqs, trPast>>
  BY DEF TourLooked, LeaveLost
<1> QED BY <1>1, <1>2, <1>3, <1>4, PlaceSent, PlaceServed, PlaceAnswered, TourShape

----------------------------------------------------------------------------
(***************************************************************************)
(* The end of the tour.                                                     *)
(***************************************************************************)
LEMMA EndedSent == ASSUME TourTypes, OneRequest, EndedInv, TourSent  PROVE EndedInv'
<1>0. trReqs \in Seq(TourReqs) /\ Len(trReqs) \in Nat /\ trPast \in TourPasts
  BY TourTypesSplit
<1>1. trLocal' = trLocal /\ trServer' = trServer
  BY DEF TourSent
<1> PICK r, jumps :
      /\ TourFits(r) /\ r.status = "sent" /\ TourClick(r, jumps)
      /\ Len(trReqs') = Len(trReqs) + 1
      /\ \A i \in 1 .. Len(trReqs) : trReqs'[i] = trReqs[i]
      /\ trReqs'[Len(trReqs) + 1] = r
      /\ trPast'.races = trPast.races + Len(trReqs)
      /\ trPast'.ended = trPast.ended
  BY SentFacts
<1> SUFFICES ASSUME trPast'.races = 0, trPast'.ended  PROVE EndedInv'
  BY DEF EndedInv
<1>2. trPast.races = 0 /\ Len(trReqs) = 0
  BY <1>0 DEF TourPasts
<1>3. PlaceOf(trServer) = AfterTour /\ PlaceOf(trLocal) = AfterTour
  BY <1>2 DEF EndedInv
<1>4. Welcomes(r) \/ Restarts(r)
  BY <1>3, NoTipNoClick
<1>5. \A i \in 1 .. Len(trReqs') : trReqs'[i] = r
  BY <1>2
<1> QED BY <1>1, <1>3, <1>4, <1>5 DEF EndedInv

LEMMA EndedServed == ASSUME TourTypes, OneRequest, EndedInv, ServeConfig  PROVE EndedInv'
<1>0. trReqs \in Seq(TourReqs) /\ Len(trReqs) \in Nat /\ trServer \in Preferences
  BY TourTypesSplit
<1> PICK k \in 1 .. Len(trReqs) : TookIt(k) \/ RefusedIt(k)
  BY ServedFacts
<1> DEFINE r == trReqs[k]
<1> SUFFICES ASSUME trPast'.races = 0, trPast'.ended  PROVE EndedInv'
  BY DEF EndedInv
<1>1. CASE TookIt(k)
  <2>1. /\ Len(trReqs') = Len(trReqs) /\ TourFits(r) /\ trReqs'[k].kind = r.kind /\ r.status = "sent"
        /\ trReqs'[k].status = "ok" /\ trServer' = TourEffect(trServer, r) /\ trServer' \in Preferences /\ trLocal' = trLocal
        /\ trPast.races = 0 /\ ~Restarts(r) /\ (trPast.ended \/ PlaceOf(trServer') = AfterTour)
    BY <1>1, TakesWell
  <2>2. Len(trReqs) = 1 /\ k = 1
    BY <1>0, <2>1 DEF OneRequest
  <2>3. PlaceOf(trServer') = AfterTour
    <3> SUFFICES ASSUME trPast.ended  PROVE PlaceOf(trServer') = AfterTour
      BY <2>1
    <3>1. PlaceOf(trServer) = AfterTour /\ (r.kind = "fetch" \/ Welcomes(r) \/ r.then = "skipped")
      BY <2>1 DEF EndedInv
    <3>2. r.kind = "fetch" \/ Welcomes(r) => trServer'.category = trServer.category /\ trServer'.step = trServer.step
      BY <1>0, <2>1, EffectIs DEF Welcomes
    <3>3. r.then = "skipped" => trServer'.category = "sidebar" /\ trServer'.step = FINISHED
      BY <1>0, <2>1, EffectIs
    <3> QED BY <3>1, <3>2, <3>3 DEF PlaceOf, AfterTour
  <2>4. trReqs'[1].kind # "prepare"
    BY <2>1, <2>2, ReqFacts
  <2> QED BY <2>1, <2>2, <2>3, <2>4 DEF EndedInv
<1>2. CASE RefusedIt(k)
  <2>1. /\ Len(trReqs') = Len(trReqs) /\ r.status = "sent" /\ trReqs'[k].status = "failed"
        /\ UNCHANGED <<trServer, trLocal>> /\ trPast.races = 0 /\ trPast.ended
    BY <1>2, RefusesWell
  <2>2. Len(trReqs) = 1 /\ k = 1
    BY <1>0, <2>1 DEF OneRequest
  <2>3. PlaceOf(trServer) = AfterTour /\ PlaceOf(trLocal) = AfterTour
    BY <2>1, <2>2 DEF EndedInv
  <2> QED BY <2>1, <2>2, <2>3 DEF EndedInv
<1> QED BY <1>1, <1>2

LEMMA EndedAnswered == ASSUME TourTypes, OneRequest, EndedInv, AnswerComes  PROVE EndedInv'
<1> DEFINE r == trReqs[1]
<1>0. trReqs \in Seq(TourReqs) /\ Len(trReqs) \in Nat
  BY TourTypesSplit
<1> SUFFICES ASSUME trPast'.races = 0, trPast'.ended  PROVE EndedInv'
  BY DEF EndedInv
<1>1. /\ Len(trReqs) >= 1 /\ TourFits(r) /\ UNCHANGED <<trServer, trPast>> /\ r.status \in {"ok", "failed"}
      /\ r.kind # "prepare" /\ r.status = "ok" /\ Len(trReqs) = 1 => trLocal' = trServer
      /\ r.kind = "prepare" \/ r.status = "failed" => trLocal' = trLocal
  BY ArrivesWell
<1>2. Len(trReqs) = 1
  <2>1. Len(trReqs) <= 1
    BY <1>1 DEF OneRequest
  <2>2. Len(trReqs) >= 1 /\ Len(trReqs) \in Nat
    BY <1>0, <1>1, Zenon
  <2>3. \A n \in Nat : n <= 1 /\ n >= 1 => n = 1
    OBVIOUS
  <2> QED BY <2>1, <2>2, <2>3, Zenon
<1>3. \A i \in 1 .. Len(trReqs') : Follows(trReqs'[i], r)
  <2>1. \A i \in 1 .. Len(trReqs') :
        \/ i \in 1 .. Len(trReqs) - 1 /\ i + 1 \in 1 .. Len(trReqs) /\ trReqs'[i] = trReqs[i + 1]
        \/ i = Len(trReqs) /\ Follows(trReqs'[i], r)
    BY ArrivesWell
  <2> QED BY <1>2, <2>1
<1>4. PlaceOf(trServer) = AfterTour /\ (PlaceOf(trLocal) = AfterTour \/ (r.status = "ok" /\ r.kind # "prepare"))
  BY <1>1, <1>2 DEF EndedInv
<1>5. PlaceOf(trLocal') = AfterTour
  <2>1. CASE r.status = "ok" /\ r.kind # "prepare"
    BY <1>1, <1>2, <1>4, <2>1
  <2>2. CASE ~(r.status = "ok" /\ r.kind # "prepare")
    <3>1. trLocal' = trLocal
      BY <1>1, <2>2
    <3> QED BY <1>4, <2>2, <3>1
  <2> QED BY <2>1, <2>2
<1>6. ASSUME NEW i \in 1 .. Len(trReqs')
      PROVE  trReqs'[i].kind = "fetch" \/ Restarts(trReqs'[i]) \/ Welcomes(trReqs'[i]) \/ trReqs'[i].then = "skipped"
  <2>1. Follows(trReqs'[i], r) /\ TourFits(trReqs'[i])
    BY <1>3 DEF Follows
  <2>2. \/ trReqs'[i].then = "prepared" \/ trReqs'[i].kind = "fetch" \/ trReqs'[i].kind = "prepare"
        \/ trReqs'[i].then = "skipped"
    BY <2>1 DEF Follows
  <2>3. trReqs'[i].then = "prepared" => trReqs'[i].kind = "prepare"
    BY <2>1 DEF TourFits
  <2> QED BY <2>1, <2>2, <2>3, ReqFacts
<1> QED BY <1>1, <1>4, <1>5, <1>6 DEF EndedInv

LEMMA EndedStep == ASSUME TourTypes, OneRequest, EndedInv, TrNext  PROVE EndedInv'
<1>1. CASE UNCHANGED <<trServer, trLocal, trReqs, trPast>>
  BY <1>1 DEF EndedInv
<1>2. CASE OlderVersion
  <2>1. PlaceOf(trServer) = BeforeTour /\ trPast \in TourPasts
    BY <1>2, FirstIs, TourTypesSplit DEF OlderVersion
  <2>2. PlaceOf(trServer) # AfterTour
    BY <2>1, PlacesApart DEF AfterTour
  <2>3. trPast'.ended = trPast.ended /\ trPast'.races = trPast.races
    BY <1>2, <2>1 DEF OlderVersion, TourPasts
  <2> QED BY <2>2, <2>3 DEF EndedInv
<1>3. CASE LoadApp
  <2>1. trReqs = <<>> /\ trReqs' = trReqs /\ trServer' = trServer /\ trLocal' = trServer /\ trPast' = trPast
    BY <1>3 DEF LoadApp, ShowsTour, TourTypes
  <2>2. Len(trReqs') = 0
    BY <2>1
  <2> QED BY <2>1, <2>2 DEF EndedInv
<1>4. TourLooked \/ LeaveLost => UNCHANGED <<trServer, trLocal, trReqs, trPast>>
  BY DEF TourLooked, LeaveLost
<1> QED BY <1>1, <1>2, <1>3, <1>4, EndedSent, EndedServed, EndedAnswered, TourShape

----------------------------------------------------------------------------
(***************************************************************************)
(* The tips in their order.                                                 *)
(***************************************************************************)
LEMMA FirstSeen == \A seen : SeenBefore(seen, "base", 0)
<1> SUFFICES ASSUME NEW seen, NEW t \in TourTips
             PROVE  PlaceIndex(t.category) > PlaceIndex("base") \/ (t.category = "base" /\ t.step >= 0)
  BY DEF SeenBefore
<1> QED BY TipsAre, IndexIs

\* After a tip that is seen comes the next one of its category, ...
LEMMA NextSeen ==
  ASSUME NEW seen, NEW t \in TourTips, SeenBefore(seen, t.category, t.step), <<t.category, t.step>> \in seen,
         NEW s \in 0 .. 2, s <= t.step + 1
  PROVE  SeenBefore(seen, t.category, s)
<1> SUFFICES ASSUME NEW u \in TourTips
             PROVE  \/ PlaceIndex(u.category) > PlaceIndex(t.category) \/ (u.category = t.category /\ u.step >= s)
                    \/ <<u.category, u.step>> \in seen
  BY DEF SeenBefore
<1>1. \/ PlaceIndex(u.category) > PlaceIndex(t.category) \/ (u.category = t.category /\ u.step >= t.step)
      \/ <<u.category, u.step>> \in seen
  BY DEF SeenBefore
<1>2. u.step \in 0 .. 2 /\ t.step \in 0 .. 2
  BY TipsAre
<1>3. u.category = t.category /\ u.step >= t.step => u.step = t.step \/ u.step >= s
  BY <1>2
<1> QED BY <1>1, <1>3

\* ... or the next category, ...
LEMMA MovesOnSeen ==
  ASSUME NEW seen, NEW t \in TourTips, SeenBefore(seen, t.category, t.step), <<t.category, t.step>> \in seen,
         t.category # "base", t.step = 2, NEW c \in TourNames, NEW s \in {0, FINISHED}, NextTour(t.category) = MoveOnTo(c, s)
  PROVE  SeenBefore(seen, c, s)
<1> SUFFICES ASSUME NEW u \in TourTips
             PROVE  \/ PlaceIndex(u.category) > PlaceIndex(c) \/ (u.category = c /\ u.step >= s)
                    \/ <<u.category, u.step>> \in seen
  BY DEF SeenBefore
<1>1. \/ PlaceIndex(u.category) > PlaceIndex(t.category) \/ (u.category = t.category /\ u.step >= t.step)
      \/ <<u.category, u.step>> \in seen
  BY DEF SeenBefore
<1>2. u.step \in 0 .. 2 /\ u.category \in {"base", "card", "board", "sidebar"} /\ t.category \in {"card", "board", "sidebar"}
  BY TipsAre
<1>3. u.category = t.category /\ u.step >= t.step => <<u.category, u.step>> \in seen
  <2>1. u.step >= 2 => u.step = 2
    BY <1>2
  <2> QED BY <2>1
<1>4. /\ t.category = "card" => c = "board" /\ s = 0
      /\ t.category = "board" => c = "sidebar" /\ s = 0
      /\ t.category = "sidebar" => c = "sidebar" /\ s = FINISHED
  BY NextIs, PatchesApart
<1>5. PlaceIndex(u.category) > PlaceIndex(t.category) =>
        PlaceIndex(u.category) > PlaceIndex(c) \/ (u.category = c /\ u.step >= s)
  <2>1. CASE t.category = "card"
    BY <1>2, <1>4, <2>1, IndexIs
  <2>2. CASE t.category = "board"
    BY <1>2, <1>4, <2>2, IndexIs
  <2>3. CASE t.category = "sidebar"
    BY <1>2, <1>4, <2>3, IndexIs
  <2> QED BY <1>2, <2>1, <2>2, <2>3
<1> QED BY <1>1, <1>3, <1>5

\* ... which opening the card and an older tour may start, too.
LEMMA StartsSeen ==
  /\ \A seen : <<"base", 0>> \in seen => SeenBefore(seen, "card", 0)
  /\ \A seen : SeenBefore(seen, "board", FINISHED) => SeenBefore(seen, "sidebar", 0)
<1>1. ASSUME NEW seen, <<"base", 0>> \in seen, NEW u \in TourTips
      PROVE  \/ PlaceIndex(u.category) > PlaceIndex("card") \/ (u.category = "card" /\ u.step >= 0)
             \/ <<u.category, u.step>> \in seen
  BY <1>1, TipsAre, IndexIs
<1>2. ASSUME NEW seen, SeenBefore(seen, "board", FINISHED), NEW u \in TourTips
      PROVE  \/ PlaceIndex(u.category) > PlaceIndex("sidebar") \/ (u.category = "sidebar" /\ u.step >= 0)
             \/ <<u.category, u.step>> \in seen
  <2>1. \/ PlaceIndex(u.category) > PlaceIndex("board") \/ (u.category = "board" /\ u.step >= FINISHED)
        \/ <<u.category, u.step>> \in seen
    BY <1>2 DEF SeenBefore
  <2>2. u.step \in 0 .. 2 /\ u.category \in {"base", "card", "board", "sidebar"}
    BY TipsAre
  <2>3. ~(u.step >= FINISHED)
    BY <2>2 DEF FINISHED
  <2>4. PlaceIndex(u.category) > PlaceIndex("board") => u.category = "sidebar" /\ u.step >= 0
    BY <2>2, IndexIs
  <2> QED BY <2>1, <2>3, <2>4
<1> QED BY <1>1, <1>2 DEF SeenBefore

\* A tour that a failed answer hides from the page begins with a tip that was seen.
LEMMA BackSeen ==
  ASSUME NEW seen, NEW t \in TourTips, SeenBefore(seen, t.category, t.step), NEW s \in 0 .. 2, t.category = "base" => s = 0
  PROVE  SeenBefore(seen, "base", s)
<1>1. CASE t.category = "base"
  BY <1>1, FirstSeen
<1>2. CASE t.category # "base"
  <2> SUFFICES ASSUME NEW u \in TourTips
               PROVE  \/ PlaceIndex(u.category) > PlaceIndex("base") \/ (u.category = "base" /\ u.step >= s)
                      \/ <<u.category, u.step>> \in seen
    BY DEF SeenBefore
  <2>1. \/ PlaceIndex(u.category) > PlaceIndex(t.category) \/ (u.category = t.category /\ u.step >= t.step)
        \/ <<u.category, u.step>> \in seen
    BY DEF SeenBefore
  <2>2. u.category \in {"base", "card", "board", "sidebar"} /\ t.category \in {"card", "board", "sidebar"}
    BY <1>2, TipsAre
  <2>3. u.category = "base" => ~(PlaceIndex(u.category) > PlaceIndex(t.category)) /\ u.category # t.category
    BY <2>2, IndexIs
  <2>4. u.category # "base" => PlaceIndex(u.category) > PlaceIndex("base")
    BY <2>2, IndexIs
  <2> QED BY <2>1, <2>3, <2>4
<1> QED BY <1>1, <1>2

LEMMA MoreSeen ==
  ASSUME NEW more, NEW seen \in SUBSET more
  PROVE  \A c, s : SeenBefore(seen, c, s) => SeenBefore(more, c, s)
BY DEF SeenBefore

\* What the page shows is seen.
LEMMA ShowsSeen ==
  ASSUME TourTypes, NEW cfg \in Preferences, NEW page \in TourPages, ShowsTour(cfg, page), ~trPast.jumped
  PROVE  /\ trSeen \subseteq trSeen'
         /\ \A t \in TipsShown' : <<t.category, t.step>> \in trSeen'
<1>1. trSeen' = trSeen \cup {<<t.category, t.step>> : t \in TourTipRenderer(cfg, FBRoute(cfg, page))}
  BY Zenon DEF ShowsTour
<1>2. TipsShown' = TourTipRenderer(cfg, FBRoute(cfg, page))
  BY Zenon DEF ShowsTour, TipsShown
<1> QED BY <1>1, <1>2

LEMMA LooksSeen ==
  ASSUME TourTypes, TourSeen, trLocal' = trLocal, ~trPast.jumped, \A t \in TipsShown : <<t.category, t.step>> \in trSeen
  PROVE  /\ trSeen \subseteq trSeen'
         /\ \A t \in TipsShown' : <<t.category, t.step>> \in trSeen'
<1>1. CASE UNCHANGED <<trPage, trSeen>>
  <2>1. TipsShown' = TipsShown
    BY <1>1 DEF TipsShown
  <2> QED BY <1>1, <2>1
<1>2. ASSUME NEW page \in {"board", "card", "other"}, ShowsTour(trLocal, page)
      PROVE  /\ trSeen \subseteq trSeen'
             /\ \A t \in TipsShown' : <<t.category, t.step>> \in trSeen'
  BY <1>2, ShowsSeen, TourTypesSplit DEF TourPages
<1> QED BY <1>1, <1>2 DEF TourSeen

LEMMA OrderSent == ASSUME TourTypes, OneRequest, OrderInv, TourSent  PROVE OrderInv'
<1>0. trReqs \in Seq(TourReqs) /\ Len(trReqs) \in Nat /\ trLocal \in Preferences
  BY TourTypesSplit
<1>1. trLocal' = trLocal /\ trServer' = trServer /\ TourSeen
  BY DEF TourSent
<1> PICK r, jumps :
      /\ TourFits(r) /\ r.status = "sent" /\ TourClick(r, jumps)
      /\ Len(trReqs') = Len(trReqs) + 1
      /\ \A i \in 1 .. Len(trReqs) : trReqs'[i] = trReqs[i]
      /\ trReqs'[Len(trReqs) + 1] = r
      /\ trPast'.jumped <=> (trPast.jumped \/ jumps \/ Len(trReqs) # 0)
  BY SentFacts
<1> SUFFICES ASSUME ~trPast'.jumped  PROVE OrderInv'
  BY DEF OrderInv
<1>2. ~trPast.jumped /\ ~jumps /\ Len(trReqs) = 0 /\ trPage # "none"
  BY ClickedOn
<1>3. /\ trServer.category \in TourNames => SeenBefore(trSeen, trServer.category, trServer.step)
      /\ trLocal.category \in TourNames => SeenBefore(trSeen, trLocal.category, trLocal.step)
      /\ \A t \in TipsShown : <<t.category, t.step>> \in trSeen
      /\ PlaceOf(trLocal) = PlaceOf(trServer) \/ PlaceOf(trServer) = <<"base", 0>>
  BY <1>2 DEF OrderInv
<1>4. trSeen \subseteq trSeen' /\ \A t \in TipsShown' : <<t.category, t.step>> \in trSeen'
  BY <1>1, <1>2, <1>3, LooksSeen
<1>5. \A c, s : SeenBefore(trSeen, c, s) => SeenBefore(trSeen', c, s)
  BY <1>4, MoreSeen
<1>6. \A i \in 1 .. Len(trReqs') : trReqs'[i] = r
  BY <1>2
<1>7. Len(trReqs') = 1
  BY <1>2
<1>8. r.then \notin {"skipTour", "skipped"}
  BY <1>2 DEF TourClick
\* The tip that is clicked on has been seen, and those before it.
<1>9. ASSUME NEW t \in TipsShown
      PROVE  /\ t \in TourTips /\ t.category \in TourNames /\ t.step \in 0 .. 2 /\ <<t.category, t.step>> \in trSeen
             /\ SeenBefore(trSeen, t.category, t.step) /\ PlaceOf(trLocal) = <<t.category, t.step>>
  BY <1>3, TipStands
<1>10. ASSUME NEW s \in 0 .. 2, r.then = "none", r.patch = StepTo(s), trServer.category \in TourNames
       PROVE  SeenBefore(trSeen, trServer.category, s)
  <2>1. \A t \in TipsShown : r.patch # NextTour(t.category)
    <3> SUFFICES ASSUME NEW t \in TipsShown  PROVE r.patch # NextTour(t.category)
      OBVIOUS
    <3>1. PICK d \in TourNames, u \in {0, FINISHED} : NextTour(t.category) = MoveOnTo(d, u)
      BY <1>9, NextMoves
    <3> QED BY <1>10, <3>1, PatchesApart
  <2>2. r.patch # MoveOnTo("card", 0) /\ r.patch # MoveOnTo("sidebar", 0) /\ r.patch # RestartTour(TOUR_BASE)
    BY <1>10, PatchesApart DEF TourNames
  <2>3. \E t \in TipsShown, u \in 0 .. 2 : r.patch = StepTo(u) /\ (t.category = "base" => u = 0) /\ u <= t.step + 1
    BY <1>2, <1>10, <2>1, <2>2 DEF TourClick
  <2>4. PICK t \in TipsShown : (t.category = "base" => s = 0) /\ s <= t.step + 1
    BY <1>10, <2>3, PatchesApart
  <2>5. CASE PlaceOf(trLocal) = PlaceOf(trServer)
    <3>1. trServer.category = t.category
      BY <1>9, <2>5 DEF PlaceOf
    <3> QED BY <1>9, <2>4, <3>1, NextSeen
  <2>6. CASE PlaceOf(trServer) = <<"base", 0>>
    <3>1. trServer.category = "base"
      BY <2>6 DEF PlaceOf
    <3> QED BY <1>9, <2>4, <3>1, BackSeen
  <2> QED BY <1>3, <2>5, <2>6
<1>11. ASSUME NEW c \in TourNames, NEW s \in {0, FINISHED}, r.then = "none", r.patch = MoveOnTo(c, s)
       PROVE  SeenBefore(trSeen, c, s)
  <2>1. (\A u \in 0 .. 2 : r.patch # StepTo(u)) /\ r.patch # RestartTour(TOUR_BASE)
    BY <1>11, PatchesApart
  <2>2. \/ \E t \in TipsShown : r.patch = NextTour(t.category) /\ t.category # "base" /\ t.step = 2
        \/ r.patch = MoveOnTo("card", 0) /\ trPage = "board" /\ trLocal.started /\ PlaceOf(trLocal) = <<"base", 0>>
        \/ r.patch = MoveOnTo("sidebar", 0) /\ PlaceOf(trLocal) = <<"board", FINISHED>>
    BY <1>2, <1>11, <2>1 DEF TourClick
  <2>3. ASSUME NEW t \in TipsShown, r.patch = NextTour(t.category), t.category # "base", t.step = 2
        PROVE  SeenBefore(trSeen, c, s)
    BY <1>9, <1>11, <2>3, MovesOnSeen
  <2>4. CASE r.patch = MoveOnTo("card", 0) /\ trPage = "board" /\ trLocal.started /\ PlaceOf(trLocal) = <<"base", 0>>
    <3>1. c = "card" /\ s = 0
      <4>1. \A d : d = "card" => MoveOnTo(c, s) = MoveOnTo(d, 0)
        BY <1>11, <2>4
      <4>2. \A d, u : MoveOnTo(c, s) = MoveOnTo(d, u) => c = d /\ s = u
        BY PatchesApart
      <4> QED BY <4>1, <4>2
    <3>2. OpenCardTourStep \in TourTips /\ OpenCardTourStep.category = "base" /\ OpenCardTourStep.step = 0
          /\ "board" \in OpenCardTourStep.pages
      BY DEF OpenCardTourStep, TourTips, TourTip, TOUR_BASE
    <3>3. OpenCardTourStep \in TipsShown
      BY <2>4, <3>2 DEF TipsShown, TourTipRenderer, PlaceOf
    <3>4. <<"base", 0>> \in trSeen
      BY <1>3, <3>2, <3>3
    <3> QED BY <3>1, <3>4, StartsSeen
  <2>5. CASE r.patch = MoveOnTo("sidebar", 0) /\ PlaceOf(trLocal) = <<"board", FINISHED>>
    <3>1. c = "sidebar" /\ s = 0
      <4>1. \A d : d = "sidebar" => MoveOnTo(c, s) = MoveOnTo(d, 0)
        BY <1>11, <2>5
      <4>2. \A d, u : MoveOnTo(c, s) = MoveOnTo(d, u) => c = d /\ s = u
        BY PatchesApart
      <4> QED BY <4>1, <4>2
    <3>2. trLocal.category = "board" /\ trLocal.step = FINISHED
      BY <2>5 DEF PlaceOf
    <3> QED BY <1>3, <3>1, <3>2, StartsSeen DEF TourNames
  <2> QED BY <2>2, <2>3, <2>4, <2>5
<1>12. /\ trServer'.category \in TourNames => SeenBefore(trSeen', trServer'.category, trServer'.step)
       /\ trLocal'.category \in TourNames => SeenBefore(trSeen', trLocal'.category, trLocal'.step)
  BY <1>1, <1>3, <1>5
<1>13. \A i \in 1 .. Len(trReqs'), s \in 0 .. 2 :
         trReqs'[i].status = "sent" /\ trReqs'[i].then = "none" /\ trReqs'[i].patch = StepTo(s) /\ trServer'.category \in TourNames =>
           SeenBefore(trSeen', trServer'.category, s)
  BY <1>1, <1>5, <1>6, <1>10
<1>14. \A i \in 1 .. Len(trReqs'), c \in TourNames, s \in {0, FINISHED} :
         trReqs'[i].status = "sent" /\ trReqs'[i].then = "none" /\ trReqs'[i].patch = MoveOnTo(c, s) => SeenBefore(trSeen', c, s)
  BY <1>5, <1>6, <1>11
<1>15. PlaceOf(trLocal') = PlaceOf(trServer') \/ PlaceOf(trServer') = <<"base", 0>>
  BY <1>1, <1>3
<1> QED BY <1>4, <1>6, <1>8, <1>12, <1>13, <1>14, <1>15 DEF OrderInv

LEMMA OrderServed == ASSUME TourTypes, OneRequest, OrderInv, ServeConfig  PROVE OrderInv'
<1>0. trReqs \in Seq(TourReqs) /\ Len(trReqs) \in Nat /\ trServer \in Preferences
  BY TourTypesSplit
<1> PICK k \in 1 .. Len(trReqs) : TookIt(k) \/ RefusedIt(k)
  BY ServedFacts
<1> DEFINE r == trReqs[k]
<1> SUFFICES ASSUME ~trPast'.jumped  PROVE OrderInv'
  BY DEF OrderInv
<1>1. /\ Len(trReqs') = Len(trReqs) /\ r.status = "sent" /\ trReqs'[k].then = r.then /\ trReqs'[k].status \in {"ok", "failed"}
      /\ UNCHANGED <<trLocal, trPage, trSeen>> /\ ~trPast.jumped
  BY TakesWell, RefusesWell
<1>2. Len(trReqs) <= 1
  BY <1>1 DEF OneRequest
<1>3. k = 1 /\ Len(trReqs) = 1 /\ \A i \in 1 .. Len(trReqs') : i = 1
  BY <1>0, <1>1, <1>2
<1>4. TipsShown' = TipsShown
  BY <1>1 DEF TipsShown
<1>5. /\ trLocal.category \in TourNames => SeenBefore(trSeen, trLocal.category, trLocal.step)
      /\ \A t \in TipsShown : <<t.category, t.step>> \in trSeen
      /\ r.then \notin {"skipTour", "skipped"}
  BY <1>1 DEF OrderInv
<1>6. /\ trServer'.category \in TourNames => SeenBefore(trSeen, trServer'.category, trServer'.step)
      /\ \/ trPage = "none" \/ PlaceOf(trLocal) = PlaceOf(trServer') \/ PlaceOf(trServer') = <<"base", 0>>
         \/ (trReqs'[1].kind = "fetch" /\ trReqs'[1].status = "sent") \/ (trReqs'[1].kind # "prepare" /\ trReqs'[1].status = "ok")
  <2>0. trServer.category \in TourNames => SeenBefore(trSeen, trServer.category, trServer.step)
    BY <1>1 DEF OrderInv
  <2>1. CASE RefusedIt(k)
    <3>1. trServer' = trServer /\ r.kind # "fetch" /\ r.status = "sent"
      BY <2>1, RefusesWell
    <3> QED BY <1>1, <1>3, <2>0, <3>1 DEF OrderInv
  <2>2. CASE TookIt(k)
    <3>1. /\ TourFits(r) /\ trReqs'[k].kind = r.kind /\ trReqs'[k].status = "ok"
          /\ trServer' = TourEffect(trServer, r) /\ trServer' \in Preferences
      BY <2>2, TakesWell
    <3>2. CASE r.kind = "prepare"
      <4>1. trServer'.category = "base" /\ trServer'.step = 0
        BY <1>0, <3>1, <3>2, EffectIs
      <4> QED BY <4>1, FirstSeen DEF PlaceOf
    <3>3. CASE r.kind = "fetch" \/ r.then = "startTour"
      <4>1. trServer'.category = trServer.category /\ trServer'.step = trServer.step
        BY <1>0, <3>1, <3>3, EffectIs
      <4>2. trReqs'[1].kind # "prepare"
        BY <1>3, <3>1, <3>3 DEF TourFits
      <4> QED BY <1>3, <2>0, <3>1, <4>1, <4>2
    <3>4. CASE r.then = "productTour"
      <4>1. trServer'.category = "onboarding"
        BY <1>0, <3>1, <3>4, EffectIs
      <4>2. trReqs'[1].kind # "prepare"
        BY <1>3, <3>1, <3>4 DEF TourFits
      <4> QED BY <1>3, <3>1, <4>1, <4>2 DEF TourNames
    <3>5. CASE r.then = "none"
      <4>1. trReqs'[1].kind # "prepare"
        BY <1>3, <3>1, <3>5 DEF TourFits
      <4>2. \/ trServer'.category = "base" /\ trServer'.step = 0
            \/ \E s \in 0 .. 2 : r.patch = StepTo(s) /\ trServer'.category = trServer.category /\ trServer'.step = s
            \/ \E c \in {"card", "board", "sidebar"} : r.patch = MoveOnTo(c, 0) /\ trServer'.category = c /\ trServer'.step = 0
            \/ r.patch = MoveOnTo("sidebar", FINISHED) /\ trServer'.category = "sidebar" /\ trServer'.step = FINISHED
        BY <1>0, <3>1, <3>5, EffectIs
      <4>3. CASE trServer'.category = "base" /\ trServer'.step = 0
        BY <1>3, <3>1, <4>1, <4>3, FirstSeen
      <4>4. ASSUME NEW s \in 0 .. 2, r.patch = StepTo(s), trServer'.category = trServer.category, trServer'.step = s
            PROVE  trServer'.category \in TourNames => SeenBefore(trSeen, trServer'.category, trServer'.step)
        BY <1>1, <3>5, <4>4 DEF OrderInv
      <4>5. ASSUME NEW c \in TourNames, NEW s \in {0, FINISHED}, r.patch = MoveOnTo(c, s), trServer'.category = c, trServer'.step = s
            PROVE  SeenBefore(trSeen, trServer'.category, trServer'.step)
        BY <1>1, <3>5, <4>5 DEF OrderInv
      <4>6. trServer'.category \in TourNames => SeenBefore(trSeen, trServer'.category, trServer'.step)
        BY <4>2, <4>3, <4>4, <4>5, FirstSeen DEF TourNames
      <4> QED BY <1>3, <3>1, <4>1, <4>6
    <3> QED BY <1>5, <3>1, <3>2, <3>3, <3>4, <3>5, ReqFacts
  <2> QED BY <2>1, <2>2
<1>7. /\ \A i \in 1 .. Len(trReqs') : trReqs'[i].then \notin {"skipTour", "skipped"} /\ trReqs'[i].status # "sent"
      /\ Len(trReqs') = 1
  BY <1>1, <1>3, <1>5
<1>8. /\ trLocal'.category \in TourNames => SeenBefore(trSeen', trLocal'.category, trLocal'.step)
      /\ \A t \in TipsShown' : <<t.category, t.step>> \in trSeen'
      /\ trServer'.category \in TourNames => SeenBefore(trSeen', trServer'.category, trServer'.step)
  BY <1>1, <1>4, <1>5, <1>6
<1>9. \/ trPage' = "none" \/ PlaceOf(trLocal') = PlaceOf(trServer') \/ PlaceOf(trServer') = <<"base", 0>>
      \/ (trReqs'[1].kind = "fetch" /\ trReqs'[1].status = "sent") \/ (trReqs'[1].kind # "prepare" /\ trReqs'[1].status = "ok")
  BY <1>1, <1>6
<1> QED BY <1>7, <1>8, <1>9 DEF OrderInv

LEMMA OrderAnswered == ASSUME TourTypes, OneRequest, OrderInv, AnswerComes  PROVE OrderInv'
<1> DEFINE r == trReqs[1]
           page == WelcomePage(trLocal', PageAfter(r))
<1>0. trReqs \in Seq(TourReqs) /\ Len(trReqs) \in Nat
  BY TourTypesSplit
<1> SUFFICES ASSUME ~trPast'.jumped  PROVE OrderInv'
  BY DEF OrderInv
<1>1. /\ Len(trReqs) >= 1 /\ TourFits(r) /\ UNCHANGED <<trServer, trPast>> /\ r.status \in {"ok", "failed"}
      /\ r.kind # "prepare" /\ r.status = "ok" /\ Len(trReqs) = 1 => trLocal' = trServer
      /\ r.kind = "prepare" \/ r.status = "failed" => trLocal' = trLocal
      /\ trLocal' \in Preferences /\ trPage # "none" /\ ~trPast.jumped
  BY ArrivesWell
<1>2. Len(trReqs) <= 1
  BY <1>1 DEF OneRequest
<1>3. Len(trReqs) = 1 /\ 1 \in 1 .. Len(trReqs)
  <2>1. \A n \in Nat : n <= 1 /\ n >= 1 => n = 1 /\ 1 \in 1 .. n
    OBVIOUS
  <2>2. Len(trReqs) >= 1
    BY <1>1, Zenon
  <2> QED BY <1>0, <1>2, <2>1, <2>2, Zenon
<1>4. \A i \in 1 .. Len(trReqs') : Follows(trReqs'[i], r)
  <2>1. \A i \in 1 .. Len(trReqs') :
        \/ i \in 1 .. Len(trReqs) - 1 /\ i + 1 \in 1 .. Len(trReqs) /\ trReqs'[i] = trReqs[i + 1]
        \/ i = Len(trReqs) /\ Follows(trReqs'[i], r)
    BY ArrivesWell
  <2> QED BY <1>3, <2>1
<1>5. /\ trServer.category \in TourNames => SeenBefore(trSeen, trServer.category, trServer.step)
      /\ trLocal.category \in TourNames => SeenBefore(trSeen, trLocal.category, trLocal.step)
      /\ r.then \notin {"skipTour", "skipped"}
      /\ \/ PlaceOf(trLocal) = PlaceOf(trServer) \/ PlaceOf(trServer) = <<"base", 0>> \/ (r.kind # "prepare" /\ r.status = "ok")
  BY <1>1, <1>3 DEF OrderInv
<1>6. TourArrived(r)
  BY ArrivedFacts
<1>7. page \in TourPages
  BY <1>6, PageAfterIs
<1>8. ShowsTour(trLocal', page)
  BY <1>6 DEF TourArrived
<1> HIDE DEF page
<1>9. trSeen \subseteq trSeen' /\ \A t \in TipsShown' : <<t.category, t.step>> \in trSeen'
  <2> DEFINE cfg == trLocal'
  <2>1. cfg \in Preferences /\ ShowsTour(cfg, page)
    BY <1>1, <1>8
  <2> HIDE DEF cfg
  <2> QED BY <1>1, <1>7, <2>1, ShowsSeen
<1>10. \A c, s : SeenBefore(trSeen, c, s) => SeenBefore(trSeen', c, s)
  BY <1>9, MoreSeen
<1>11. /\ trLocal'.category \in TourNames => SeenBefore(trSeen', trLocal'.category, trLocal'.step)
       /\ PlaceOf(trLocal') = PlaceOf(trServer) \/ PlaceOf(trServer) = <<"base", 0>>
  <2>1. CASE r.kind # "prepare" /\ r.status = "ok"
    BY <1>1, <1>3, <1>5, <1>10, <2>1
  <2>2. CASE ~(r.kind # "prepare" /\ r.status = "ok")
    <3>1. trLocal' = trLocal
      BY <1>1, <2>2
    <3> QED BY <1>5, <1>10, <2>2, <3>1
  <2> QED BY <2>1, <2>2
<1>12. trServer'.category \in TourNames => SeenBefore(trSeen', trServer'.category, trServer'.step)
  BY <1>1, <1>5, <1>10
<1>13. \A i \in 1 .. Len(trReqs') : trReqs'[i].then \notin {"none", "skipTour", "skipped"}
  <2> SUFFICES ASSUME NEW i \in 1 .. Len(trReqs')  PROVE trReqs'[i].then \notin {"none", "skipTour", "skipped"}
    OBVIOUS
  <2>1. Follows(trReqs'[i], r)
    BY <1>4
  <2> QED BY <1>5, <2>1, ReqFacts DEF Follows
<1> QED BY <1>1, <1>9, <1>11, <1>12, <1>13 DEF OrderInv

LEMMA OrderStep == ASSUME TourTypes, OneRequest, OrderInv, TrNext  PROVE OrderInv'
<1>1. CASE OlderVersion
  <2>1. trPast'.jumped
    BY <1>1, TourTypesSplit DEF OlderVersion, TourPasts
  <2> QED BY <2>1 DEF OrderInv
<1>2. CASE LoadApp
  <2>1. trReqs = <<>> /\ trReqs' = trReqs /\ trServer' = trServer /\ trPast' = trPast /\ trLocal' = trServer /\ trServer \in Preferences
        /\ ShowsTour(trServer, "other")
    BY <1>2 DEF LoadApp, ShowsTour, TourTypes, TrTypeOK
  <2>2. Len(trReqs') = 0
    BY <2>1
  <2> SUFFICES ASSUME ~trPast'.jumped  PROVE OrderInv'
    BY DEF OrderInv
  <2>3. trSeen \subseteq trSeen' /\ \A t \in TipsShown' : <<t.category, t.step>> \in trSeen'
    BY <2>1, ShowsSeen DEF TourPages
  <2>4. \A c, s : SeenBefore(trSeen, c, s) => SeenBefore(trSeen', c, s)
    BY <2>3, MoreSeen
  <2>5. trServer.category \in TourNames => SeenBefore(trSeen, trServer.category, trServer.step)
    BY <2>1 DEF OrderInv
  <2> QED BY <2>1, <2>2, <2>3, <2>4, <2>5 DEF OrderInv
<1>3. CASE TourLooked
  <2>1. UNCHANGED <<trServer, trLocal, trReqs, trPast>> /\ TourSeen /\ trLocal' = trLocal
    BY <1>3 DEF TourLooked
  <2> SUFFICES ASSUME ~trPast.jumped  PROVE OrderInv'
    BY <2>1 DEF OrderInv
  <2>2. \A t \in TipsShown : <<t.category, t.step>> \in trSeen
    BY DEF OrderInv
  <2>3. trSeen \subseteq trSeen' /\ \A t \in TipsShown' : <<t.category, t.step>> \in trSeen'
    BY <2>1, <2>2, LooksSeen
  <2>4. \A c, s : SeenBefore(trSeen, c, s) => SeenBefore(trSeen', c, s)
    BY <2>3, MoreSeen
  <2>5. trPage' = trPage \/ trPage # "none"
    BY <2>1, SeenFacts
  <2> QED BY <2>1, <2>3, <2>4, <2>5 DEF OrderInv
<1>4. CASE LeaveLost
  <2>1. trPage' = "none" /\ UNCHANGED <<trServer, trLocal, trReqs, trPast>> /\ trSeen' = trSeen
    BY <1>4 DEF LeaveLost
  <2>2. TipsShown' = {}
    <3>1. TipsShown' = TourTipRenderer(trLocal, "none")
      BY <2>1 DEF TipsShown
    <3>2. \A t \in TourTipRenderer(trLocal, "none") : FALSE
      BY TourTypesSplit, ShownAt, TipsAre
    <3> QED BY <3>1, <3>2
  <2> QED BY <2>1, <2>2 DEF OrderInv
<1> QED BY <1>1, <1>2, <1>3, <1>4, OrderSent, OrderServed, OrderAnswered, TourShape

----------------------------------------------------------------------------
(***************************************************************************)
(* The invariant of the tour.                                               *)
(***************************************************************************)
TourInv ==
  TourTypes /\ OneRequest /\ WelcomeInv /\ StartInv /\ CopyInv /\ PlaceInv /\ EndedInv /\ OrderInv

LEMMA TourInit == TrInit => TourInv
<1> SUFFICES ASSUME TrInit  PROVE TourInv
  OBVIOUS
<1>1. /\ trServer = FirstPreferences /\ trLocal = FirstPreferences
      /\ trPage = "none" /\ trHidden = FALSE /\ trReqs = <<>> /\ trSeen = {}
      /\ trPast = [races |-> 0, failed |-> FALSE, ended |-> FALSE, mixed |-> FALSE, jumped |-> FALSE]
  BY DEF TrInit
<1>2. Len(trReqs) = 0 /\ trReqs \in Seq(TourReqs)
  BY <1>1
<1>3. trPast.races = 0 /\ ~trPast.failed /\ ~trPast.ended /\ ~trPast.mixed /\ ~trPast.jumped /\ trPast \in TourPasts
  BY <1>1 DEF TourPasts
<1>4. TourTypes
  <2>1. TrTypeOK
    BY <1>1, FirstIs DEF TrTypeOK
  <2>2. trPast \in [races : Nat, failed : BOOLEAN, ended : BOOLEAN, mixed : BOOLEAN, jumped : BOOLEAN]
    BY <1>3 DEF TourPasts
  <2>3. \A i \in 1 .. Len(trReqs) : FALSE
    BY <1>2
  <2>4. trPage \notin {"board", "card", "other", "lost"}
    BY <1>1
  <2> QED BY <1>1, <1>2, <2>1, <2>2, <2>3, <2>4, Zenon DEF TourTypes
<1>5. OneRequest /\ EndedInv
  BY <1>2, <1>3 DEF OneRequest, EndedInv
<1>6. WelcomeInv
  BY <1>1, <1>2 DEF WelcomeInv
<1>7. StartInv
  BY <1>2 DEF StartInv, Starting
<1>8. CopyInv
  BY <1>1 DEF CopyInv
<1>9. \A s \in {0, 1, 2, FINISHED} : FirstPreferences.category \in TourNames => FirstPreferences.step # s
  BY FirstIs, PlacesApart DEF PlaceOf, TourNames
<1>10. PlaceInv
  <2>1. ~HasStep(trLocal)
    BY <1>1, FirstIs, NoStepOutside
  <2>2. PlaceOf(trServer) = BeforeTour
    BY <1>1, FirstIs
  <2> QED BY <1>2, <2>1, <2>2 DEF PlaceInv
<1>11. OrderInv
  <2>1. FirstPreferences.category \notin TourNames
    <3>1. \A c \in TourNames : c # ""
      BY Zenon DEF TourNames
    <3>2. FirstPreferences.category = ""
      BY FirstIs, Zenon DEF PlaceOf, BeforeTour
    <3> QED BY <3>1, <3>2, Zenon
  <2>2. \A t \in TipsShown : FALSE
    BY <1>1, FirstIs, ShownAt DEF TipsShown
  <2> QED BY <1>1, <1>2, <2>1, <2>2 DEF OrderInv
<1> QED BY <1>4, <1>5, <1>6, <1>7, <1>8, <1>10, <1>11 DEF TourInv

LEMMA TourStep == ASSUME TourInv, TrNext  PROVE TourInv'
<1>1. TourTypes /\ OneRequest /\ WelcomeInv /\ StartInv /\ CopyInv /\ PlaceInv /\ EndedInv /\ OrderInv
  BY DEF TourInv
<1>2. TourTypes'
  BY <1>1, TourTypesStep
<1>3. WelcomeInv'
  BY <1>1, <1>2, WelcomeStep
<1> QED BY <1>1, <1>2, <1>3, OneRequestStep, StartStep, CopyStep, PlaceStep, EndedStep, OrderStep DEF TourInv

LEMMA TourStill == ASSUME TourInv, UNCHANGED trVars  PROVE TourInv'
<1>0. /\ trServer' = trServer /\ trLocal' = trLocal /\ trPage' = trPage /\ trHidden' = trHidden /\ trReqs' = trReqs
      /\ trSeen' = trSeen /\ trPast' = trPast
  BY DEF trVars
<1>1. TourTypes'
  BY <1>0 DEF TourInv, TourTypes, TrTypeOK, ServedEnd
<1>2. OneRequest' /\ WelcomeInv'
  BY <1>0 DEF TourInv, OneRequest, WelcomeInv
<1>3. StartInv'
  BY <1>0 DEF TourInv, StartInv, Starting
<1>4. CopyInv'
  BY <1>0 DEF TourInv, CopyInv, OnlyBoardIsNew
<1>5. PlaceInv' /\ EndedInv'
  BY <1>0 DEF TourInv, PlaceInv, EndedInv, HasStep, ServerAhead
<1>6. TipsShown' = TipsShown
  BY <1>0 DEF TipsShown
<1>7. OrderInv'
  BY <1>0, <1>6 DEF TourInv, OrderInv
<1> QED BY <1>1, <1>2, <1>3, <1>4, <1>5, <1>7 DEF TourInv

LEMMA TourShown == ASSUME TourInv  PROVE TrTypeOK /\ TourHasTip /\ EndedStays /\ CopyIsCurrent /\ TipsInOrder
<1>0. trReqs \in Seq(TourReqs) /\ Len(trReqs) \in Nat /\ trServer \in Preferences /\ trLocal \in Preferences
  BY TourTypesSplit DEF TourInv
<1>1. TrTypeOK
  BY DEF TourInv, TourTypes
<1>2. TourHasTip
  <2> SUFFICES ASSUME ~trPast.mixed, ~trPast.failed, trReqs = <<>>
               PROVE  PlaceOf(trServer) \in TipPlaces \cup {BeforeTour, AfterTour, <<"board", FINISHED>>}
    BY Zenon DEF TourHasTip, BeforeTour, AfterTour, TOUR_BOARD, TOUR_SIDEBAR
  <2>1. Len(trReqs) = 0
    OBVIOUS
  <2> QED BY <2>1 DEF TourInv, PlaceInv
<1>3. EndedStays
  <2> SUFFICES ASSUME trPast.races = 0, trPast.ended
               PROVE  PlaceOf(trServer) = AfterTour /\ (trReqs = <<>> => TipsShown = {})
    BY Zenon DEF EndedStays, Patient, AfterTour, TOUR_SIDEBAR
  <2>1. PlaceOf(trServer) = AfterTour /\ (PlaceOf(trLocal) = AfterTour \/ Len(trReqs) = 1)
    BY DEF TourInv, EndedInv
  <2>2. ASSUME trReqs = <<>>, NEW t \in TipsShown  PROVE FALSE
    <3>1. PlaceOf(trLocal) = AfterTour
      BY <2>1, <2>2
    <3>2. HasStep(trLocal)
      BY <2>2, TipStands DEF TourInv
    <3> QED BY <3>1, <3>2, NoStepOutside
  <2> QED BY <2>1, <2>2
<1>4. CopyIsCurrent
  <2> SUFFICES ASSUME ~trPast.mixed, ~trPast.failed, trReqs = <<>>, trPage # "none"
               PROVE  trLocal = trServer \/ OnlyBoardIsNew
    BY DEF CopyIsCurrent, OnlyBoardIsNew, TOUR_BASE
  <2>1. Len(trReqs) = 0
    OBVIOUS
  <2> QED BY <2>1 DEF TourInv, CopyInv
<1>5. TipsInOrder
  <2> SUFFICES ASSUME ~trPast.jumped, trServer.category \in TourNames
               PROVE  SeenBefore(trSeen, trServer.category, trServer.step)
    BY OrderIs DEF TipsInOrder, SeenBefore, TourNames
  <2> QED BY DEF TourInv, OrderInv
<1> QED BY <1>1, <1>2, <1>3, <1>4, <1>5
=============================================================================
