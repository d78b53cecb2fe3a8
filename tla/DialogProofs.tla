---------------------------- MODULE DialogProofs ----------------------------
(***************************************************************************)
(* The dialogs.  That of a card saves what was typed for that card, and     *)
(* nothing else; a file is attached to the card for which it was chosen.    *)
(* The dialogs for a new board and a new channel make what was chosen, for  *)
(* the channel for which it was chosen.                                     *)
(***************************************************************************)
EXTENDS CardDialog, BoardTemplates, SequenceTheorems, FiniteSetTheorems, WellFoundedInduction, TLAPS

\* What a request or a piece of news may carry: a title, a file, or nothing.
Values == DgTitles \cup Nat \cup {""}

Flags == BOOLEAN
Requests == [kind : {"title", "attach", "detach", "delete", "template"}, card : DgAll,
             what : Values, served : Flags]
Newses   == [card : DgAll, kind : {"title", "gone", "attached", "detached"}, what : Values]
Uploads  == [card : DgAll, file : Nat, failed : Flags]
Texts    == [DgAll -> Values]
TextSets == [DgAll -> SUBSET Values]
Cards    == Seq(DgAll)
Refusals == SUBSET DgAll
Pasts    == [steps : Nat, others : Nat, files : Nat, chosen : Cards, typed : Texts, seen : TextSets,
             refused : Refusals, echoed : Flags, cut : Flags]

Types ==
  /\ dgServer \in [DgAll -> [title : Values, live : Flags, files : SUBSET Values]]
  /\ dgStore \in [DgAll -> [title : Values, live : Flags]]
  /\ dgDialog \in [card : DgAll \cup {""}, mounted : Flags, title : Values, serverTitle : Values]
  /\ dgDialog.mounted => dgDialog.card \in DgAll
  /\ dgUploads \in Seq(Uploads)
  /\ dgRequests \in Seq(Requests)
  /\ dgNews \in Seq(Newses)
  /\ dgPast \in Pasts

----------------------------------------------------------------------------
(***************************************************************************)
(* Lemmas about the operators.                                              *)
(***************************************************************************)

\* The empty name is no card; the template is one, and the first title is a title.
LEMMA FirstCard == "" \notin DgAll /\ DgFirstTitle \in Values /\ DgTemplate \in DgAll
BY DgAssumption DEF DgAll, Values

\* Truth values are flags, membership among them.
LEMMA FlagsAre == TRUE \in Flags /\ FALSE \in Flags /\ \A k, S : (k \in S) \in Flags
BY SMT DEF Flags

\* The news that count for a card are news about it, among those delivered.
LEMMA NewestIsNews ==
  ASSUME NEW k, NEW batch, LastNews(k, batch) # {}
  PROVE  LET m == CHOOSE n \in LastNews(k, batch) : TRUE IN m \in DOMAIN batch /\ batch[m].card = k
BY DEF LastNews

\* A batch of news changes a card of the store to a card.
LEMMA CardNewsType ==
  ASSUME Types, NEW n \in DOMAIN dgNews, NEW k \in DgAll
  PROVE  CardNews(k, SubSeq(dgNews, 1, n)) \in [title : Values, live : Flags]
<1> DEFINE batch == SubSeq(dgNews, 1, n)
<1>1. batch \in Seq(Newses)
  <2>1. dgNews \in Seq(Newses)
    BY DEF Types
  <2>2. n \in 1..Len(dgNews)
    BY <2>1
  <2> QED BY <2>1, <2>2
<1>2. CASE LastNews(k, batch) = {}
  BY <1>2 DEF CardNews, Types
<1>3. CASE LastNews(k, batch) # {}
  <2> DEFINE m == CHOOSE o \in LastNews(k, batch) : TRUE
  <2>1. m \in DOMAIN batch
    BY <1>3, NewestIsNews
  <2>2. batch[m] \in Newses
    BY <2>1, <1>1
  <2> QED
    BY <1>3, <2>2, FlagsAre DEF CardNews, Types, Newses
<1> QED
  BY <1>2, <1>3

\* A set of positions that is not empty has a first one.
LEMMA FirstPlace ==
  ASSUME NEW n \in Nat, NEW A \in SUBSET (0..n), A # {}
  PROVE  \E m \in A : \A a \in A : m <= a
<1> DEFINE T == {0..a : a \in A}
           R == StrictSubsetOrdering(0..n)
<1>1. IsWellFoundedOn(R, FiniteSubsetsOf(0..n))
  BY FS_StrictSubsetOrderingWellFounded
<1>2. \A a \in A : IsFiniteSet(0..a) /\ 0..a \subseteq 0..n
  BY FS_Interval
<1>3. T \subseteq FiniteSubsetsOf(0..n)
  BY <1>2 DEF FiniteSubsetsOf
<1>4. T # {}
  OBVIOUS
<1> HIDE DEF T, R
<1>5. PICK x \in T : \A y \in T : ~ (<<y, x>> \in R)
  BY <1>1, <1>3, <1>4, WFMin
<1>6. PICK m \in A : x = 0..m
  BY DEF T
<1>7. ASSUME NEW a \in A, a < m
      PROVE  FALSE
  <2>1. 0..a \in T
    BY DEF T
  <2>2. 0..a \subseteq 0..m /\ m \in 0..m /\ m \notin 0..a
    BY <1>7
  <2>3. 0..a \in SUBSET (0..n) /\ x \in SUBSET (0..n)
    BY <1>6
  <2>4. <<0..a, x>> \in R
    BY <2>2, <2>3, <1>6 DEF R, StrictSubsetOrdering
  <2> QED BY <2>1, <2>4, <1>5
<1> QED BY <1>7

\* What is left of a sequence is one of the same elements.
LEMMA RemoveAtType ==
  ASSUME NEW S, NEW s \in Seq(S), NEW i \in DOMAIN s
  PROVE  RemoveAt(s, i) \in Seq(S)
BY DEF RemoveAt

\* What is left after one element is removed was in the sequence, and all others are left.
LEMMA RemoveAtPlaces ==
  ASSUME NEW S, NEW s \in Seq(S), NEW i \in DOMAIN s
  PROVE  /\ Len(RemoveAt(s, i)) = Len(s) - 1
         /\ \A j \in 1..Len(RemoveAt(s, i)) : RemoveAt(s, i)[j] = IF j < i THEN s[j] ELSE s[j + 1]
<1> DEFINE t == RemoveAt(s, i)
<1>1. t = SubSeq(s, 1, i - 1) \o SubSeq(s, i + 1, Len(s))
  BY DEF RemoveAt
<1>2. Len(t) = Len(s) - 1 /\ \A j \in 1..Len(t) : t[j] = IF j < i THEN s[j] ELSE s[j + 1]
  <2> DEFINE a == SubSeq(s, 1, i - 1)
             b == SubSeq(s, i + 1, Len(s))
  <2>1. i \in 1..Len(s) /\ Len(s) \in Nat
    OBVIOUS
  <2>2. a \in Seq(S) /\ Len(a) = i - 1 /\ \A j \in 1..(i - 1) : a[j] = s[j]
    BY <2>1
  <2>3. b \in Seq(S) /\ Len(b) = Len(s) - i /\ \A j \in 1..(Len(s) - i) : b[j] = s[i + j]
    BY <2>1
  <2> HIDE DEF a, b
  <2>4. t = a \o b
    BY <1>1 DEF a, b
  <2>7. a \in Seq(S) /\ b \in Seq(S)
    BY <2>2, <2>3
  <2>5. Len(a \o b) = Len(a) + Len(b)
    BY <2>7
  <2>6. ASSUME NEW j \in 1..(Len(s) - 1) PROVE (a \o b)[j] = IF j < i THEN s[j] ELSE s[j + 1]
    <3>1. Len(a) = i - 1 /\ Len(b) = Len(s) - i
      BY <2>2, <2>3
    <3>2. CASE j < i
      <4>1. (a \o b)[j] = a[j]
        BY <2>1, <2>6, <2>7, <3>1, <3>2
      <4> QED BY <4>1, <3>2, <2>1, <2>2, <2>6
    <3>3. CASE j >= i
      <4>1. (a \o b)[j] = b[j - (i - 1)]
        BY <2>1, <2>6, <2>7, <3>1, <3>3
      <4>2. j - (i - 1) \in 1..(Len(s) - i) /\ i + (j - (i - 1)) = j + 1
        BY <2>1, <2>6, <3>3
      <4>3. b[j - (i - 1)] = s[i + (j - (i - 1))]
        BY <4>2, <2>3
      <4> QED BY <4>1, <4>2, <4>3, <3>3, <2>1, <2>6
    <3>4. j < i \/ j >= i
      BY <2>1, <2>6
    <3> QED BY <3>2, <3>3, <3>4
  <2>8. Len(a \o b) = Len(s) - 1
    BY <2>1, <2>2, <2>3, <2>5
  <2> QED BY <2>4, <2>6, <2>8
<1> QED BY <1>2

LEMMA RemoveAtElements ==
  ASSUME NEW S, NEW s \in Seq(S), NEW i \in DOMAIN s
  PROVE  /\ \A j \in DOMAIN RemoveAt(s, i) : \E k \in DOMAIN s : RemoveAt(s, i)[j] = s[k]
         /\ \A k \in DOMAIN s \ {i} : \E j \in DOMAIN RemoveAt(s, i) : RemoveAt(s, i)[j] = s[k]
<1> DEFINE t == RemoveAt(s, i)
<1>2. Len(t) = Len(s) - 1 /\ \A j \in 1..Len(t) : t[j] = IF j < i THEN s[j] ELSE s[j + 1]
  BY RemoveAtPlaces
<1>3. DOMAIN t = 1..Len(t) /\ DOMAIN s = 1..Len(s)
  BY RemoveAtType
<1> HIDE DEF t
<1>4. ASSUME NEW j \in DOMAIN t PROVE \E k \in DOMAIN s : t[j] = s[k]
  <2>1. j \in Nat /\ 1 <= j /\ j <= Len(s) - 1 /\ Len(s) \in Nat
    BY <1>2, <1>3
  <2>2. CASE j < i
    <3>1. j \in DOMAIN s /\ t[j] = s[j]
      BY <2>1, <2>2, <1>2, <1>3
    <3> QED BY <3>1
  <2>3. CASE ~(j < i)
    <3>1. j + 1 \in DOMAIN s /\ t[j] = s[j + 1]
      BY <2>1, <2>3, <1>2, <1>3
    <3> QED BY <3>1
  <2> QED BY <2>2, <2>3
<1>5. ASSUME NEW k \in DOMAIN s \ {i} PROVE \E j \in DOMAIN t : t[j] = s[k]
  <2>1. CASE k < i
    BY <2>1, <1>2, <1>3
  <2>2. CASE k > i
    <3>1. k - 1 \in DOMAIN t /\ t[k - 1] = s[k]
      BY <2>2, <1>2, <1>3
    <3> QED BY <3>1
  <2> QED BY <2>1, <2>2, <1>3
<1> QED
  BY <1>4, <1>5 DEF t

\* What a dialog saves are requests.
LEMMA SavesType ==
  ASSUME Types
  PROVE  UnmountSaves(dgDialog) \in Seq(Requests) /\ TitleSaves(dgDialog) \in Seq(Requests)
<1>1. CASE dgDialog.mounted
  <2>1. CardRequest("title", dgDialog.card, dgDialog.title) \in Requests
    BY <1>1, FlagsAre DEF Types, CardRequest, Requests
  <2> QED BY <2>1 DEF UnmountSaves, TitleSaves
<1>2. CASE ~dgDialog.mounted
  BY <1>2 DEF UnmountSaves, TitleSaves
<1> QED BY <1>1, <1>2

\* Noting what is saved keeps the type of the history.
LEMMA NoteSavesType ==
  ASSUME NEW past \in Pasts, NEW requests
  PROVE  NoteSaves(past, requests) \in Pasts
<1> DEFINE echoes == past.echoed \/ \E r \in Sent(requests) : r.what # past.typed[r.card]
<1>1. echoes \in Flags
  BY Zenon DEF Flags
<1>2. NoteSaves(past, requests) = [past EXCEPT !.echoed = echoes]
  BY DEF NoteSaves
<1> HIDE DEF echoes
<1> QED
  BY <1>1, <1>2 DEF Pasts

----------------------------------------------------------------------------
(***************************************************************************)
(* Types.                                                                   *)
(***************************************************************************)

\* The initial state is of the types.
LEMMA TypesInit == DgInit => Types
<1> SUFFICES ASSUME DgInit PROVE Types
  OBVIOUS
<1>1. dgServer \in [DgAll -> [title : Values, live : Flags, files : SUBSET Values]]
  BY FirstCard, FlagsAre DEF DgInit
<1>2. dgStore \in [DgAll -> [title : Values, live : Flags]]
  BY FirstCard, FlagsAre DEF DgInit
<1>3. /\ dgDialog \in [card : DgAll \cup {""}, mounted : Flags, title : Values, serverTitle : Values]
      /\ ~dgDialog.mounted
  BY FirstCard, FlagsAre DEF DgInit, NoDialog
<1>4. dgUploads \in Seq(Uploads) /\ dgRequests \in Seq(Requests) /\ dgNews \in Seq(Newses)
  <2>1. dgUploads = <<>> /\ dgRequests = <<>> /\ dgNews = <<>>
    BY DEF DgInit
  <2> QED BY <2>1
<1>5. dgPast \in Pasts
  <2>1. /\ [k \in DgAll |-> ""] \in Texts /\ [k \in DgAll |-> {DgFirstTitle}] \in TextSets
        /\ <<>> \in Cards /\ {} \in Refusals
    <3>1. "" \in Values /\ {DgFirstTitle} \in SUBSET Values
      BY FirstCard DEF Values
    <3>2. [k \in DgAll |-> ""] \in Texts /\ [k \in DgAll |-> {DgFirstTitle}] \in TextSets
      BY <3>1 DEF Texts, TextSets
    <3>3. <<>> \in Cards /\ {} \in Refusals
      BY DEF Cards, Refusals
    <3> QED BY <3>2, <3>3
  <2>2. dgPast = [steps |-> 0, others |-> 0, files |-> 0, chosen |-> <<>>, typed |-> [k \in DgAll |-> ""],
                  seen |-> [k \in DgAll |-> {DgFirstTitle}], refused |-> {}, echoed |-> FALSE, cut |-> FALSE]
    BY DEF DgInit
  <2> QED BY <2>1, <2>2, FlagsAre DEF Pasts
<1> QED
  BY <1>1, <1>2, <1>3, <1>4, <1>5 DEF Types

\* What changes a card at the server changes it to a card, and tells of it.
LEMMA ChangeKeepsType ==
  ASSUME Types, NEW card \in DgAll, NEW what \in Values,
         Retitle(card, what) \/ Drop(card) \/ Attach(card, what) \/ Detach(card, what)
  PROVE  /\ dgServer' \in [DgAll -> [title : Values, live : Flags, files : SUBSET Values]]
         /\ dgNews' \in Seq(Newses)
<1>1. dgNews \in Seq(Newses)
  BY DEF Types
<1>2. dgServer \in [DgAll -> [title : Values, live : Flags, files : SUBSET Values]]
  BY DEF Types
<1>3. ASSUME NEW kind \in {"title", "gone", "attached", "detached"}, NEW w \in Values
      PROVE  News(card, kind, w) \in Seq(Newses)
  <2>1. [card |-> card, kind |-> kind, what |-> w] \in Newses
    BY <1>3 DEF Newses
  <2> QED BY <1>1, <2>1 DEF News
<1>4. "" \in Values
  BY DEF Values
<1>5. CASE Retitle(card, what)
  BY <1>5, <1>2, <1>3 DEF Retitle
<1>6. CASE Drop(card)
  BY <1>6, <1>2, <1>3, <1>4, FlagsAre DEF Drop
<1>7. CASE Attach(card, what)
  BY <1>7, <1>2, <1>3 DEF Attach
<1>8. CASE Detach(card, what)
  BY <1>8, <1>2, <1>3 DEF Detach
<1> QED
  BY <1>5, <1>6, <1>7, <1>8

\* So does counting a step.
LEMMA StepType ==
  ASSUME NEW past \in Pasts PROVE [past EXCEPT !.steps = @ + 1] \in Pasts
BY DEF Pasts

\* A request is put behind the others.
LEMMA AppendRequest ==
  ASSUME Types, NEW kind \in {"title", "attach", "detach", "delete", "template"}, NEW card \in DgAll, NEW what \in Values
  PROVE  Append(dgRequests, CardRequest(kind, card, what)) \in Seq(Requests)
<1>1. CardRequest(kind, card, what) \in Requests
  BY FlagsAre DEF CardRequest, Requests
<1>2. dgRequests \in Seq(Requests)
  BY DEF Types
<1> QED BY <1>1, <1>2

\* Every action keeps the types.
LEMMA TypesStep == Types /\ [DgNext]_dgVars => Types'
<1> SUFFICES ASSUME Types, [DgNext]_dgVars PROVE Types'
  OBVIOUS
<1>a. dgPast \in Pasts
  BY DEF Types
<1>b. dgRequests \in Seq(Requests)
  BY DEF Types
<1>c. dgUploads \in Seq(Uploads)
  BY DEF Types
<1>d. dgNews \in Seq(Newses)
  BY DEF Types
<1>1. CASE OpenCardDialog
  <2>1. PICK k \in DgAll : dgStore[k].live /\ Show(k)
    BY <1>1 DEF OpenCardDialog
  <2>2. dgStore[k] \in [title : Values, live : Flags]
    BY DEF Types
  <2>3. dgDialog' = [card |-> k, mounted |-> TRUE, title |-> dgStore[k].title, serverTitle |-> dgStore[k].title]
    BY <2>1, FirstCard DEF Show, Mounted
  <2>4. dgRequests' \in Seq(Requests)
    BY <2>1, SavesType, <1>b DEF Show
  <2>5. dgPast' \in Pasts
    BY <1>1, <1>a, StepType DEF OpenCardDialog, DgStep
  <2>6. UNCHANGED <<dgServer, dgStore, dgLists, dgUploads, dgNews>>
    BY <1>1 DEF OpenCardDialog
  <2>7. dgDialog' \in [card : DgAll \cup {""}, mounted : Flags, title : Values, serverTitle : Values]
        /\ dgDialog'.card \in DgAll
    BY <2>2, <2>3, FlagsAre
  <2> QED BY <2>4, <2>5, <2>6, <2>7 DEF Types
<1>2. CASE CloseCard
  <2>1. dgDialog' = NoDialog
    BY <1>2 DEF CloseCard, Show, Mounted, NoDialog
  <2>2. dgRequests' \in Seq(Requests)
    <3>1. dgRequests' = dgRequests \o UnmountSaves(dgDialog)
      BY <1>2 DEF CloseCard, Show
    <3> QED BY <3>1, SavesType, <1>b
  <2>3. dgPast' \in Pasts
    BY <1>2, NoteSavesType DEF CloseCard, Types
  <2>4. UNCHANGED <<dgServer, dgStore, dgLists, dgUploads, dgNews>>
    BY <1>2 DEF CloseCard
  <2> QED BY <2>1, <2>2, <2>3, <2>4, FirstCard, FlagsAre DEF Types, NoDialog
<1>3. CASE TypeTitle
  <2>1. PICK t \in DgTitles \ {dgDialog.title} :
          /\ dgDialog' = FollowTitle([dgDialog EXCEPT !.title = t], dgStore[dgDialog.card].title)
          /\ DgStep([dgPast EXCEPT !.typed[dgDialog.card] = t])
    BY <1>3 DEF TypeTitle
  <2>2. dgDialog.card \in DgAll /\ t \in Values /\ dgStore[dgDialog.card].title \in Values
    BY <1>3 DEF TypeTitle, Types, Values
  <2>3. /\ dgDialog' \in [card : DgAll \cup {""}, mounted : Flags, title : Values, serverTitle : Values]
        /\ dgDialog'.card \in DgAll
    BY <2>1, <2>2 DEF FollowTitle, Types
  <2>4. dgPast' \in Pasts
    <3> DEFINE past == [dgPast EXCEPT !.typed[dgDialog.card] = t]
    <3>1. past \in Pasts
      BY <1>a, <2>2 DEF Pasts, Texts
    <3> QED BY <3>1, <2>1, StepType DEF DgStep
  <2>5. UNCHANGED <<dgServer, dgStore, dgLists, dgUploads, dgRequests, dgNews>>
    BY <1>3 DEF TypeTitle
  <2> QED BY <2>3, <2>4, <2>5 DEF Types
<1>4. CASE SaveTitle
  <2>1. NoteSaves(dgPast, TitleSaves(dgDialog)) \in Pasts
    BY NoteSavesType DEF Types
  <2>2. dgPast' \in Pasts
    BY <1>4, <2>1, StepType DEF SaveTitle, DgStep
  <2>3. dgRequests' \in Seq(Requests)
    BY <1>4, <1>b, SavesType DEF SaveTitle
  <2>4. UNCHANGED <<dgServer, dgStore, dgLists, dgDialog, dgUploads, dgNews>>
    BY <1>4 DEF SaveTitle
  <2> QED BY <2>2, <2>3, <2>4 DEF Types
<1>5. CASE ChooseFile
  <2> DEFINE n == dgPast.files + 1
             u == [card |-> dgDialog.card, file |-> n, failed |-> FALSE]
  <2>1. dgDialog.card \in DgAll /\ dgPast \in Pasts /\ n \in Nat
    <3>1. dgDialog.card \in DgAll
      BY <1>5 DEF ChooseFile, Types
    <3>2. dgPast.files \in Nat
      BY <1>a DEF Pasts
    <3> QED BY <3>1, <3>2, <1>a
  <2>2. dgPast' \in Pasts
    <3> DEFINE past == [dgPast EXCEPT !.files = n, !.chosen = Append(@, dgDialog.card)]
    <3>1. Append(dgPast.chosen, dgDialog.card) \in Cards
      BY <2>1 DEF Pasts, Cards
    <3>2. past \in Pasts
      BY <2>1, <3>1 DEF Pasts
    <3> QED BY <1>5, <3>2, StepType DEF ChooseFile, DgStep
  <2>3. u \in Uploads /\ dgUploads' = Append(dgUploads, u)
    BY <1>5, <2>1, FlagsAre DEF ChooseFile, Uploads
  <2>4. dgUploads' \in Seq(Uploads)
    BY <2>3, <1>c
  <2>5. UNCHANGED <<dgServer, dgStore, dgDialog, dgRequests, dgNews>>
    BY <1>5 DEF ChooseFile
  <2> QED BY <2>2, <2>4, <2>5 DEF Types
<1>6. CASE EndUpload
  <2>1. PICK i \in DOMAIN dgUploads : EndUpload!1!(i)
    BY <1>6 DEF EndUpload
  <2>2. dgUploads \in Seq(Uploads) /\ dgUploads[i] \in Uploads
    BY <2>1, <1>c
  <2>3. dgUploads' \in Seq(Uploads)
    <3>1. CASE dgUploads' = RemoveAt(dgUploads, i)
      BY <3>1, <2>2, RemoveAtType
    <3>2. CASE dgUploads' = [dgUploads EXCEPT ![i].failed = TRUE]
      <4>1. [dgUploads[i] EXCEPT !.failed = TRUE] \in Uploads
        BY <2>2, FlagsAre DEF Uploads
      <4> QED BY <3>2, <4>1, <2>2
    <3> QED BY <2>1, <3>1, <3>2
  <2>4. dgRequests' \in Seq(Requests)
    <3>1. UploadTarget(dgUploads[i]) \in DgAll /\ dgUploads[i].file \in Values
      BY <2>2 DEF Uploads, UploadTarget, Values
    <3> QED BY <2>1, <3>1, <1>b, AppendRequest
  <2>5. UNCHANGED <<dgServer, dgStore, dgDialog, dgNews, dgPast>>
    BY <1>6 DEF EndUpload
  <2> QED BY <2>3, <2>4, <2>5 DEF Types
<1>7. CASE DeleteAttachment
  <2>1. PICK f \in 1..DgMaxFiles : dgRequests' = Append(dgRequests, CardRequest("detach", dgDialog.card, f))
    BY <1>7 DEF DeleteAttachment
  <2>2. f \in Values /\ dgDialog.card \in DgAll
    <3>1. dgDialog.card \in DgAll
      BY <1>7 DEF DeleteAttachment, Types
    <3>2. DgMaxFiles \in Nat
      BY DgAssumption
    <3>3. f \in Nat
      BY <2>1, <3>2
    <3> QED BY <3>1, <3>3 DEF Values
  <2>3. dgRequests' \in Seq(Requests)
    BY <2>1, <2>2, AppendRequest
  <2>4. dgPast' \in Pasts
    BY <1>7, <1>a, StepType DEF DeleteAttachment, DgStep
  <2>5. UNCHANGED <<dgServer, dgStore, dgLists, dgDialog, dgUploads, dgNews>>
    BY <1>7 DEF DeleteAttachment
  <2> QED BY <2>3, <2>4, <2>5 DEF Types
<1>8. CASE DeleteCard
  <2>1. dgRequests' \in Seq(Requests)
    BY <1>8, AppendRequest DEF DeleteCard, Types, Values
  <2>2. dgPast' \in Pasts
    BY <1>8, <1>a, StepType DEF DeleteCard, DgStep
  <2>3. UNCHANGED <<dgServer, dgStore, dgLists, dgDialog, dgUploads, dgNews>>
    BY <1>8 DEF DeleteCard
  <2> QED BY <2>1, <2>2, <2>3 DEF Types
<1>9. CASE MakeTemplate
  <2>1. dgRequests' \in Seq(Requests)
    BY <1>9, AppendRequest DEF MakeTemplate, Types, Values
  <2>2. dgPast' \in Pasts
    BY <1>9, <1>a, StepType DEF MakeTemplate, DgStep
  <2>3. UNCHANGED <<dgServer, dgStore, dgLists, dgDialog, dgUploads, dgNews>>
    BY <1>9 DEF MakeTemplate
  <2> QED BY <2>1, <2>2, <2>3 DEF Types
<1>10. CASE AnswerDialog
  <2>1. PICK i \in DOMAIN dgRequests : AnswerDialog!1!(i)
    BY <1>10 DEF AnswerDialog
  <2>2. RemoveAt(dgRequests, i) \in Seq(Requests)
    BY <2>1, <1>b, RemoveAtType
  <2>3. dgRequests' \in Seq(Requests)
    BY <2>1, <2>2, SavesType
  <2>4. dgPast' \in Pasts
    BY <2>1, <1>a, NoteSavesType
  <2>5. /\ dgStore' \in [DgAll -> [title : Values, live : Flags]]
        /\ dgDialog' \in [card : DgAll \cup {""}, mounted : Flags, title : Values, serverTitle : Values]
        /\ dgDialog'.mounted => dgDialog'.card \in DgAll
    <3>1. CASE dgRequests[i].kind = "template"
      <4>1. /\ dgStore' = [dgStore EXCEPT ![DgTemplate] = [live |-> TRUE, title |-> DgFirstTitle]]
            /\ dgDialog' = [card |-> DgTemplate, mounted |-> TRUE,
                  title |-> dgStore'[DgTemplate].title, serverTitle |-> dgStore'[DgTemplate].title]
        BY <2>1, <3>1
      <4>2. dgStore' \in [DgAll -> [title : Values, live : Flags]]
        BY <4>1, FirstCard, FlagsAre DEF Types
      <4>3. dgStore'[DgTemplate].title \in Values
        BY <4>2, FirstCard
      <4> QED BY <4>1, <4>2, <4>3, FirstCard, FlagsAre
    <3>2. CASE dgRequests[i].kind # "template"
      <4>1. dgDialog' = NoDialog /\ dgStore' = dgStore
        BY <2>1, <3>2
      <4>2. /\ NoDialog \in [card : DgAll \cup {""}, mounted : Flags, title : Values, serverTitle : Values]
            /\ ~NoDialog.mounted
        BY FirstCard, FlagsAre DEF NoDialog
      <4> QED BY <4>1, <4>2 DEF Types
    <3> QED BY <3>1, <3>2
  <2>6. UNCHANGED <<dgServer, dgLists, dgUploads, dgNews>>
    BY <1>10 DEF AnswerDialog
  <2> QED BY <2>3, <2>4, <2>5, <2>6, <1>c, <1>d DEF Types
<1>11. CASE ServeCardRequest
  <2>1. PICK i \in DOMAIN dgRequests : ServeCardRequest!1!(i)
    BY <1>11 DEF ServeCardRequest
  <2>2. dgRequests[i] \in Requests
    BY <2>1, <1>b
  <2>3. dgRequests[i].card \in DgAll /\ dgRequests[i].what \in Values
    BY <2>2 DEF Requests
  <2>4. dgRequests' \in Seq(Requests)
    <3>1. AnsweredAtOnce(i) \/ AwaitAnswer(i)
      BY <2>1
    <3>2. CASE AnsweredAtOnce(i)
      BY <3>2, <1>b, RemoveAtType DEF AnsweredAtOnce
    <3>3. CASE AwaitAnswer(i)
      <4>1. [dgRequests[i] EXCEPT !.served = TRUE] \in Requests
        BY <2>2, FlagsAre DEF Requests
      <4> QED BY <3>3, <4>1, <1>b DEF AwaitAnswer
    <3> QED BY <3>1, <3>2, <3>3
  <2>5. UNCHANGED <<dgStore, dgLists, dgDialog, dgUploads>>
    BY <1>11 DEF ServeCardRequest
  <2>6. dgPast' \in Pasts
    <3>1. \/ dgPast' = [dgPast EXCEPT !.seen[dgRequests[i].card] = @ \cup {dgRequests[i].what}]
          \/ dgPast' = [dgPast EXCEPT !.refused = @ \cup {dgRequests[i].card}]
          \/ dgPast' = dgPast
      BY <2>1 DEF NoteSeen
    <3> QED BY <3>1, <2>3, <1>a DEF Pasts, TextSets, Refusals
  <2>7. /\ dgServer' \in [DgAll -> [title : Values, live : Flags, files : SUBSET Values]]
        /\ dgNews' \in Seq(Newses)
    <3> DEFINE r == dgRequests[i]
    <3>1. CASE dgServer' = [dgServer EXCEPT ![DgTemplate] = [@ EXCEPT !.live = TRUE]]
               /\ dgNews' = News(DgTemplate, "title", DgFirstTitle)
      <4>1. [card |-> DgTemplate, kind |-> "title", what |-> DgFirstTitle] \in Newses
        BY FirstCard DEF Newses
      <4>2. dgNews' \in Seq(Newses)
        BY <3>1, <4>1, <1>d DEF News
      <4>3. dgServer \in [DgAll -> [title : Values, live : Flags, files : SUBSET Values]]
        BY DEF Types
      <4>4. dgServer' = [dgServer EXCEPT ![DgTemplate] = [@ EXCEPT !.live = TRUE]]
        BY <3>1
      <4> QED BY <4>2, <4>3, <4>4, FirstCard, FlagsAre
    <3>2. CASE UNCHANGED <<dgServer, dgNews>>
      BY <3>2 DEF Types
    <3>3. CASE Retitle(r.card, r.what) \/ Drop(r.card) \/ Attach(r.card, r.what) \/ Detach(r.card, r.what)
      BY <3>3, <2>3, ChangeKeepsType
    <3> QED BY <2>1, <3>1, <3>2, <3>3
  <2> QED BY <2>4, <2>5, <2>6, <2>7, <1>c DEF Types
<1>12. CASE OthersChange
  <2>1. PICK k \in DgCards : OthersChange!2!(k)
    BY <1>12 DEF OthersChange
  <2>2. k \in DgAll /\ DgTitles \subseteq Values /\ dgPast.files + 1 \in Values
    <3>1. dgPast.files + 1 \in Nat
      BY <1>a DEF Pasts
    <3> QED BY <3>1 DEF DgAll, Values
  <2>3. \E what \in Values : Retitle(k, what) \/ Drop(k) \/ Attach(k, what)
    BY <2>1, <2>2
  <2>4. /\ dgServer' \in [DgAll -> [title : Values, live : Flags, files : SUBSET Values]]
        /\ dgNews' \in Seq(Newses)
    BY <2>2, <2>3, ChangeKeepsType
  <2>5. dgPast' \in Pasts
    <3>1. \/ \E t \in DgTitles : dgPast' = [dgPast EXCEPT !.others = @ + 1, !.seen[k] = @ \cup {t}]
          \/ dgPast' = [dgPast EXCEPT !.others = @ + 1, !.files = @ + 1, !.chosen = Append(@, k)]
          \/ dgPast' = [dgPast EXCEPT !.others = @ + 1]
      BY <2>1
    <3>2. Append(dgPast.chosen, k) \in Cards
      BY <2>2, <1>a DEF Pasts, Cards
    <3>3. \A t \in DgTitles : [dgPast.seen EXCEPT ![k] = @ \cup {t}] \in TextSets
      BY <2>2, <1>a DEF Pasts, TextSets
    <3>4. ASSUME NEW t \in DgTitles, dgPast' = [dgPast EXCEPT !.others = @ + 1, !.seen[k] = @ \cup {t}]
          PROVE  dgPast' \in Pasts
      <4>1. dgPast' = [dgPast EXCEPT !.others = @ + 1, !.seen = [dgPast.seen EXCEPT ![k] = @ \cup {t}]]
        BY <3>4
      <4>2. dgPast.others + 1 \in Nat /\ [dgPast.seen EXCEPT ![k] = @ \cup {t}] \in TextSets
        BY <3>3, <1>a DEF Pasts
      <4> QED BY <4>1, <4>2, <1>a DEF Pasts
    <3>5. CASE dgPast' = [dgPast EXCEPT !.others = @ + 1, !.files = @ + 1, !.chosen = Append(@, k)]
      <4>1. dgPast.others + 1 \in Nat /\ dgPast.files + 1 \in Nat
        BY <1>a DEF Pasts
      <4> QED BY <4>1, <3>2, <3>5, <1>a DEF Pasts
    <3>6. CASE dgPast' = [dgPast EXCEPT !.others = @ + 1]
      BY <3>6, <1>a DEF Pasts
    <3> QED BY <3>1, <3>4, <3>5, <3>6
  <2>6. UNCHANGED <<dgStore, dgLists, dgDialog, dgUploads, dgRequests>>
    BY <1>12 DEF OthersChange
  <2> QED BY <2>4, <2>5, <2>6, <1>b, <1>c DEF Types
<1>13. CASE DeliverNews
  <2>1. PICK n \in DOMAIN dgNews : DeliverNews!1!(n)
    BY <1>13 DEF DeliverNews
  <2>2. dgStore' = [k \in DgAll |-> CardNews(k, SubSeq(dgNews, 1, n))]
    BY <2>1
  <2>3. dgStore' \in [DgAll -> [title : Values, live : Flags]]
    BY <2>2, CardNewsType
  <2>4. dgNews' \in Seq(Newses)
    BY <2>1, <1>d
  <2> DEFINE files == { m \in DOMAIN SubSeq(dgNews, 1, n) : ForAttachments(SubSeq(dgNews, 1, n)[m]) }
             past  == [dgPast EXCEPT !.cut = @ \/ Cardinality(files) > 1]
  <2>5. past \in Pasts
    <3> DEFINE cut == dgPast.cut \/ Cardinality(files) > 1
    <3>1. cut \in Flags
      BY Zenon DEF Flags
    <3> HIDE DEF files
    <3>2. past = [dgPast EXCEPT !.cut = cut]
      OBVIOUS
    <3> HIDE DEF cut
    <3> QED BY <3>1, <3>2, <1>a DEF Pasts
  <2>6. \/ UNCHANGED <<dgDialog, dgRequests>> /\ dgPast' = past
        \/ /\ dgDialog.mounted /\ dgDialog' = FollowTitle(dgDialog, dgStore'[dgDialog.card].title)
           /\ UNCHANGED dgRequests /\ dgPast' = past
        \/ /\ dgDialog' = [NoDialog EXCEPT !.card = dgDialog.card]
           /\ dgRequests' = dgRequests \o UnmountSaves(dgDialog)
           /\ dgPast' = NoteSaves(past, UnmountSaves(dgDialog))
    BY <2>1
  <2> HIDE DEF past
  <2>7. /\ dgDialog' \in [card : DgAll \cup {""}, mounted : Flags, title : Values, serverTitle : Values]
        /\ dgDialog'.mounted => dgDialog'.card \in DgAll
    <3>1. CASE UNCHANGED dgDialog
      BY <3>1 DEF Types
    <3>2. CASE dgDialog.mounted /\ dgDialog' = FollowTitle(dgDialog, dgStore'[dgDialog.card].title)
      <4>1. dgDialog.card \in DgAll /\ dgStore'[dgDialog.card].title \in Values
        BY <3>2, <2>3 DEF Types
      <4> QED BY <3>2, <4>1 DEF FollowTitle, Types
    <3>3. CASE dgDialog' = [NoDialog EXCEPT !.card = dgDialog.card]
      BY <3>3, FirstCard, FlagsAre DEF NoDialog, Types
    <3> QED BY <2>6, <3>1, <3>2, <3>3
  <2>8. dgRequests' \in Seq(Requests)
    <3>1. dgRequests \o UnmountSaves(dgDialog) \in Seq(Requests)
      BY <1>b, SavesType
    <3> QED BY <2>6, <3>1, <1>b
  <2>9. dgPast' \in Pasts
    BY <2>5, <2>6, NoteSavesType
  <2>10. UNCHANGED <<dgServer, dgUploads>>
    BY <1>13 DEF DeliverNews
  <2> QED BY <2>3, <2>4, <2>7, <2>8, <2>9, <2>10, <1>c DEF Types
<1>14. CASE UNCHANGED dgVars
  BY <1>14 DEF dgVars, Types
<1> QED
  BY <1>1, <1>2, <1>3, <1>4, <1>5, <1>6, <1>7, <1>8, <1>9, <1>10, <1>11, <1>12, <1>13, <1>14 DEF DgNext

----------------------------------------------------------------------------
(***************************************************************************)
(* Only what was typed is saved.  The field shows the title of the store,   *)
(* or what was typed last for the card.                                     *)
(***************************************************************************)

FieldInv ==
  /\ dgDialog.mounted =>
       /\ dgDialog.serverTitle = dgStore[dgDialog.card].title
       /\ dgDialog.title \in {dgDialog.serverTitle, dgPast.typed[dgDialog.card]}
  /\ ~dgPast.echoed

\* What a field saves is what was typed for its card.
LEMMA SavesAreTyped ==
  ASSUME Types, FieldInv, NEW past \in Pasts, past.typed = dgPast.typed, ~past.echoed
  PROVE  /\ ~NoteSaves(past, UnmountSaves(dgDialog)).echoed
         /\ NoteSaves(past, UnmountSaves(dgDialog)).typed = dgPast.typed
<1> DEFINE saves == UnmountSaves(dgDialog)
<1>1. ASSUME NEW r \in Sent(saves) PROVE r.what = past.typed[r.card]
  <2>1. CASE dgDialog.mounted /\ dgDialog.title # dgStore[dgDialog.card].title
    <3>1. saves = <<CardRequest("title", dgDialog.card, dgDialog.title)>>
      BY <2>1 DEF UnmountSaves, TitleSaves
    <3>2. r = CardRequest("title", dgDialog.card, dgDialog.title)
      BY <3>1, <1>1 DEF Sent, ToSet
    <3> QED BY <2>1, <3>2 DEF FieldInv, CardRequest
  <2>2. CASE ~(dgDialog.mounted /\ dgDialog.title # dgStore[dgDialog.card].title)
    <3>1. saves = <<>>
      BY <2>2 DEF UnmountSaves, TitleSaves
    <3> QED BY <3>1, <1>1 DEF Sent, ToSet
  <2> QED BY <2>1, <2>2
<1> HIDE DEF saves
<1>2. ~(\E r \in Sent(saves) : r.what # past.typed[r.card])
  BY <1>1
<1>3. NoteSaves(past, saves).echoed = (past.echoed \/ \E r \in Sent(saves) : r.what # past.typed[r.card])
  BY DEF NoteSaves, Pasts
<1>4. NoteSaves(past, saves).typed = past.typed
  BY DEF NoteSaves, Pasts
<1> QED
  BY <1>2, <1>3, <1>4 DEF saves

\* At first no card is shown, and nothing was saved.
LEMMA FieldInit == DgInit => FieldInv
<1> SUFFICES ASSUME DgInit PROVE FieldInv
  OBVIOUS
<1>1. dgDialog = NoDialog
  BY DEF DgInit
<1>2. dgPast = [steps |-> 0, others |-> 0, files |-> 0, chosen |-> <<>>, typed |-> [k \in DgAll |-> ""],
                seen |-> [k \in DgAll |-> {DgFirstTitle}], refused |-> {}, echoed |-> FALSE, cut |-> FALSE]
  BY DEF DgInit
<1>3. ~dgPast.echoed
  BY <1>2
<1> QED BY <1>1, <1>3 DEF FieldInv, NoDialog

\* Every action keeps the field: the actions that change what it depends on show
\* another card, or are its own.
LEMMA FieldStep == Types /\ Types' /\ FieldInv /\ [DgNext]_dgVars => FieldInv'
<1> SUFFICES ASSUME Types, Types', FieldInv, [DgNext]_dgVars PROVE FieldInv'
  OBVIOUS
<1>a. dgPast \in Pasts /\ ~dgPast.echoed
  BY DEF Types, FieldInv
<1>b. ASSUME UNCHANGED <<dgDialog, dgStore>>, dgPast'.typed = dgPast.typed, ~dgPast'.echoed
      PROVE  FieldInv'
  BY <1>b DEF FieldInv
<1>c. ASSUME dgPast' = [dgPast EXCEPT !.steps = @ + 1] PROVE dgPast'.typed = dgPast.typed /\ ~dgPast'.echoed
  BY <1>a, <1>c DEF Pasts
<1>d. TitleSaves(dgDialog) = UnmountSaves(dgDialog)
  BY DEF UnmountSaves
<1>1. CASE OpenCardDialog
  <2>1. PICK k \in DgAll : dgStore[k].live /\ Show(k)
    BY <1>1 DEF OpenCardDialog
  <2>2. dgDialog' = [card |-> k, mounted |-> TRUE, title |-> dgStore[k].title, serverTitle |-> dgStore[k].title]
    BY <2>1, FirstCard DEF Show, Mounted
  <2>3. dgStore' = dgStore /\ ~dgPast'.echoed
    BY <1>1, <1>c DEF OpenCardDialog, DgStep
  <2> QED BY <2>2, <2>3 DEF FieldInv
<1>2. CASE CloseCard
  <2>1. ~dgDialog'.mounted
    BY <1>2 DEF CloseCard, Show, Mounted, NoDialog
  <2>2. ~dgPast'.echoed
    BY <1>2, <1>a, SavesAreTyped DEF CloseCard
  <2> QED BY <2>1, <2>2 DEF FieldInv
<1>3. CASE TypeTitle
  <2>1. PICK t \in DgTitles \ {dgDialog.title} :
          /\ dgDialog' = FollowTitle([dgDialog EXCEPT !.title = t], dgStore[dgDialog.card].title)
          /\ DgStep([dgPast EXCEPT !.typed[dgDialog.card] = t])
    BY <1>3 DEF TypeTitle
  <2>2. dgDialog.card \in DgAll /\ dgStore' = dgStore
    BY <1>3 DEF TypeTitle, Types
  <2>3. ~dgPast'.echoed /\ dgPast'.typed[dgDialog.card] = t
    BY <2>1, <2>2, <1>a DEF DgStep, Pasts, Texts
  <2>4. /\ dgDialog'.card = dgDialog.card /\ dgDialog'.serverTitle = dgStore[dgDialog.card].title
        /\ dgDialog'.title \in {t, dgStore[dgDialog.card].title}
    BY <2>1 DEF FollowTitle, Types
  <2> QED BY <2>2, <2>3, <2>4 DEF FieldInv
<1>4. CASE SaveTitle
  <2> DEFINE past == NoteSaves(dgPast, UnmountSaves(dgDialog))
  <2>1. past \in Pasts /\ ~past.echoed /\ past.typed = dgPast.typed
    BY <1>a, SavesAreTyped, NoteSavesType
  <2>2. dgPast' = [past EXCEPT !.steps = @ + 1] /\ UNCHANGED <<dgDialog, dgStore>>
    BY <1>4, <1>d DEF SaveTitle, DgStep
  <2> HIDE DEF past
  <2>3. dgPast'.typed = dgPast.typed /\ ~dgPast'.echoed
    BY <2>1, <2>2 DEF Pasts
  <2> QED BY <2>2, <2>3, <1>b
<1>5. CASE ChooseFile
  <2>1. dgPast'.typed = dgPast.typed /\ ~dgPast'.echoed
    BY <1>5, <1>a DEF ChooseFile, DgStep, Pasts
  <2> QED BY <1>5, <2>1, <1>b DEF ChooseFile
<1>6. CASE EndUpload
  BY <1>6, <1>a, <1>b DEF EndUpload
<1>7. CASE DeleteAttachment \/ DeleteCard \/ MakeTemplate
  BY <1>7, <1>b, <1>c DEF DeleteAttachment, DeleteCard, MakeTemplate, DgStep
<1>8. CASE AnswerDialog
  <2>1. PICK i \in DOMAIN dgRequests : AnswerDialog!1!(i)
    BY <1>8 DEF AnswerDialog
  <2>2. ~dgPast'.echoed
    BY <2>1, <1>a, SavesAreTyped
  <2>3. CASE dgRequests[i].kind = "template"
    <3>1. dgDialog' = [card |-> DgTemplate, mounted |-> TRUE,
             title |-> dgStore'[DgTemplate].title, serverTitle |-> dgStore'[DgTemplate].title]
      BY <2>1, <2>3
    <3> QED BY <2>2, <3>1 DEF FieldInv
  <2>4. CASE dgRequests[i].kind # "template"
    <3>1. dgDialog' = NoDialog
      BY <2>1, <2>4
    <3>2. ~dgDialog'.mounted
      BY <3>1 DEF NoDialog
    <3> QED BY <2>2, <3>2 DEF FieldInv
  <2> QED BY <2>3, <2>4
<1>9. CASE ServeCardRequest
  <2>1. PICK i \in DOMAIN dgRequests : ServeCardRequest!1!(i)
    BY <1>9 DEF ServeCardRequest
  <2>2. \/ dgPast' = [dgPast EXCEPT !.seen[dgRequests[i].card] = @ \cup {dgRequests[i].what}]
        \/ dgPast' = [dgPast EXCEPT !.refused = @ \cup {dgRequests[i].card}]
        \/ dgPast' = dgPast
    BY <2>1 DEF NoteSeen
  <2>3. dgPast'.typed = dgPast.typed /\ ~dgPast'.echoed
    BY <2>2, <1>a DEF Pasts
  <2> QED BY <1>9, <2>3, <1>b DEF ServeCardRequest
<1>10. CASE OthersChange
  <2>1. PICK k \in DgCards : OthersChange!2!(k)
    BY <1>10 DEF OthersChange
  <2>2. dgPast'.typed = dgPast.typed /\ ~dgPast'.echoed
    BY <2>1, <1>a DEF Pasts
  <2> QED BY <1>10, <2>2, <1>b DEF OthersChange
<1>11. CASE DeliverNews
  <2>1. PICK n \in DOMAIN dgNews : DeliverNews!1!(n)
    BY <1>11 DEF DeliverNews
  <2> DEFINE files == { m \in DOMAIN SubSeq(dgNews, 1, n) : ForAttachments(SubSeq(dgNews, 1, n)[m]) }
             past  == [dgPast EXCEPT !.cut = @ \/ Cardinality(files) > 1]
  <2>2. past \in Pasts /\ past.typed = dgPast.typed /\ ~past.echoed
    <3> DEFINE cut == dgPast.cut \/ Cardinality(files) > 1
    <3>1. cut \in Flags
      BY Zenon DEF Flags
    <3> HIDE DEF files
    <3>2. past = [dgPast EXCEPT !.cut = cut]
      OBVIOUS
    <3> HIDE DEF cut
    <3> QED BY <3>1, <3>2, <1>a DEF Pasts
  <2>3. \/ ~dgDialog.mounted /\ UNCHANGED dgDialog /\ dgPast' = past
        \/ /\ dgDialog.mounted /\ dgDialog' = FollowTitle(dgDialog, dgStore'[dgDialog.card].title)
           /\ dgPast' = past
        \/ /\ dgDialog' = [NoDialog EXCEPT !.card = dgDialog.card]
           /\ dgPast' = NoteSaves(past, UnmountSaves(dgDialog))
    BY <2>1
  <2> HIDE DEF past
  <2>4. CASE ~dgDialog.mounted /\ UNCHANGED dgDialog /\ dgPast' = past
    BY <2>2, <2>4 DEF FieldInv
  <2>5. CASE /\ dgDialog.mounted /\ dgDialog' = FollowTitle(dgDialog, dgStore'[dgDialog.card].title)
             /\ dgPast' = past
    <3>1. /\ dgDialog'.card = dgDialog.card /\ dgDialog'.serverTitle = dgStore'[dgDialog.card].title
          /\ dgDialog'.title \in {dgDialog'.serverTitle, dgDialog.title}
          /\ dgDialog.title = dgDialog.serverTitle => dgDialog'.title = dgDialog'.serverTitle
      BY <2>5 DEF FollowTitle, Types
    <3>2. dgPast'.typed = dgPast.typed
      BY <2>2, <2>5
    <3>3. dgDialog.title \in {dgDialog.serverTitle, dgPast.typed[dgDialog.card]}
      BY <2>5 DEF FieldInv
    <3>4. dgDialog'.title \in {dgDialog'.serverTitle, dgPast'.typed[dgDialog'.card]}
      BY <3>1, <3>2, <3>3
    <3> QED BY <2>2, <2>5, <3>1, <3>4 DEF FieldInv
  <2>6. CASE /\ dgDialog' = [NoDialog EXCEPT !.card = dgDialog.card]
             /\ dgPast' = NoteSaves(past, UnmountSaves(dgDialog))
    <3>1. ~dgDialog'.mounted
      BY <2>6 DEF NoDialog
    <3>2. ~dgPast'.echoed
      BY <2>2, <2>6, SavesAreTyped
    <3> QED BY <3>1, <3>2 DEF FieldInv
  <2> QED BY <2>3, <2>4, <2>5, <2>6
<1>12. CASE UNCHANGED dgVars
  BY <1>12, <1>a, <1>b DEF dgVars
<1> QED
  BY <1>1, <1>2, <1>3, <1>4, <1>5, <1>6, <1>7, <1>8, <1>9, <1>10, <1>11, <1>12 DEF DgNext

\* A title is saved only if the user typed it for that card.
THEOREM OnlyTyped == DgSpec => []OnlyTypedIsSaved
<1>1. DgInit => Types /\ FieldInv
  BY TypesInit, FieldInit
<1>2. (Types /\ FieldInv) /\ [DgNext]_dgVars => (Types /\ FieldInv)'
  BY TypesStep, FieldStep
<1>3. Types /\ FieldInv => OnlyTypedIsSaved
  BY DEF FieldInv, OnlyTypedIsSaved
<1> QED
  BY <1>1, <1>2, <1>3, PTL DEF DgSpec

----------------------------------------------------------------------------
(***************************************************************************)
(* A file is attached to the card for which it was chosen: wherever a file  *)
(* is, it is together with that card.                                       *)
(***************************************************************************)

ChosenFor(chosen, file, card) == file \in DOMAIN chosen /\ chosen[file] = card
Attaches(r, chosen) == r.kind = "attach" => ChosenFor(chosen, r.what, r.card)
AllAttach(requests, chosen) == \A i \in DOMAIN requests : Attaches(requests[i], chosen)

FilesInv ==
  /\ dgPast.files = Len(dgPast.chosen)
  /\ \A i \in DOMAIN dgUploads : ChosenFor(dgPast.chosen, dgUploads[i].file, dgUploads[i].card)
  /\ AllAttach(dgRequests, dgPast.chosen)
  /\ \A k \in DgAll : \A f \in dgServer[k].files : ChosenFor(dgPast.chosen, f, k)

\* Requests that attach no file may be put behind the others.
LEMMA AttachMore ==
  ASSUME NEW requests \in Seq(Requests), NEW more \in Seq(Requests), NEW chosen,
         AllAttach(requests, chosen), AllAttach(more, chosen)
  PROVE  AllAttach(requests \o more, chosen)
<1>1. ASSUME NEW i \in DOMAIN (requests \o more) PROVE Attaches((requests \o more)[i], chosen)
  <2>1. CASE i <= Len(requests)
    <3>1. (requests \o more)[i] = requests[i] /\ i \in DOMAIN requests
      BY <1>1, <2>1
    <3> QED BY <3>1 DEF AllAttach
  <2>2. CASE i > Len(requests)
    <3>1. (requests \o more)[i] = more[i - Len(requests)] /\ i - Len(requests) \in DOMAIN more
      BY <1>1, <2>2
    <3> QED BY <3>1 DEF AllAttach
  <2> QED BY <1>1, <2>1, <2>2
<1> QED BY <1>1 DEF AllAttach

\* So may one request.
LEMMA AttachOne ==
  ASSUME NEW requests \in Seq(Requests), NEW r \in Requests, NEW chosen,
         AllAttach(requests, chosen), Attaches(r, chosen)
  PROVE  AllAttach(Append(requests, r), chosen)
BY DEF AllAttach

\* One may be removed.
LEMMA AttachLess ==
  ASSUME NEW requests \in Seq(Requests), NEW i \in DOMAIN requests, NEW chosen, AllAttach(requests, chosen)
  PROVE  AllAttach(RemoveAt(requests, i), chosen)
BY RemoveAtElements DEF AllAttach

\* What a dialog saves attaches no file.
LEMMA SavesAttach ==
  ASSUME NEW chosen
  PROVE  AllAttach(UnmountSaves(dgDialog), chosen)
<1>1. CASE dgDialog.mounted /\ dgDialog.title # dgStore[dgDialog.card].title
  <2>1. UnmountSaves(dgDialog) = <<CardRequest("title", dgDialog.card, dgDialog.title)>>
    BY <1>1 DEF UnmountSaves, TitleSaves
  <2>2. Attaches(CardRequest("title", dgDialog.card, dgDialog.title), chosen)
    BY DEF Attaches, CardRequest
  <2> QED BY <2>1, <2>2 DEF AllAttach
<1>2. CASE ~(dgDialog.mounted /\ dgDialog.title # dgStore[dgDialog.card].title)
  BY <1>2 DEF UnmountSaves, TitleSaves, AllAttach
<1> QED BY <1>1, <1>2

\* Noting what is saved leaves the rest of the history.
LEMMA NotedSaves ==
  ASSUME NEW past \in Pasts, NEW requests
  PROVE  LET p == NoteSaves(past, requests) IN
           /\ p.chosen = past.chosen /\ p.files = past.files /\ p.typed = past.typed
           /\ p.seen = past.seen /\ p.refused = past.refused
BY DEF NoteSaves, Pasts

\* At first there are no files.
LEMMA FilesInit == DgInit => FilesInv
<1> SUFFICES ASSUME DgInit PROVE FilesInv
  OBVIOUS
<1>1. dgPast = [steps |-> 0, others |-> 0, files |-> 0, chosen |-> <<>>, typed |-> [k \in DgAll |-> ""],
                seen |-> [k \in DgAll |-> {DgFirstTitle}], refused |-> {}, echoed |-> FALSE, cut |-> FALSE]
  BY DEF DgInit
<1>2. dgPast.files = 0 /\ dgPast.chosen = <<>>
  BY <1>1
<1>3. dgUploads = <<>> /\ dgRequests = <<>> /\ \A k \in DgAll : dgServer[k].files = {}
  BY DEF DgInit
<1> QED BY <1>2, <1>3 DEF FilesInv, AllAttach

\* Another file leaves the ones before with their cards.
LEMMA ChooseMore ==
  ASSUME NEW chosen \in Cards, NEW card \in DgAll
  PROVE  /\ \A f, k : ChosenFor(chosen, f, k) => ChosenFor(Append(chosen, card), f, k)
         /\ ChosenFor(Append(chosen, card), Len(chosen) + 1, card)
         /\ Len(Append(chosen, card)) = Len(chosen) + 1
BY DEF ChosenFor, Cards

\* Every action keeps the files with their cards.
LEMMA FilesStep == Types /\ Types' /\ FilesInv /\ [DgNext]_dgVars => FilesInv'
<1> SUFFICES ASSUME Types, Types', FilesInv, [DgNext]_dgVars PROVE FilesInv'
  OBVIOUS
<1> DEFINE chosen == dgPast.chosen
           ServerFits == \A k \in DgAll : \A f \in dgServer[k].files : ChosenFor(dgPast.chosen, f, k)
           UploadsFit == \A i \in DOMAIN dgUploads : ChosenFor(dgPast.chosen, dgUploads[i].file, dgUploads[i].card)
<1>a. dgPast \in Pasts /\ dgRequests \in Seq(Requests) /\ dgUploads \in Seq(Uploads) /\ chosen \in Cards
  BY DEF Types, Pasts
<1>b. ServerFits /\ UploadsFit /\ AllAttach(dgRequests, chosen) /\ dgPast.files = Len(chosen)
  BY DEF FilesInv
<1>c. ASSUME dgPast'.chosen = chosen, dgPast'.files = dgPast.files, UNCHANGED <<dgServer, dgUploads>>,
             AllAttach(dgRequests', chosen)
      PROVE  FilesInv'
  BY <1>c, <1>b DEF FilesInv
<1>d. ASSUME dgPast' = [dgPast EXCEPT !.steps = @ + 1] PROVE dgPast'.chosen = chosen /\ dgPast'.files = dgPast.files
  BY <1>a, <1>d DEF Pasts
<1>e. AllAttach(dgRequests \o UnmountSaves(dgDialog), chosen)
  BY <1>a, <1>b, SavesType, SavesAttach, AttachMore
<1>f. /\ NoteSaves(dgPast, UnmountSaves(dgDialog)).chosen = chosen
      /\ NoteSaves(dgPast, UnmountSaves(dgDialog)).files = dgPast.files
  BY <1>a, NotedSaves
<1>g. ASSUME NEW kind \in {"title", "detach", "delete", "template"}, NEW card \in DgAll, NEW what \in Values
      PROVE  AllAttach(Append(dgRequests, CardRequest(kind, card, what)), chosen)
  <2>1. CardRequest(kind, card, what) \in Requests /\ Attaches(CardRequest(kind, card, what), chosen)
    BY FlagsAre DEF CardRequest, Requests, Attaches
  <2> QED BY <2>1, <1>a, <1>b, AttachOne
<1> HIDE DEF chosen
<1>1. CASE OpenCardDialog
  <2>1. dgRequests' = dgRequests \o UnmountSaves(dgDialog)
    BY <1>1 DEF OpenCardDialog, Show
  <2> QED BY <1>1, <2>1, <1>c, <1>d, <1>e DEF OpenCardDialog, DgStep
<1>2. CASE CloseCard
  <2>1. dgRequests' = dgRequests \o UnmountSaves(dgDialog)
    BY <1>2 DEF CloseCard, Show
  <2> QED BY <1>2, <2>1, <1>c, <1>e, <1>f DEF CloseCard
<1>3. CASE TypeTitle
  <2>1. dgPast'.chosen = chosen /\ dgPast'.files = dgPast.files
    BY <1>3, <1>a DEF TypeTitle, DgStep, Pasts, chosen
  <2> QED BY <1>3, <2>1, <1>b, <1>c DEF TypeTitle
<1>4. CASE SaveTitle
  <2> DEFINE past == NoteSaves(dgPast, UnmountSaves(dgDialog))
  <2>1. past \in Pasts /\ past.chosen = chosen /\ past.files = dgPast.files
    BY <1>a, <1>f, NoteSavesType
  <2>2. dgPast' = [past EXCEPT !.steps = @ + 1] /\ dgRequests' = dgRequests \o UnmountSaves(dgDialog)
        /\ UNCHANGED <<dgServer, dgUploads>>
    BY <1>4 DEF SaveTitle, DgStep, UnmountSaves
  <2> HIDE DEF past
  <2>3. dgPast'.chosen = chosen /\ dgPast'.files = dgPast.files
    BY <2>1, <2>2 DEF Pasts
  <2> QED BY <2>2, <2>3, <1>c, <1>e
<1>5. CASE ChooseFile
  <2> DEFINE n == dgPast.files + 1
             card == dgDialog.card
  <2>1. card \in DgAll
    BY <1>5 DEF ChooseFile, Types
  <2>2. dgPast'.chosen = Append(chosen, card) /\ dgPast'.files = n
    BY <1>5, <1>a DEF ChooseFile, DgStep, Pasts, chosen
  <2>3. \A f, k : ChosenFor(chosen, f, k) => ChosenFor(dgPast'.chosen, f, k)
    BY <2>1, <2>2, <1>a, ChooseMore
  <2>4. ChosenFor(dgPast'.chosen, n, card) /\ Len(dgPast'.chosen) = dgPast'.files
    BY <2>1, <2>2, <1>a, <1>b, ChooseMore
  <2>5. dgUploads' = Append(dgUploads, [card |-> card, file |-> n, failed |-> FALSE])
    BY <1>5 DEF ChooseFile
  <2>6. UploadsFit'
    <3>1. ASSUME NEW i \in DOMAIN dgUploads' PROVE ChosenFor(dgPast'.chosen, dgUploads'[i].file, dgUploads'[i].card)
      <4>1. CASE i = Len(dgUploads) + 1
        <5>1. dgUploads'[i].file = n /\ dgUploads'[i].card = card
          BY <4>1, <2>5, <1>a
        <5> QED BY <5>1, <2>4
      <4>2. CASE i # Len(dgUploads) + 1
        <5>1. i \in DOMAIN dgUploads /\ dgUploads'[i] = dgUploads[i]
          BY <3>1, <4>2, <2>5, <1>a
        <5> QED BY <5>1, <2>3, <1>b DEF chosen
      <4> QED BY <4>1, <4>2
    <3> QED BY <3>1
  <2>7. AllAttach(dgRequests', dgPast'.chosen)
    BY <1>5, <2>3, <1>b DEF AllAttach, Attaches, ChooseFile
  <2>8. ServerFits'
    BY <1>5, <2>3, <1>b DEF ChooseFile, chosen
  <2> QED BY <2>4, <2>6, <2>7, <2>8 DEF FilesInv
<1>6. CASE EndUpload
  <2>1. PICK i \in DOMAIN dgUploads : EndUpload!1!(i)
    BY <1>6 DEF EndUpload
  <2>2. UNCHANGED <<dgServer, dgPast>>
    BY <1>6 DEF EndUpload
  <2> DEFINE u == dgUploads[i]
  <2>3. u \in Uploads /\ ChosenFor(chosen, u.file, u.card)
    BY <2>1, <1>a, <1>b DEF chosen
  <2>4. CASE /\ dgUploads' = RemoveAt(dgUploads, i)
             /\ dgRequests' = Append(dgRequests, CardRequest("attach", UploadTarget(u), u.file))
    <3>1. CardRequest("attach", UploadTarget(u), u.file) \in Requests
      BY <2>3, FlagsAre DEF CardRequest, Requests, Uploads, Values, UploadTarget
    <3>2. Attaches(CardRequest("attach", UploadTarget(u), u.file), chosen)
      BY <2>3 DEF Attaches, CardRequest, UploadTarget
    <3>3. AllAttach(dgRequests', chosen)
      BY <2>4, <3>1, <3>2, <1>a, <1>b, AttachOne
    <3>4. UploadsFit'
      BY <2>4, <2>2, <1>a, <1>b, RemoveAtElements
    <3> QED BY <3>3, <3>4, <2>2, <1>b DEF FilesInv, chosen
  <2>5. CASE dgUploads' = [dgUploads EXCEPT ![i].failed = TRUE] /\ UNCHANGED dgRequests
    <3>1. \A j \in DOMAIN dgUploads' : /\ j \in DOMAIN dgUploads /\ dgUploads'[j].file = dgUploads[j].file
                                       /\ dgUploads'[j].card = dgUploads[j].card
      BY <2>5, <2>3, <1>a DEF Uploads
    <3>2. UploadsFit'
      BY <3>1, <2>2, <1>b
    <3> QED BY <2>5, <3>2, <2>2, <1>b DEF FilesInv, chosen
  <2> QED BY <2>1, <2>4, <2>5
<1>7. CASE DeleteAttachment
  <2>1. PICK f \in 1..DgMaxFiles : dgRequests' = Append(dgRequests, CardRequest("detach", dgDialog.card, f))
    BY <1>7 DEF DeleteAttachment
  <2>2. f \in Values /\ dgDialog.card \in DgAll
    <3>1. DgMaxFiles \in Nat
      BY DgAssumption
    <3>2. f \in Nat
      BY <2>1, <3>1
    <3> QED BY <3>2, <1>7 DEF DeleteAttachment, Types, Values
  <2> QED BY <1>7, <2>1, <2>2, <1>c, <1>d, <1>g DEF DeleteAttachment, DgStep
<1>8. CASE DeleteCard \/ MakeTemplate
  <2>1. dgDialog.card \in DgAll /\ "" \in Values
    BY <1>8 DEF DeleteCard, MakeTemplate, Types, Values
  <2>2. AllAttach(dgRequests', chosen)
    BY <1>8, <2>1, <1>g DEF DeleteCard, MakeTemplate
  <2> QED BY <1>8, <2>2, <1>c, <1>d DEF DeleteCard, MakeTemplate, DgStep
<1>9. CASE AnswerDialog
  <2>1. PICK i \in DOMAIN dgRequests : AnswerDialog!1!(i)
    BY <1>9 DEF AnswerDialog
  <2>2. RemoveAt(dgRequests, i) \in Seq(Requests) /\ AllAttach(RemoveAt(dgRequests, i), chosen)
    BY <2>1, <1>a, <1>b, RemoveAtType, AttachLess
  <2>3. dgRequests' = RemoveAt(dgRequests, i) \o UnmountSaves(dgDialog)
    BY <2>1
  <2>4. AllAttach(dgRequests', chosen)
    BY <2>2, <2>3, SavesType, SavesAttach, AttachMore
  <2>5. dgPast' = NoteSaves(dgPast, UnmountSaves(dgDialog))
    BY <2>1
  <2> QED BY <1>9, <2>4, <2>5, <1>c, <1>f DEF AnswerDialog
<1>10. CASE ServeCardRequest
  <2>1. PICK i \in DOMAIN dgRequests : ServeCardRequest!1!(i)
    BY <1>10 DEF ServeCardRequest
  <2> DEFINE r == dgRequests[i]
  <2>2. r \in Requests /\ r.card \in DgAll /\ Attaches(r, chosen)
    <3>1. r \in Requests
      BY <2>1, <1>a
    <3>2. Attaches(r, chosen)
      BY <2>1, <1>b DEF AllAttach
    <3> QED BY <3>1, <3>2 DEF Requests
  <2>3. AllAttach(dgRequests', chosen)
    <3>1. CASE AnsweredAtOnce(i)
      BY <3>1, <1>a, <1>b, AttachLess DEF AnsweredAtOnce
    <3>2. CASE AwaitAnswer(i)
      <4>1. \A j \in DOMAIN dgRequests' : /\ j \in DOMAIN dgRequests /\ dgRequests'[j].kind = dgRequests[j].kind
              /\ dgRequests'[j].card = dgRequests[j].card /\ dgRequests'[j].what = dgRequests[j].what
        BY <3>2, <2>2, <1>a DEF AwaitAnswer, Requests
      <4> QED BY <4>1, <1>b DEF AllAttach, Attaches
    <3> QED BY <2>1, <3>1, <3>2
  <2>4. \/ dgPast' = [dgPast EXCEPT !.seen[r.card] = @ \cup {r.what}]
        \/ dgPast' = [dgPast EXCEPT !.refused = @ \cup {r.card}]
        \/ dgPast' = dgPast
    BY <2>1 DEF NoteSeen
  <2>5. dgPast'.chosen = chosen /\ dgPast'.files = dgPast.files
    BY <2>4, <1>a DEF Pasts, chosen
  <2>6. \A k \in DgAll : \A f \in dgServer'[k].files :
          f \in dgServer[k].files \/ (r.kind = "attach" /\ k = r.card /\ f = r.what)
    <3>1. dgServer \in [DgAll -> [title : Values, live : Flags, files : SUBSET Values]]
      BY DEF Types
    <3>2. CASE r.kind = "attach" /\ Attach(r.card, r.what)
      BY <3>2, <3>1, <2>2 DEF Attach
    <3>3. CASE Retitle(r.card, r.what)
      BY <3>3, <3>1, <2>2 DEF Retitle
    <3>4. CASE Drop(r.card)
      BY <3>4, <3>1, <2>2 DEF Drop
    <3>5. CASE Detach(r.card, r.what)
      BY <3>5, <3>1, <2>2 DEF Detach
    <3>6. CASE UNCHANGED dgServer
      BY <3>6
    <3>7. CASE dgServer' = [dgServer EXCEPT ![DgTemplate] = [@ EXCEPT !.live = TRUE]]
      BY <3>7, <3>1, FirstCard
    <3> QED BY <2>1, <3>2, <3>3, <3>4, <3>5, <3>6, <3>7
  <2>7. ServerFits'
    BY <2>2, <2>5, <2>6, <1>b DEF Attaches, chosen
  <2>8. UNCHANGED dgUploads
    BY <1>10 DEF ServeCardRequest
  <2> QED BY <2>3, <2>5, <2>7, <2>8, <1>b DEF FilesInv, chosen
<1>11. CASE OthersChange
  <2>1. PICK k \in DgCards : OthersChange!2!(k)
    BY <1>11 DEF OthersChange
  <2>2. k \in DgAll /\ UNCHANGED <<dgUploads, dgRequests>>
    BY <1>11 DEF OthersChange, DgAll
  <2>3. dgServer \in [DgAll -> [title : Values, live : Flags, files : SUBSET Values]]
    BY DEF Types
  <2>4. CASE /\ Attach(k, dgPast.files + 1)
             /\ dgPast' = [dgPast EXCEPT !.others = @ + 1, !.files = @ + 1, !.chosen = Append(@, k)]
    <3>1. dgPast'.chosen = Append(chosen, k) /\ dgPast'.files = dgPast.files + 1
      BY <2>4, <1>a DEF Pasts, chosen
    <3>2. \A f, c : ChosenFor(chosen, f, c) => ChosenFor(dgPast'.chosen, f, c)
      BY <2>2, <3>1, <1>a, ChooseMore
    <3>3. ChosenFor(dgPast'.chosen, dgPast.files + 1, k) /\ Len(dgPast'.chosen) = dgPast'.files
      BY <2>2, <3>1, <1>a, <1>b, ChooseMore
    <3>4. \A c \in DgAll : \A f \in dgServer'[c].files : f \in dgServer[c].files \/ (c = k /\ f = dgPast.files + 1)
      BY <2>4, <2>2, <2>3 DEF Attach
    <3>5. ServerFits'
      BY <3>2, <3>3, <3>4, <1>b DEF chosen
    <3>6. AllAttach(dgRequests', dgPast'.chosen)
      BY <2>2, <3>2, <1>b DEF AllAttach, Attaches
    <3>7. UploadsFit'
      BY <2>2, <3>2, <1>b DEF chosen
    <3> QED BY <3>3, <3>5, <3>6, <3>7 DEF FilesInv
  <2>5. CASE \/ \E t \in DgTitles : /\ Retitle(k, t)
                                    /\ dgPast' = [dgPast EXCEPT !.others = @ + 1, !.seen[k] = @ \cup {t}]
             \/ Drop(k) /\ dgPast' = [dgPast EXCEPT !.others = @ + 1]
    <3>1. dgPast'.chosen = chosen /\ dgPast'.files = dgPast.files
      BY <2>5, <1>a DEF Pasts, chosen
    <3>2. \A c \in DgAll : dgServer'[c].files = dgServer[c].files
      <4>1. CASE \E t \in DgTitles : Retitle(k, t)
        BY <4>1, <2>2, <2>3 DEF Retitle
      <4>2. CASE Drop(k)
        BY <4>2, <2>2, <2>3 DEF Drop
      <4> QED BY <2>5, <4>1, <4>2
    <3> QED BY <2>2, <3>1, <3>2, <1>b DEF FilesInv, chosen
  <2> QED BY <2>1, <2>4, <2>5
<1>12. CASE DeliverNews
  <2>1. PICK n \in DOMAIN dgNews : DeliverNews!1!(n)
    BY <1>12 DEF DeliverNews
  <2> DEFINE files == { m \in DOMAIN SubSeq(dgNews, 1, n) : ForAttachments(SubSeq(dgNews, 1, n)[m]) }
             past  == [dgPast EXCEPT !.cut = @ \/ Cardinality(files) > 1]
  <2>2. past \in Pasts /\ past.chosen = chosen /\ past.files = dgPast.files
    <3> DEFINE cut == dgPast.cut \/ Cardinality(files) > 1
    <3>1. cut \in Flags
      BY Zenon DEF Flags
    <3> HIDE DEF files
    <3>2. past = [dgPast EXCEPT !.cut = cut]
      OBVIOUS
    <3> HIDE DEF cut
    <3> QED BY <3>1, <3>2, <1>a DEF Pasts, chosen
  <2>3. \/ UNCHANGED dgRequests /\ dgPast' = past
        \/ /\ dgRequests' = dgRequests \o UnmountSaves(dgDialog)
           /\ dgPast' = NoteSaves(past, UnmountSaves(dgDialog))
    BY <2>1
  <2>4. UNCHANGED <<dgServer, dgUploads>>
    BY <1>12 DEF DeliverNews
  <2> HIDE DEF past
  <2>5. dgPast'.chosen = chosen /\ dgPast'.files = dgPast.files
    BY <2>2, <2>3, NotedSaves
  <2>6. AllAttach(dgRequests', chosen)
    BY <2>3, <1>b, <1>e
  <2> QED BY <2>4, <2>5, <2>6, <1>c
<1>13. CASE UNCHANGED dgVars
  BY <1>13, <1>b, <1>c DEF dgVars, chosen
<1> QED
  BY <1>1, <1>2, <1>3, <1>4, <1>5, <1>6, <1>7, <1>8, <1>9, <1>10, <1>11, <1>12, <1>13 DEF DgNext

\* A file becomes an attachment of the card for which it was chosen.
THEOREM FilesStayWithCard == DgSpec => []FilesOfCard
<1>1. DgInit => Types /\ FilesInv
  BY TypesInit, FilesInit
<1>2. (Types /\ FilesInv) /\ [DgNext]_dgVars => (Types /\ FilesInv)'
  BY TypesStep, FilesStep
<1>3. Types /\ FilesInv => FilesOfCard
  BY DEF FilesInv, FilesOfCard, ChosenFor
<1> QED
  BY <1>1, <1>2, <1>3, PTL DEF DgSpec

----------------------------------------------------------------------------
(***************************************************************************)
(* What was typed is saved.  What the store and the news say of a title     *)
(* has been the card's title; a title typed that never was the card's is in *)
(* the field still, or in a request.                                        *)
(***************************************************************************)

Unserved(requests) == \A i \in DOMAIN requests : requests[i].served => requests[i].kind # "title"

SeenInv ==
  /\ \A k \in DgAll : {DgFirstTitle, dgStore[k].title} \subseteq dgPast.seen[k]
  /\ \A i \in DOMAIN dgNews : dgNews[i].kind = "title" => dgNews[i].what \in dgPast.seen[dgNews[i].card]
  /\ Unserved(dgRequests)

Requested(requests, k, title) ==
  \E i \in DOMAIN requests : requests[i].kind = "title" /\ requests[i].card = k /\ requests[i].what = title
InField(k) == dgDialog.mounted /\ dgDialog.card = k /\ dgDialog.title = dgPast.typed[k]

SavedInv ==
  \A k \in DgAll \ dgPast.refused :
    \/ dgPast.typed[k] \in dgPast.seen[k] \cup {""}
    \/ Requested(dgRequests, k, dgPast.typed[k])
    \/ InField(k)

\* Putting requests behind others loses none.
LEMMA RequestedMore ==
  ASSUME NEW requests \in Seq(Requests), NEW more \in Seq(Requests), NEW k, NEW title,
         Requested(requests, k, title) \/ Requested(more, k, title)
  PROVE  Requested(requests \o more, k, title)
<1>1. CASE Requested(requests, k, title)
  <2>1. PICK i \in DOMAIN requests : requests[i].kind = "title" /\ requests[i].card = k /\ requests[i].what = title
    BY <1>1 DEF Requested
  <2>2. i \in DOMAIN (requests \o more) /\ (requests \o more)[i] = requests[i]
    BY <2>1
  <2> QED BY <2>1, <2>2 DEF Requested
<1>2. CASE Requested(more, k, title)
  <2>1. PICK i \in DOMAIN more : more[i].kind = "title" /\ more[i].card = k /\ more[i].what = title
    BY <1>2 DEF Requested
  <2>2. i + Len(requests) \in DOMAIN (requests \o more) /\ (requests \o more)[i + Len(requests)] = more[i]
    BY <2>1
  <2> QED BY <2>1, <2>2 DEF Requested
<1> QED BY <1>1, <1>2

\* Nor does one more request.
LEMMA RequestedAppend ==
  ASSUME NEW requests \in Seq(Requests), NEW r \in Requests, NEW k, NEW title, Requested(requests, k, title)
  PROVE  Requested(Append(requests, r), k, title)
BY DEF Requested

\* When the dialog of a card closes, what was typed there has been the card's title
\* or is requested.
LEMMA UnmountKeeps ==
  ASSUME Types, FieldInv, SeenInv, SavedInv, NEW k \in DgAll \ dgPast.refused, NEW requests \in Seq(Requests),
         Requested(dgRequests, k, dgPast.typed[k]) => Requested(requests, k, dgPast.typed[k])
  PROVE  \/ dgPast.typed[k] \in dgPast.seen[k] \cup {""}
         \/ Requested(requests \o UnmountSaves(dgDialog), k, dgPast.typed[k])
<1>1. UnmountSaves(dgDialog) \in Seq(Requests)
  BY SavesType
<1>2. CASE Requested(dgRequests, k, dgPast.typed[k])
  BY <1>1, <1>2, RequestedMore
<1>3. CASE InField(k) /\ dgDialog.title = dgStore[k].title
  BY <1>3 DEF InField, SeenInv
<1>4. CASE InField(k) /\ dgDialog.title # dgStore[k].title
  <2>1. UnmountSaves(dgDialog) = <<CardRequest("title", k, dgPast.typed[k])>>
    BY <1>4 DEF InField, UnmountSaves, TitleSaves
  <2>2. Requested(UnmountSaves(dgDialog), k, dgPast.typed[k])
    BY <2>1 DEF Requested, CardRequest
  <2> QED BY <1>1, <2>2, RequestedMore
<1> QED
  BY <1>2, <1>3, <1>4 DEF SavedInv

\* At first every card has the title that was seen, and nothing is under way.
LEMMA SavedInit == DgInit => SeenInv /\ SavedInv
<1> SUFFICES ASSUME DgInit PROVE SeenInv /\ SavedInv
  OBVIOUS
<1>1. dgPast = [steps |-> 0, others |-> 0, files |-> 0, chosen |-> <<>>, typed |-> [k \in DgAll |-> ""],
                seen |-> [k \in DgAll |-> {DgFirstTitle}], refused |-> {}, echoed |-> FALSE, cut |-> FALSE]
  BY DEF DgInit
<1>2. dgPast.typed = [k \in DgAll |-> ""] /\ dgPast.seen = [k \in DgAll |-> {DgFirstTitle}]
  BY <1>1
<1>3. dgNews = <<>> /\ dgRequests = <<>> /\ \A k \in DgAll : dgStore[k].title = DgFirstTitle
  BY DEF DgInit
<1>4. SavedInv
  BY <1>2 DEF SavedInv
<1>5. SeenInv
  <2>1. \A k \in DgAll : {DgFirstTitle, dgStore[k].title} \subseteq dgPast.seen[k]
    BY <1>2, <1>3
  <2> QED BY <2>1, <1>3 DEF SeenInv, Unserved
<1> QED BY <1>4, <1>5

\* The requests of titles are not answered as the others are.
LEMMA UnservedMore ==
  ASSUME NEW requests \in Seq(Requests), Unserved(requests)
  PROVE  /\ \A kind, card, what :
              CardRequest(kind, card, what) \in Requests => Unserved(Append(requests, CardRequest(kind, card, what)))
         /\ Types => Unserved(requests \o UnmountSaves(dgDialog))
         /\ \A i \in DOMAIN requests : Unserved(RemoveAt(requests, i))
<1>1. ASSUME NEW kind, NEW card, NEW what, CardRequest(kind, card, what) \in Requests
      PROVE  Unserved(Append(requests, CardRequest(kind, card, what)))
  <2>1. ~CardRequest(kind, card, what).served
    BY DEF CardRequest
  <2> QED BY <1>1, <2>1 DEF Unserved
<1>2. ASSUME Types PROVE Unserved(requests \o UnmountSaves(dgDialog))
  <2>1. CASE dgDialog.mounted /\ dgDialog.title # dgStore[dgDialog.card].title
    <3>1. UnmountSaves(dgDialog) = <<CardRequest("title", dgDialog.card, dgDialog.title)>>
      BY <2>1 DEF UnmountSaves, TitleSaves
    <3>2. CardRequest("title", dgDialog.card, dgDialog.title) \in Requests
      BY <1>2, <2>1, FlagsAre DEF CardRequest, Requests, Types
    <3>3. requests \o UnmountSaves(dgDialog) = Append(requests, CardRequest("title", dgDialog.card, dgDialog.title))
      BY <3>1, <3>2
    <3> QED BY <3>2, <3>3, <1>1
  <2>2. CASE ~(dgDialog.mounted /\ dgDialog.title # dgStore[dgDialog.card].title)
    <3>1. UnmountSaves(dgDialog) = <<>>
      BY <2>2 DEF UnmountSaves, TitleSaves
    <3> QED BY <3>1
  <2> QED BY <2>1, <2>2
<1>3. \A i \in DOMAIN requests : Unserved(RemoveAt(requests, i))
  BY RemoveAtElements DEF Unserved
<1> QED BY <1>1, <1>2, <1>3

\* What one piece of news says of a title was seen before.
LEMMA NewsSeen ==
  ASSUME Types, SeenInv, NEW n \in DOMAIN dgNews, NEW k \in DgAll
  PROVE  CardNews(k, SubSeq(dgNews, 1, n)).title \in dgPast.seen[k]
<1> DEFINE batch == SubSeq(dgNews, 1, n)
<1>1. CASE LastNews(k, batch) = {}
  BY <1>1 DEF CardNews, SeenInv
<1>2. CASE LastNews(k, batch) # {}
  <2> DEFINE m == CHOOSE o \in LastNews(k, batch) : TRUE
  <2>1. m \in DOMAIN batch /\ batch[m].card = k
    BY <1>2, NewestIsNews
  <2>2. m \in DOMAIN dgNews /\ batch[m] = dgNews[m]
    <3>1. dgNews \in Seq(Newses)
      BY DEF Types
    <3> QED BY <2>1, <3>1
  <2>3. batch[m].kind = "title" => batch[m].what \in dgPast.seen[k]
    BY <2>1, <2>2 DEF SeenInv
  <2>4. dgStore[k] \in [title : Values, live : Flags] /\ dgStore[k].title \in dgPast.seen[k]
    BY DEF Types, SeenInv
  <2> HIDE DEF batch
  <2>5. CardNews(k, batch) = IF batch[m].kind = "title" THEN [title |-> batch[m].what, live |-> TRUE]
                             ELSE [dgStore[k] EXCEPT !.live = FALSE]
    BY <1>2 DEF CardNews
  <2> HIDE DEF m
  <2>6. CardNews(k, batch).title \in dgPast.seen[k]
    BY <2>3, <2>4, <2>5
  <2> QED BY <2>6 DEF batch
<1> QED BY <1>1, <1>2

\* Every action keeps what is known of the titles true.
LEMMA SeenStep == Types /\ Types' /\ SeenInv /\ [DgNext]_dgVars => SeenInv'
<1> SUFFICES ASSUME Types, Types', SeenInv, [DgNext]_dgVars PROVE SeenInv'
  OBVIOUS
<1>a. dgPast \in Pasts /\ dgRequests \in Seq(Requests) /\ dgNews \in Seq(Newses)
  BY DEF Types
<1>b. ASSUME dgPast'.seen = dgPast.seen, UNCHANGED <<dgStore, dgNews>>, Unserved(dgRequests') PROVE SeenInv'
  BY <1>b DEF SeenInv
<1>c. ASSUME dgPast' = [dgPast EXCEPT !.steps = @ + 1] PROVE dgPast'.seen = dgPast.seen
  BY <1>a, <1>c DEF Pasts
<1>d. Unserved(dgRequests)
  BY DEF SeenInv
<1>e. Unserved(dgRequests \o UnmountSaves(dgDialog))
  BY <1>a, <1>d, UnservedMore
<1>f. NoteSaves(dgPast, UnmountSaves(dgDialog)).seen = dgPast.seen
  BY <1>a, NotedSaves
<1>g. ASSUME NEW kind \in {"title", "attach", "detach", "delete", "template"}, NEW card \in DgAll, NEW what \in Values
      PROVE  Unserved(Append(dgRequests, CardRequest(kind, card, what)))
  <2>1. CardRequest(kind, card, what) \in Requests
    BY FlagsAre DEF CardRequest, Requests
  <2> QED BY <2>1, <1>a, <1>d, UnservedMore
\* The server tells of titles that it has seen.
<1>h. ASSUME NEW k \in DgAll, NEW kind, NEW what, dgNews' = News(k, kind, what), UNCHANGED dgStore,
             Unserved(dgRequests'), \A c \in DgAll : dgPast.seen[c] \subseteq dgPast'.seen[c],
             kind = "title" => what \in dgPast'.seen[k]
      PROVE  SeenInv'
  <2>1. dgNews' = Append(dgNews, [card |-> k, kind |-> kind, what |-> what])
    BY <1>h DEF News
  <2>2. ASSUME NEW i \in DOMAIN dgNews', dgNews'[i].kind = "title" PROVE dgNews'[i].what \in dgPast'.seen[dgNews'[i].card]
    <3>1. CASE i = Len(dgNews) + 1
      <4>1. dgNews'[i] = [card |-> k, kind |-> kind, what |-> what]
        BY <3>1, <2>1, <1>a
      <4> QED BY <4>1, <2>2, <1>h
    <3>2. CASE i # Len(dgNews) + 1
      <4>1. i \in DOMAIN dgNews /\ dgNews'[i] = dgNews[i]
        BY <3>2, <2>1, <2>2, <1>a
      <4>2. dgNews[i].card \in DgAll /\ dgNews[i].what \in dgPast.seen[dgNews[i].card]
        <5>1. dgNews[i] \in Newses
          BY <4>1, <1>a
        <5>2. dgNews[i].kind = "title"
          BY <4>1, <2>2
        <5> QED BY <4>1, <5>1, <5>2 DEF SeenInv, Newses
      <4> QED BY <4>1, <4>2, <1>h
    <3> QED BY <3>1, <3>2
  <2> QED BY <2>2, <1>h DEF SeenInv
<1>1. CASE OpenCardDialog
  <2>1. dgRequests' = dgRequests \o UnmountSaves(dgDialog)
    BY <1>1 DEF OpenCardDialog, Show
  <2> QED BY <1>1, <2>1, <1>b, <1>c, <1>e DEF OpenCardDialog, DgStep
<1>2. CASE CloseCard
  <2>1. dgRequests' = dgRequests \o UnmountSaves(dgDialog)
    BY <1>2 DEF CloseCard, Show
  <2> QED BY <1>2, <2>1, <1>b, <1>e, <1>f DEF CloseCard
<1>3. CASE TypeTitle
  <2>1. dgPast'.seen = dgPast.seen
    BY <1>3, <1>a DEF TypeTitle, DgStep, Pasts
  <2> QED BY <1>3, <2>1, <1>b, <1>d DEF TypeTitle
<1>4. CASE SaveTitle
  <2> DEFINE past == NoteSaves(dgPast, UnmountSaves(dgDialog))
  <2>1. past \in Pasts /\ past.seen = dgPast.seen
    BY <1>a, <1>f, NoteSavesType
  <2>2. dgPast' = [past EXCEPT !.steps = @ + 1] /\ dgRequests' = dgRequests \o UnmountSaves(dgDialog)
        /\ UNCHANGED <<dgStore, dgNews>>
    BY <1>4 DEF SaveTitle, DgStep, UnmountSaves
  <2> HIDE DEF past
  <2>3. dgPast'.seen = dgPast.seen
    BY <2>1, <2>2 DEF Pasts
  <2> QED BY <2>2, <2>3, <1>b, <1>e
<1>5. CASE ChooseFile
  <2>1. dgPast'.seen = dgPast.seen
    BY <1>5, <1>a DEF ChooseFile, DgStep, Pasts
  <2> QED BY <1>5, <2>1, <1>b, <1>d DEF ChooseFile
<1>6. CASE EndUpload
  <2>1. PICK i \in DOMAIN dgUploads : EndUpload!1!(i)
    BY <1>6 DEF EndUpload
  <2>2. UploadTarget(dgUploads[i]) \in DgAll /\ dgUploads[i].file \in Values
    <3>1. dgUploads \in Seq(Uploads)
      BY DEF Types
    <3>2. dgUploads[i] \in Uploads
      BY <2>1, <3>1
    <3> QED BY <3>2 DEF Uploads, UploadTarget, Values
  <2>3. Unserved(dgRequests')
    <3>1. CASE dgRequests' = Append(dgRequests, CardRequest("attach", UploadTarget(dgUploads[i]), dgUploads[i].file))
      BY <3>1, <2>2, <1>g
    <3>2. CASE dgRequests' = dgRequests
      BY <3>2, <1>d
    <3> QED BY <2>1, <3>1, <3>2
  <2> QED BY <1>6, <2>3, <1>b DEF EndUpload
<1>7. CASE DeleteAttachment
  <2>1. PICK f \in 1..DgMaxFiles : dgRequests' = Append(dgRequests, CardRequest("detach", dgDialog.card, f))
    BY <1>7 DEF DeleteAttachment
  <2>2. DgMaxFiles \in Nat
    BY DgAssumption
  <2>3. f \in Nat
    BY <2>1, <2>2
  <2>4. f \in Values /\ dgDialog.card \in DgAll
    BY <2>3, <1>7 DEF DeleteAttachment, Types, Values
  <2> QED BY <1>7, <2>1, <2>4, <1>b, <1>c, <1>g DEF DeleteAttachment, DgStep
<1>8. CASE DeleteCard \/ MakeTemplate
  <2>1. dgDialog.card \in DgAll /\ "" \in Values
    BY <1>8 DEF DeleteCard, MakeTemplate, Types, Values
  <2>2. Unserved(dgRequests')
    BY <1>8, <2>1, <1>g DEF DeleteCard, MakeTemplate
  <2> QED BY <1>8, <2>2, <1>b, <1>c DEF DeleteCard, MakeTemplate, DgStep
<1>9. CASE AnswerDialog
  <2>1. PICK i \in DOMAIN dgRequests : AnswerDialog!1!(i)
    BY <1>9 DEF AnswerDialog
  <2>2. RemoveAt(dgRequests, i) \in Seq(Requests) /\ Unserved(RemoveAt(dgRequests, i))
    BY <2>1, <1>a, <1>d, RemoveAtType, UnservedMore
  <2>3. Unserved(dgRequests')
    BY <2>1, <2>2, UnservedMore
  <2>4. dgPast'.seen = dgPast.seen
    BY <2>1, <1>f
  <2>5. UNCHANGED dgNews
    BY <1>9 DEF AnswerDialog
  <2>6. \A k \in DgAll : dgStore'[k].title \in {DgFirstTitle, dgStore[k].title}
    <3>1. dgStore' \in {dgStore, [dgStore EXCEPT ![DgTemplate] = [live |-> TRUE, title |-> DgFirstTitle]]}
      BY <2>1
    <3>2. dgStore \in [DgAll -> [title : Values, live : Flags]]
      BY DEF Types
    <3> QED BY <3>1, <3>2
  <2>7. \A k \in DgAll : {DgFirstTitle, dgStore'[k].title} \subseteq dgPast'.seen[k]
    BY <2>4, <2>6 DEF SeenInv
  <2> QED BY <2>3, <2>4, <2>5, <2>7 DEF SeenInv
<1>10. CASE ServeCardRequest
  <2>1. PICK i \in DOMAIN dgRequests : ServeCardRequest!1!(i)
    BY <1>10 DEF ServeCardRequest
  <2> DEFINE r == dgRequests[i]
  <2>2. r \in Requests
    BY <2>1, <1>a
  <2>3. r.card \in DgAll /\ UNCHANGED dgStore
    BY <2>2, <1>10 DEF Requests, ServeCardRequest
  <2>4. Unserved(dgRequests')
    <3>1. CASE AnsweredAtOnce(i)
      BY <3>1, <1>a, <1>d, UnservedMore DEF AnsweredAtOnce
    <3>2. CASE AwaitAnswer(i) /\ r.kind # "title"
      <4>1. \A j \in DOMAIN dgRequests' : j \in DOMAIN dgRequests /\ dgRequests'[j].kind = dgRequests[j].kind
              /\ (j # i => dgRequests'[j] = dgRequests[j])
        BY <3>2, <2>2, <1>a DEF AwaitAnswer, Requests
      <4> QED BY <3>2, <4>1, <1>d DEF Unserved
    <3> QED BY <2>1, <3>1, <3>2
  <2>5. \/ dgPast' = [dgPast EXCEPT !.seen[r.card] = @ \cup {r.what}]
        \/ dgPast' = [dgPast EXCEPT !.refused = @ \cup {r.card}]
        \/ dgPast' = dgPast
    BY <2>1 DEF NoteSeen
  <2>6. \A c \in DgAll : dgPast.seen[c] \subseteq dgPast'.seen[c]
    BY <2>5, <1>a DEF Pasts, TextSets
  <2>7. CASE Retitle(r.card, r.what) /\ NoteSeen(r.card, r.what)
    <3>1. r.what \in dgPast'.seen[r.card]
      BY <2>7, <2>3, <1>a DEF NoteSeen, Pasts, TextSets
    <3> QED BY <2>3, <2>4, <2>6, <2>7, <3>1, <1>h DEF Retitle
  <2>8. CASE Drop(r.card) \/ Attach(r.card, r.what) \/ Detach(r.card, r.what)
    BY <2>3, <2>4, <2>6, <2>8, <1>h DEF Drop, Attach, Detach
  <2>9. CASE dgNews' = News(DgTemplate, "title", DgFirstTitle)
    <3>1. DgFirstTitle \in dgPast'.seen[DgTemplate]
      BY <2>6, FirstCard DEF SeenInv
    <3> QED BY <2>3, <2>4, <2>6, <2>9, <3>1, <1>h, FirstCard
  <2>10. CASE UNCHANGED dgNews /\ dgPast'.seen = dgPast.seen
    BY <2>3, <2>4, <2>10, <1>b
  <2>11. dgPast' = [dgPast EXCEPT !.refused = @ \cup {r.card}] => dgPast'.seen = dgPast.seen
    BY <1>a DEF Pasts
  <2> QED BY <2>1, <2>7, <2>8, <2>9, <2>10, <2>11
<1>11. CASE OthersChange
  <2>1. PICK k \in DgCards : OthersChange!2!(k)
    BY <1>11 DEF OthersChange
  <2>2. k \in DgAll /\ UNCHANGED <<dgStore, dgRequests>>
    BY <1>11 DEF OthersChange, DgAll
  <2>3. ASSUME NEW t \in DgTitles, Retitle(k, t), dgPast' = [dgPast EXCEPT !.others = @ + 1, !.seen[k] = @ \cup {t}]
        PROVE  SeenInv'
    <3>1. dgPast'.seen = [dgPast.seen EXCEPT ![k] = @ \cup {t}]
      BY <2>3, <1>a DEF Pasts
    <3>2. dgPast.seen \in TextSets
      BY <1>a DEF Pasts
    <3>3. t \in dgPast'.seen[k] /\ \A c \in DgAll : dgPast.seen[c] \subseteq dgPast'.seen[c]
      BY <2>2, <3>1, <3>2 DEF TextSets
    <3> QED BY <2>2, <2>3, <3>3, <1>d, <1>h DEF Retitle
  <2>4. CASE /\ Drop(k) \/ Attach(k, dgPast.files + 1)
             /\ \/ dgPast' = [dgPast EXCEPT !.others = @ + 1, !.files = @ + 1, !.chosen = Append(@, k)]
                \/ dgPast' = [dgPast EXCEPT !.others = @ + 1]
    <3>1. dgPast'.seen = dgPast.seen
      BY <2>4, <1>a DEF Pasts
    <3> QED BY <2>2, <2>4, <3>1, <1>d, <1>h DEF Drop, Attach
  <2> QED BY <2>1, <2>3, <2>4
<1>12. CASE DeliverNews
  <2>1. PICK n \in DOMAIN dgNews : DeliverNews!1!(n)
    BY <1>12 DEF DeliverNews
  <2> DEFINE files == { m \in DOMAIN SubSeq(dgNews, 1, n) : ForAttachments(SubSeq(dgNews, 1, n)[m]) }
             past  == [dgPast EXCEPT !.cut = @ \/ Cardinality(files) > 1]
  <2>2. past \in Pasts /\ past.seen = dgPast.seen
    <3> DEFINE cut == dgPast.cut \/ Cardinality(files) > 1
    <3>1. cut \in Flags
      BY Zenon DEF Flags
    <3> HIDE DEF files
    <3>2. past = [dgPast EXCEPT !.cut = cut]
      OBVIOUS
    <3> HIDE DEF cut
    <3> QED BY <3>1, <3>2, <1>a DEF Pasts
  <2>3. \/ UNCHANGED dgRequests /\ dgPast' = past
        \/ /\ dgRequests' = dgRequests \o UnmountSaves(dgDialog)
           /\ dgPast' = NoteSaves(past, UnmountSaves(dgDialog))
    BY <2>1
  <2> HIDE DEF past
  <2>4. dgPast'.seen = dgPast.seen
    BY <2>2, <2>3, NotedSaves
  <2>5. Unserved(dgRequests')
    BY <2>3, <1>d, <1>e
  <2>6. dgStore' = [k \in DgAll |-> CardNews(k, SubSeq(dgNews, 1, n))]
    BY <2>1
  <2>7. \A k \in DgAll : {DgFirstTitle, dgStore'[k].title} \subseteq dgPast'.seen[k]
    <3>1. ASSUME NEW k \in DgAll PROVE dgStore'[k].title \in dgPast.seen[k]
      BY <2>6, NewsSeen
    <3> QED BY <3>1, <2>4 DEF SeenInv
  <2>8. \A i \in DOMAIN dgNews' : \E j \in DOMAIN dgNews : dgNews'[i] = dgNews[j]
    <3>1. dgNews' = SubSeq(dgNews, n + 1, Len(dgNews))
      BY <2>1
    <3> QED BY <3>1, <1>a
  <2>9. \A i \in DOMAIN dgNews' : dgNews'[i].kind = "title" => dgNews'[i].what \in dgPast'.seen[dgNews'[i].card]
    BY <2>4, <2>8 DEF SeenInv
  <2> QED BY <2>5, <2>7, <2>9 DEF SeenInv
<1>13. CASE UNCHANGED dgVars
  BY <1>13, <1>b, <1>d DEF dgVars
<1> QED
  BY <1>1, <1>2, <1>3, <1>4, <1>5, <1>6, <1>7, <1>8, <1>9, <1>10, <1>11, <1>12, <1>13 DEF DgNext

\* Every action keeps what was typed: a title leaves the field for a request, and
\* the requests for the titles that were seen.
LEMMA SavedStep ==
  Types /\ Types' /\ FieldInv /\ SeenInv /\ SavedInv /\ [DgNext]_dgVars => SavedInv'
<1> SUFFICES ASSUME Types, Types', FieldInv, SeenInv, SavedInv, [DgNext]_dgVars PROVE SavedInv'
  OBVIOUS
<1> DEFINE Asked(k) == Requested(dgRequests, k, dgPast.typed[k])
<1>a. dgPast \in Pasts /\ dgRequests \in Seq(Requests)
  BY DEF Types
\* The dialog is as before, requests are only added.
<1>b. ASSUME UNCHANGED dgDialog, dgPast'.typed = dgPast.typed, dgPast'.seen = dgPast.seen,
             dgPast'.refused = dgPast.refused,
             \A k \in DgAll : Asked(k) => Requested(dgRequests', k, dgPast.typed[k])
      PROVE  SavedInv'
  BY <1>b DEF SavedInv, InField
\* The dialog closes.
<1>c. ASSUME NEW requests \in Seq(Requests), dgRequests' = requests \o UnmountSaves(dgDialog),
             dgPast'.typed = dgPast.typed, dgPast'.seen = dgPast.seen, dgPast'.refused = dgPast.refused,
             \A k \in DgAll : Asked(k) => Requested(requests, k, dgPast.typed[k])
      PROVE  SavedInv'
  <2>1. \A k \in DgAll \ dgPast.refused :
          dgPast.typed[k] \in dgPast.seen[k] \cup {""} \/ Requested(dgRequests', k, dgPast.typed[k])
    BY <1>c, UnmountKeeps
  <2> QED BY <2>1, <1>c DEF SavedInv
<1>d. ASSUME dgPast' = [dgPast EXCEPT !.steps = @ + 1]
      PROVE  dgPast'.typed = dgPast.typed /\ dgPast'.seen = dgPast.seen /\ dgPast'.refused = dgPast.refused
  BY <1>a, <1>d DEF Pasts
<1>e. ASSUME NEW kind \in {"title", "attach", "detach", "delete", "template"}, NEW card \in DgAll, NEW what \in Values,
             NEW k \in DgAll, Asked(k)
      PROVE  Requested(Append(dgRequests, CardRequest(kind, card, what)), k, dgPast.typed[k])
  <2>1. CardRequest(kind, card, what) \in Requests
    BY FlagsAre DEF CardRequest, Requests
  <2> QED BY <2>1, <1>a, <1>e, RequestedAppend
<1>f. LET p == NoteSaves(dgPast, UnmountSaves(dgDialog)) IN
        p \in Pasts /\ p.typed = dgPast.typed /\ p.seen = dgPast.seen /\ p.refused = dgPast.refused
  BY <1>a, NotedSaves, NoteSavesType
<1>1. CASE OpenCardDialog
  <2>1. dgRequests' = dgRequests \o UnmountSaves(dgDialog)
    BY <1>1 DEF OpenCardDialog, Show
  <2> QED BY <1>1, <2>1, <1>a, <1>c, <1>d DEF OpenCardDialog, DgStep
<1>2. CASE CloseCard
  <2>1. dgRequests' = dgRequests \o UnmountSaves(dgDialog)
    BY <1>2 DEF CloseCard, Show
  <2>2. dgPast' = NoteSaves(dgPast, UnmountSaves(dgDialog))
    BY <1>2 DEF CloseCard
  <2> QED BY <2>1, <2>2, <1>a, <1>c, <1>f
<1>3. CASE TypeTitle
  <2>1. PICK t \in DgTitles \ {dgDialog.title} :
          /\ dgDialog' = FollowTitle([dgDialog EXCEPT !.title = t], dgStore[dgDialog.card].title)
          /\ DgStep([dgPast EXCEPT !.typed[dgDialog.card] = t])
    BY <1>3 DEF TypeTitle
  <2> DEFINE card == dgDialog.card
  <2>2. card \in DgAll /\ dgDialog.mounted /\ dgDialog.serverTitle = dgStore[card].title
    BY <1>3 DEF TypeTitle, Types, FieldInv
  <2>3. dgDialog'.card = card /\ dgDialog'.mounted /\ dgDialog'.title = t
    BY <2>1, <2>2 DEF FollowTitle, Types
  <2>4. /\ dgPast'.seen = dgPast.seen /\ dgPast'.refused = dgPast.refused /\ UNCHANGED dgRequests
        /\ dgPast'.typed = [dgPast.typed EXCEPT ![card] = t]
    BY <1>3, <2>1, <1>a DEF TypeTitle, DgStep, Pasts
  <2>5. dgPast'.typed[card] = t /\ \A k \in DgAll : k # card => dgPast'.typed[k] = dgPast.typed[k]
    BY <2>2, <2>4, <1>a DEF Pasts, Texts
  <2> QED BY <2>2, <2>3, <2>4, <2>5 DEF SavedInv, InField
<1>4. CASE SaveTitle
  <2> DEFINE past == NoteSaves(dgPast, UnmountSaves(dgDialog))
  <2>1. dgPast' = [past EXCEPT !.steps = @ + 1] /\ dgRequests' = dgRequests \o UnmountSaves(dgDialog)
    BY <1>4 DEF SaveTitle, DgStep, UnmountSaves
  <2>2. /\ past \in Pasts /\ past.typed = dgPast.typed /\ past.seen = dgPast.seen
        /\ past.refused = dgPast.refused
    BY <1>f
  <2> HIDE DEF past
  <2>3. dgPast'.typed = dgPast.typed /\ dgPast'.seen = dgPast.seen /\ dgPast'.refused = dgPast.refused
    BY <2>1, <2>2 DEF Pasts
  <2> QED BY <2>1, <2>3, <1>a, <1>c
<1>5. CASE ChooseFile
  <2>1. dgPast'.typed = dgPast.typed /\ dgPast'.seen = dgPast.seen /\ dgPast'.refused = dgPast.refused
    BY <1>5, <1>a DEF ChooseFile, DgStep, Pasts
  <2> QED BY <1>5, <2>1, <1>b DEF ChooseFile
<1>6. CASE EndUpload
  <2>1. PICK i \in DOMAIN dgUploads : EndUpload!1!(i)
    BY <1>6 DEF EndUpload
  <2>2. UploadTarget(dgUploads[i]) \in DgAll /\ dgUploads[i].file \in Values
    <3>1. dgUploads \in Seq(Uploads)
      BY DEF Types
    <3>2. dgUploads[i] \in Uploads
      BY <2>1, <3>1
    <3> QED BY <3>2 DEF Uploads, UploadTarget, Values
  <2>3. \A k \in DgAll : Asked(k) => Requested(dgRequests', k, dgPast.typed[k])
    <3>1. dgRequests' \in {dgRequests, Append(dgRequests,
             CardRequest("attach", UploadTarget(dgUploads[i]), dgUploads[i].file))}
      BY <2>1
    <3> QED BY <3>1, <2>2, <1>e
  <2> QED BY <1>6, <2>3, <1>b DEF EndUpload
<1>7. CASE DeleteAttachment
  <2>1. PICK f \in 1..DgMaxFiles : dgRequests' = Append(dgRequests, CardRequest("detach", dgDialog.card, f))
    BY <1>7 DEF DeleteAttachment
  <2>2. DgMaxFiles \in Nat
    BY DgAssumption
  <2>3. f \in Nat
    BY <2>1, <2>2
  <2>4. f \in Values /\ dgDialog.card \in DgAll
    BY <2>3, <1>7 DEF DeleteAttachment, Types, Values
  <2> QED BY <1>7, <2>1, <2>4, <1>b, <1>d, <1>e DEF DeleteAttachment, DgStep
<1>8. CASE DeleteCard \/ MakeTemplate
  <2>1. dgDialog.card \in DgAll /\ "" \in Values
    BY <1>8 DEF DeleteCard, MakeTemplate, Types, Values
  <2>2. \A k \in DgAll : Asked(k) => Requested(dgRequests', k, dgPast.typed[k])
    BY <1>8, <2>1, <1>e DEF DeleteCard, MakeTemplate
  <2> QED BY <1>8, <2>2, <1>b, <1>d DEF DeleteCard, MakeTemplate, DgStep
<1>9. CASE AnswerDialog
  <2>1. PICK i \in DOMAIN dgRequests : AnswerDialog!1!(i)
    BY <1>9 DEF AnswerDialog
  <2>2. RemoveAt(dgRequests, i) \in Seq(Requests) /\ dgRequests[i].kind # "title"
    BY <2>1, <1>a, RemoveAtType DEF SeenInv, Unserved
  <2>3. \A k \in DgAll : Asked(k) => Requested(RemoveAt(dgRequests, i), k, dgPast.typed[k])
    <3>1. \A j \in DOMAIN dgRequests \ {i} : \E l \in DOMAIN RemoveAt(dgRequests, i) :
            RemoveAt(dgRequests, i)[l] = dgRequests[j]
      BY <2>1, <1>a, RemoveAtElements
    <3> QED BY <3>1, <2>2 DEF Requested
  <2>4. dgPast' = NoteSaves(dgPast, UnmountSaves(dgDialog)) /\ dgRequests' = RemoveAt(dgRequests, i) \o UnmountSaves(dgDialog)
    BY <2>1
  <2> QED BY <2>2, <2>3, <2>4, <1>c, <1>f
<1>10. CASE ServeCardRequest
  <2>1. PICK i \in DOMAIN dgRequests : ServeCardRequest!1!(i)
    BY <1>10 DEF ServeCardRequest
  <2> DEFINE r == dgRequests[i]
  <2>2. r \in Requests /\ UNCHANGED dgDialog
    BY <2>1, <1>10, <1>a DEF ServeCardRequest
  <2>3. r.card \in DgAll
    BY <2>2 DEF Requests
  <2>4. \A k \in DgAll : /\ Asked(k)
                         /\ ~(r.kind = "title" /\ r.card = k /\ r.what = dgPast.typed[k])
                         => Requested(dgRequests', k, dgPast.typed[k])
    <3>1. CASE AnsweredAtOnce(i)
      BY <3>1, <2>1, <1>a, RemoveAtElements DEF AnsweredAtOnce, Requested
    <3>2. CASE AwaitAnswer(i)
      <4>1. \A j \in DOMAIN dgRequests : /\ j \in DOMAIN dgRequests' /\ dgRequests'[j].kind = dgRequests[j].kind
              /\ dgRequests'[j].card = dgRequests[j].card /\ dgRequests'[j].what = dgRequests[j].what
        BY <3>2, <2>2, <1>a DEF AwaitAnswer, Requests
      <4> QED BY <4>1 DEF Requested
    <3> QED BY <2>1, <3>1, <3>2
  <2>5. CASE r.kind # "title"
    <3>1. dgPast' = dgPast
      BY <2>1, <2>5
    <3> QED BY <3>1, <2>2, <2>4, <2>5, <1>b
  <2>6. CASE r.kind = "title" /\ dgPast' = [dgPast EXCEPT !.seen[r.card] = @ \cup {r.what}]
    <3>1. dgPast'.typed = dgPast.typed /\ dgPast'.refused = dgPast.refused
          /\ dgPast'.seen = [dgPast.seen EXCEPT ![r.card] = @ \cup {r.what}]
      BY <2>6, <1>a DEF Pasts
    <3>2. dgPast.seen \in TextSets
      BY <1>a DEF Pasts
    <3>3. r.what \in dgPast'.seen[r.card] /\ \A k \in DgAll : dgPast.seen[k] \subseteq dgPast'.seen[k]
      BY <3>1, <3>2, <2>3 DEF TextSets
    <3> QED BY <3>1, <3>3, <2>2, <2>4 DEF SavedInv, InField
  <2>7. CASE r.kind = "title" /\ dgPast' = [dgPast EXCEPT !.refused = @ \cup {r.card}]
    <3>1. dgPast'.typed = dgPast.typed /\ dgPast'.refused = dgPast.refused \cup {r.card} /\ dgPast'.seen = dgPast.seen
      BY <2>7, <1>a DEF Pasts
    <3> QED BY <3>1, <2>2, <2>4 DEF SavedInv, InField
  <2> QED BY <2>1, <2>5, <2>6, <2>7 DEF NoteSeen
<1>11. CASE OthersChange
  <2>1. PICK k \in DgCards : OthersChange!2!(k)
    BY <1>11 DEF OthersChange
  <2>2. k \in DgAll /\ UNCHANGED <<dgDialog, dgRequests>>
    BY <1>11 DEF OthersChange, DgAll
  <2>3. ASSUME NEW t \in DgTitles, dgPast' = [dgPast EXCEPT !.others = @ + 1, !.seen[k] = @ \cup {t}]
        PROVE  SavedInv'
    <3>1. dgPast'.typed = dgPast.typed /\ dgPast'.refused = dgPast.refused
          /\ dgPast'.seen = [dgPast.seen EXCEPT ![k] = @ \cup {t}]
      BY <2>3, <1>a DEF Pasts
    <3>2. dgPast.seen \in TextSets
      BY <1>a DEF Pasts
    <3>3. \A c \in DgAll : dgPast.seen[c] \subseteq dgPast'.seen[c]
      BY <3>1, <3>2, <2>2 DEF TextSets
    <3> QED BY <3>1, <3>3, <2>2 DEF SavedInv, InField
  <2>4. CASE \/ dgPast' = [dgPast EXCEPT !.others = @ + 1, !.files = @ + 1, !.chosen = Append(@, k)]
             \/ dgPast' = [dgPast EXCEPT !.others = @ + 1]
    <3>1. dgPast'.typed = dgPast.typed /\ dgPast'.seen = dgPast.seen /\ dgPast'.refused = dgPast.refused
      BY <2>4, <1>a DEF Pasts
    <3> QED BY <2>2, <3>1, <1>b
  <2> QED BY <2>1, <2>3, <2>4
<1>12. CASE DeliverNews
  <2>1. PICK n \in DOMAIN dgNews : DeliverNews!1!(n)
    BY <1>12 DEF DeliverNews
  <2> DEFINE files == { m \in DOMAIN SubSeq(dgNews, 1, n) : ForAttachments(SubSeq(dgNews, 1, n)[m]) }
             past  == [dgPast EXCEPT !.cut = @ \/ Cardinality(files) > 1]
  <2>2. past \in Pasts /\ past.typed = dgPast.typed /\ past.seen = dgPast.seen /\ past.refused = dgPast.refused
    <3> DEFINE cut == dgPast.cut \/ Cardinality(files) > 1
    <3>1. cut \in Flags
      BY Zenon DEF Flags
    <3> HIDE DEF files
    <3>2. past = [dgPast EXCEPT !.cut = cut]
      OBVIOUS
    <3> HIDE DEF cut
    <3> QED BY <3>1, <3>2, <1>a DEF Pasts
  <2>3. \/ UNCHANGED <<dgDialog, dgRequests>> /\ dgPast' = past
        \/ /\ dgDialog.mounted /\ dgDialog' = FollowTitle(dgDialog, dgStore'[dgDialog.card].title)
           /\ UNCHANGED dgRequests /\ dgPast' = past
        \/ /\ dgRequests' = dgRequests \o UnmountSaves(dgDialog)
           /\ dgPast' = NoteSaves(past, UnmountSaves(dgDialog))
    BY <2>1
  <2> HIDE DEF past
  <2>4. dgPast'.typed = dgPast.typed /\ dgPast'.seen = dgPast.seen /\ dgPast'.refused = dgPast.refused
    BY <2>2, <2>3, NotedSaves
  <2>5. CASE UNCHANGED <<dgDialog, dgRequests>>
    BY <2>4, <2>5, <1>b
  <2>6. CASE /\ dgDialog.mounted /\ dgDialog' = FollowTitle(dgDialog, dgStore'[dgDialog.card].title)
             /\ UNCHANGED dgRequests
    <3>1. dgDialog.card \in DgAll /\ dgDialog.serverTitle \in dgPast.seen[dgDialog.card]
      BY <2>6 DEF Types, FieldInv, SeenInv
    <3>2. /\ dgDialog'.card = dgDialog.card /\ dgDialog'.mounted = dgDialog.mounted
          /\ dgDialog'.title = dgDialog.title \/ dgDialog.title = dgDialog.serverTitle
      BY <2>6 DEF FollowTitle, Types
    <3> QED BY <2>4, <2>6, <3>1, <3>2 DEF SavedInv, InField
  <2>7. CASE dgRequests' = dgRequests \o UnmountSaves(dgDialog)
    BY <2>4, <2>7, <1>a, <1>c
  <2> QED BY <2>3, <2>5, <2>6, <2>7
<1>13. CASE UNCHANGED dgVars
  BY <1>13, <1>b DEF dgVars
<1> QED
  BY <1>1, <1>2, <1>3, <1>4, <1>5, <1>6, <1>7, <1>8, <1>9, <1>10, <1>11, <1>12, <1>13 DEF DgNext

\* When a card has left the dialog and all is saved, the title typed last for it has
\* been the card's title, unless the card was deleted.
THEOREM TypedGetsSaved == DgSpec => []TypedIsSaved
<1> DEFINE Inv == Types /\ FieldInv /\ SeenInv /\ SavedInv
<1>1. DgInit => Inv
  BY TypesInit, FieldInit, SavedInit
<1>2. Inv /\ [DgNext]_dgVars => Inv'
  BY TypesStep, FieldStep, SeenStep, SavedStep
<1>3. Inv => TypedIsSaved
  BY DEF SavedInv, TypedIsSaved, InField, Requested
<1> HIDE DEF Inv
<1> QED
  BY <1>1, <1>2, <1>3, PTL DEF DgSpec

\* Titles are saved if they were typed for the card, and only then.
THEOREM TitlesAreKept == DgSpec => []TitlesKept
<1>1. OnlyTypedIsSaved /\ TypedIsSaved => TitlesKept
  BY DEF TitlesKept
<1> QED BY <1>1, OnlyTyped, TypedGetsSaved, PTL

----------------------------------------------------------------------------
(***************************************************************************)
(* The dialog shows no deleted card, and cards list their attachments.      *)
(***************************************************************************)
DgFiles == 1..DgMaxFiles

\* A request or a piece of news carries what its kind says.
FitTypes(r) == /\ r.kind = "title" => r.what \in DgTitles
               /\ r.kind \in {"attach", "detach", "attached", "detached"} => r.what \in DgFiles
FitRequests == { r \in Requests : FitTypes(r) }
FitNews     == { r \in Newses : FitTypes(r) }
FitUploads  == [card : DgAll, file : DgFiles, failed : Flags]
Entries     == {"file", "uploading"} \X DgFiles

ShapeInv ==
  /\ dgServer \in [DgAll -> [title : DgTitles, live : Flags, files : SUBSET DgFiles]]
  /\ dgStore \in [DgAll -> [title : DgTitles, live : Flags]]
  /\ dgRequests \in Seq(FitRequests)
  /\ dgNews \in Seq(FitNews)
  /\ dgUploads \in Seq(FitUploads)
  /\ dgLists \in [DgAll -> [list : SUBSET Entries, listed : Flags]]
  /\ dgDialog.title \in DgTitles
  /\ dgDialog.mounted => dgStore[dgDialog.card].live

\* A number of a file is at most the number of those that were chosen.
LEMMA FileNumber ==
  ASSUME Types, dgPast.files < DgMaxFiles
  PROVE  dgPast.files + 1 \in DgFiles
<1>1. dgPast.files \in Nat /\ DgMaxFiles \in Nat
  BY DgAssumption DEF Types, Pasts
<1> QED BY <1>1 DEF DgFiles

LEMMA FilesAreValues == DgFiles \subseteq Values /\ DgTitles \subseteq Values
<1>1. DgMaxFiles \in Nat
  BY DgAssumption
<1>2. DgFiles \subseteq Nat
  BY <1>1 DEF DgFiles
<1> QED BY <1>2 DEF Values

\* Changes of a list of attachments.
LEMMA AddType ==
  ASSUME NEW list \in [list : SUBSET Entries, listed : Flags], NEW new \in SUBSET Entries
  PROVE  /\ AddAttachments(list, new) \in [list : SUBSET Entries, listed : Flags]
         /\ AddAttachments(list, new).list = list.list \cup new
<1> DEFINE listed == list.listed \/ new # {}
<1>1. listed \in Flags
  BY Zenon DEF Flags
<1>2. AddAttachments(list, new) = [list EXCEPT !.listed = listed, !.list = @ \cup new]
  BY DEF AddAttachments
<1> HIDE DEF listed
<1> QED BY <1>1, <1>2

LEMMA RemoveType ==
  ASSUME NEW list \in [list : SUBSET Entries, listed : Flags], NEW gone
  PROVE  /\ RemoveAttachments(list, gone) \in [list : SUBSET Entries, listed : Flags]
         /\ RemoveAttachments(list, gone).list = list.list \ gone
BY DEF RemoveAttachments

\* The files that a batch of news attaches or detaches.
LEMMA FilesInType ==
  ASSUME ShapeInv, NEW n \in DOMAIN dgNews, NEW kind \in {"attached", "detached"}, NEW k
  PROVE  FilesIn(SubSeq(dgNews, 1, n), kind, k) \in SUBSET Entries
<1> DEFINE batch == SubSeq(dgNews, 1, n)
<1>1. batch \in Seq(FitNews)
  <2>1. dgNews \in Seq(FitNews) /\ n \in 1..Len(dgNews)
    BY DEF ShapeInv
  <2> QED BY <2>1
<1>2. ASSUME NEW m \in Reached(batch), batch[m].kind = kind
      PROVE  <<"file", batch[m].what>> \in Entries
  <2>1. batch[m] \in FitNews
    BY <1>1 DEF Reached, Newest
  <2>2. batch[m].what \in DgFiles
    BY <1>2, <2>1 DEF FitNews, FitTypes
  <2> QED BY <2>2 DEF Entries
<1> HIDE DEF batch
<1>3. FilesIn(batch, kind, k) \subseteq Entries
  BY <1>2 DEF FilesIn
<1> QED BY <1>3 DEF batch

LEMMA ListsType ==
  ASSUME ShapeInv, NEW n \in DOMAIN dgNews, NEW k \in DgAll
  PROVE  LET batch == SubSeq(dgNews, 1, n) IN
         /\ AttachmentNews(k, batch) \in [list : SUBSET Entries, listed : Flags]
         /\ AttachmentNews(k, batch).list =
              (dgLists[k].list \cup FilesIn(batch, "attached", k)) \ FilesIn(batch, "detached", k)
<1> DEFINE batch == SubSeq(dgNews, 1, n)
<1>1. dgLists[k] \in [list : SUBSET Entries, listed : Flags]
  BY DEF ShapeInv
<1>2. FilesIn(batch, "attached", k) \in SUBSET Entries
  BY FilesInType
<1> HIDE DEF batch
<1> DEFINE added == AddAttachments(dgLists[k], FilesIn(batch, "attached", k))
<1>3. /\ added \in [list : SUBSET Entries, listed : Flags]
      /\ added.list = dgLists[k].list \cup FilesIn(batch, "attached", k)
  BY <1>1, <1>2, AddType
<1> HIDE DEF added
<1>4. /\ RemoveAttachments(added, FilesIn(batch, "detached", k)) \in [list : SUBSET Entries, listed : Flags]
      /\ RemoveAttachments(added, FilesIn(batch, "detached", k)).list = added.list \ FilesIn(batch, "detached", k)
  BY <1>3, RemoveType
<1>5. AttachmentNews(k, batch) = RemoveAttachments(added, FilesIn(batch, "detached", k))
  BY DEF AttachmentNews, added
<1>6. /\ AttachmentNews(k, batch) \in [list : SUBSET Entries, listed : Flags]
      /\ AttachmentNews(k, batch).list =
           (dgLists[k].list \cup FilesIn(batch, "attached", k)) \ FilesIn(batch, "detached", k)
  BY <1>3, <1>4, <1>5
<1> QED BY <1>6 DEF batch

\* What a batch of news makes of a card in the store.
LEMMA FitCardNews ==
  ASSUME ShapeInv, NEW n \in DOMAIN dgNews, NEW k \in DgAll
  PROVE  CardNews(k, SubSeq(dgNews, 1, n)) \in [title : DgTitles, live : Flags]
<1> DEFINE batch == SubSeq(dgNews, 1, n)
<1>1. batch \in Seq(FitNews)
  <2>1. dgNews \in Seq(FitNews) /\ n \in 1..Len(dgNews)
    BY DEF ShapeInv
  <2> QED BY <2>1
<1>2. CASE LastNews(k, batch) = {}
  BY <1>2 DEF CardNews, ShapeInv
<1>3. CASE LastNews(k, batch) # {}
  <2> DEFINE m == CHOOSE o \in LastNews(k, batch) : TRUE
  <2>1. m \in DOMAIN batch
    BY <1>3, NewestIsNews
  <2>2. batch[m] \in FitNews
    BY <2>1, <1>1
  <2>3. batch[m].kind = "title" => batch[m].what \in DgTitles
    <3>1. FitTypes(batch[m])
      BY <2>2, Zenon DEF FitNews
    <3> HIDE DEF batch, m
    <3> QED BY <3>1 DEF FitTypes
  <2>4. dgStore[k] \in [title : DgTitles, live : Flags]
    BY DEF ShapeInv
  <2>5. CardNews(k, batch) = IF batch[m].kind = "title" THEN [title |-> batch[m].what, live |-> TRUE]
                             ELSE [dgStore[k] EXCEPT !.live = FALSE]
    BY <1>3 DEF CardNews
  <2> HIDE DEF batch, m
  <2>6. [dgStore[k] EXCEPT !.live = FALSE] \in [title : DgTitles, live : Flags]
    BY <2>4, FlagsAre
  <2>7. batch[m].kind = "title" => [title |-> batch[m].what, live |-> TRUE] \in [title : DgTitles, live : Flags]
    BY <2>3, FlagsAre
  <2>8. CardNews(k, batch) \in [title : DgTitles, live : Flags]
    BY <2>5, <2>6, <2>7, Zenon
  <2> QED BY <2>8 DEF batch
<1> QED BY <1>2, <1>3

\* What a dialog saves are requests for titles.
LEMMA SavesFit ==
  ASSUME Types, ShapeInv
  PROVE  UnmountSaves(dgDialog) \in Seq(FitRequests) /\ TitleSaves(dgDialog) \in Seq(FitRequests)
<1>1. CASE dgDialog.mounted
  <2>1. CardRequest("title", dgDialog.card, dgDialog.title) \in FitRequests
    BY <1>1, FlagsAre DEF Types, ShapeInv, CardRequest, Requests, FitRequests, FitTypes
  <2> QED BY <2>1 DEF UnmountSaves, TitleSaves
<1>2. CASE ~dgDialog.mounted
  BY <1>2 DEF UnmountSaves, TitleSaves
<1> QED BY <1>1, <1>2

LEMMA OneMoreFits ==
  ASSUME ShapeInv, NEW kind \in {"title", "attach", "detach", "delete", "template"}, NEW card \in DgAll,
         NEW what \in Values, FitTypes(CardRequest(kind, card, what))
  PROVE  Append(dgRequests, CardRequest(kind, card, what)) \in Seq(FitRequests)
<1>1. CardRequest(kind, card, what) \in FitRequests
  BY FlagsAre DEF CardRequest, Requests, FitRequests
<1> QED BY <1>1 DEF ShapeInv

\* What changes a card at the server, and tells of it.
LEMMA FitChange ==
  ASSUME ShapeInv, NEW card \in DgAll, NEW what \in Values,
         \/ Retitle(card, what) /\ what \in DgTitles
         \/ Drop(card)
         \/ (Attach(card, what) \/ Detach(card, what)) /\ what \in DgFiles
  PROVE  /\ dgServer' \in [DgAll -> [title : DgTitles, live : Flags, files : SUBSET DgFiles]]
         /\ dgNews' \in Seq(FitNews)
<1>1. dgNews \in Seq(FitNews)
  BY DEF ShapeInv
<1>2. dgServer \in [DgAll -> [title : DgTitles, live : Flags, files : SUBSET DgFiles]]
  BY DEF ShapeInv
<1>3. ASSUME NEW kind \in {"title", "gone", "attached", "detached"}, NEW w \in Values,
             FitTypes([card |-> card, kind |-> kind, what |-> w])
      PROVE  News(card, kind, w) \in Seq(FitNews)
  <2>1. [card |-> card, kind |-> kind, what |-> w] \in FitNews
    BY <1>3 DEF Newses, FitNews
  <2> QED BY <1>1, <2>1 DEF News
<1>4. "" \in Values
  BY DEF Values
<1>5. CASE Retitle(card, what) /\ what \in DgTitles
  BY <1>5, <1>2, <1>3 DEF Retitle, FitTypes
<1>6. CASE Drop(card)
  BY <1>6, <1>2, <1>3, <1>4, FlagsAre DEF Drop, FitTypes
<1>7. CASE Attach(card, what) /\ what \in DgFiles
  BY <1>7, <1>2, <1>3 DEF Attach, FitTypes
<1>8. CASE Detach(card, what) /\ what \in DgFiles
  BY <1>8, <1>2, <1>3 DEF Detach, FitTypes
<1> QED
  BY <1>5, <1>6, <1>7, <1>8

LEMMA ShapeInit == DgInit => ShapeInv
<1> SUFFICES ASSUME DgInit PROVE ShapeInv
  OBVIOUS
<1>1. DgFirstTitle \in DgTitles
  BY DgAssumption
<1>2. /\ dgServer \in [DgAll -> [title : DgTitles, live : Flags, files : SUBSET DgFiles]]
      /\ dgStore \in [DgAll -> [title : DgTitles, live : Flags]]
  BY <1>1, FlagsAre DEF DgInit
<1>3. dgLists \in [DgAll -> [list : SUBSET Entries, listed : Flags]]
  BY FlagsAre DEF DgInit
<1>4. dgUploads = <<>> /\ dgRequests = <<>> /\ dgNews = <<>>
  BY DEF DgInit
<1>5. dgDialog.title \in DgTitles /\ ~dgDialog.mounted
  BY <1>1 DEF DgInit, NoDialog
<1> QED BY <1>2, <1>3, <1>4, <1>5 DEF ShapeInv

\* Every action keeps them.
LEMMA ShapeStep == Types /\ Types' /\ ShapeInv /\ [DgNext]_dgVars => ShapeInv'
<1> SUFFICES ASSUME Types, Types', ShapeInv, [DgNext]_dgVars PROVE ShapeInv'
  OBVIOUS
<1> DEFINE ServerOK == dgServer \in [DgAll -> [title : DgTitles, live : Flags, files : SUBSET DgFiles]]
           StoreOK == dgStore \in [DgAll -> [title : DgTitles, live : Flags]]
           ListsOK == dgLists \in [DgAll -> [list : SUBSET Entries, listed : Flags]]
           DialogOK == /\ dgDialog.title \in DgTitles
                       /\ dgDialog.mounted => dgStore[dgDialog.card].live
<1>a. /\ ServerOK /\ StoreOK /\ ListsOK /\ DialogOK
      /\ dgRequests \in Seq(FitRequests) /\ dgNews \in Seq(FitNews) /\ dgUploads \in Seq(FitUploads)
  BY DEF ShapeInv
<1>b. dgRequests \o UnmountSaves(dgDialog) \in Seq(FitRequests)
  BY <1>a, SavesFit
<1>c. NoDialog.title \in DgTitles /\ ~NoDialog.mounted /\ DgFirstTitle \in DgTitles
  BY DgAssumption DEF NoDialog
<1>1. CASE OpenCardDialog
  <2>1. PICK k \in DgAll : dgStore[k].live /\ Show(k)
    BY <1>1 DEF OpenCardDialog
  <2>2. dgStore[k] \in [title : DgTitles, live : Flags]
    BY <1>a
  <2>3. dgDialog' = [card |-> k, mounted |-> TRUE, title |-> dgStore[k].title, serverTitle |-> dgStore[k].title]
    BY <2>1, FirstCard DEF Show, Mounted
  <2>4. dgRequests' \in Seq(FitRequests)
    BY <2>1, <1>b DEF Show
  <2>5. UNCHANGED <<dgServer, dgStore, dgLists, dgUploads, dgNews>>
    BY <1>1 DEF OpenCardDialog
  <2>6. dgDialog'.title \in DgTitles /\ dgStore'[dgDialog'.card].live
    BY <2>1, <2>2, <2>3, <2>5
  <2> QED BY <2>4, <2>5, <2>6, <1>a DEF ShapeInv
<1>2. CASE CloseCard
  <2>1. dgDialog' = NoDialog
    BY <1>2 DEF CloseCard, Show, Mounted, NoDialog
  <2>2. dgRequests' \in Seq(FitRequests)
    BY <1>2, <1>b DEF CloseCard, Show
  <2>3. UNCHANGED <<dgServer, dgStore, dgLists, dgUploads, dgNews>>
    BY <1>2 DEF CloseCard
  <2> QED BY <2>1, <2>2, <2>3, <1>a, <1>c DEF ShapeInv
<1>3. CASE TypeTitle
  <2>1. PICK t \in DgTitles \ {dgDialog.title} :
          dgDialog' = FollowTitle([dgDialog EXCEPT !.title = t], dgStore[dgDialog.card].title)
    BY <1>3 DEF TypeTitle
  <2>2. dgDialog.mounted /\ UNCHANGED <<dgServer, dgStore, dgLists, dgUploads, dgRequests, dgNews>>
    BY <1>3 DEF TypeTitle
  <2>3. dgStore[dgDialog.card].title \in DgTitles /\ dgStore[dgDialog.card].live
    BY <2>2, <1>a DEF Types
  <2>4. dgDialog'.title \in DgTitles /\ dgDialog'.card = dgDialog.card
    BY <2>1, <2>3 DEF FollowTitle, Types
  <2> QED BY <2>2, <2>3, <2>4, <1>a DEF ShapeInv
<1>4. CASE SaveTitle
  BY <1>4, <1>a, <1>b DEF SaveTitle, UnmountSaves, ShapeInv
<1>5. CASE ChooseFile
  <2> DEFINE n == dgPast.files + 1
             card == dgDialog.card
  <2>1. /\ card \in DgAll /\ dgPast.files < DgMaxFiles
        /\ dgUploads' = Append(dgUploads, [card |-> card, file |-> n, failed |-> FALSE])
        /\ dgLists' = [dgLists EXCEPT ![card] = AddAttachments(@, {<<"uploading", n>>})]
        /\ UNCHANGED <<dgServer, dgStore, dgDialog, dgRequests, dgNews>>
    BY <1>5 DEF ChooseFile, Types
  <2>2. n \in DgFiles
    BY <2>1, FileNumber
  <2> HIDE DEF n, card
  <2>3. [card |-> card, file |-> n, failed |-> FALSE] \in FitUploads
    BY <2>1, <2>2, FlagsAre DEF FitUploads
  <2>4. {<<"uploading", n>>} \in SUBSET Entries
    BY <2>2 DEF Entries
  <2>5. AddAttachments(dgLists[card], {<<"uploading", n>>}) \in [list : SUBSET Entries, listed : Flags]
    BY <2>1, <2>4, <1>a, AddType
  <2>6. ListsOK'
    BY <2>1, <2>5, <1>a
  <2>7. dgUploads' \in Seq(FitUploads)
    BY <2>1, <2>3, <1>a
  <2> QED BY <2>1, <2>6, <2>7, <1>a DEF ShapeInv
<1>6. CASE EndUpload
  <2>1. PICK i \in DOMAIN dgUploads : EndUpload!1!(i)
    BY <1>6 DEF EndUpload
  <2> DEFINE u == dgUploads[i]
  <2>2. UNCHANGED <<dgServer, dgStore, dgDialog, dgNews>>
    BY <1>6 DEF EndUpload
  <2>3. u \in FitUploads /\ u.card \in DgAll /\ u.file \in DgFiles
    <3>1. u \in FitUploads
      BY <2>1, <1>a
    <3> QED BY <3>1 DEF FitUploads
  <2>4. CASE /\ dgUploads' = RemoveAt(dgUploads, i)
             /\ dgLists' = [dgLists EXCEPT ![u.card] = RemoveAttachments(@, {<<"uploading", u.file>>})]
             /\ dgRequests' = Append(dgRequests, CardRequest("attach", UploadTarget(u), u.file))
    <3>1. dgUploads' \in Seq(FitUploads)
      BY <2>1, <2>4, <1>a, RemoveAtType
    <3>2. RemoveAttachments(dgLists[u.card], {<<"uploading", u.file>>}) \in [list : SUBSET Entries, listed : Flags]
      BY <2>3, <1>a, RemoveType
    <3> HIDE DEF u
    <3>3. ListsOK'
      BY <2>3, <2>4, <3>2, <1>a
    <3>4. u.file \in Values
      BY <2>3, FilesAreValues
    <3>5. dgRequests' \in Seq(FitRequests)
      BY <2>3, <2>4, <3>4, OneMoreFits DEF UploadTarget, FitTypes, CardRequest
    <3> QED BY <3>1, <3>3, <3>5, <2>2, <1>a DEF ShapeInv
  <2>5. CASE dgUploads' = [dgUploads EXCEPT ![i].failed = TRUE] /\ UNCHANGED <<dgLists, dgRequests>>
    <3>1. [u EXCEPT !.failed = TRUE] \in FitUploads
      BY <2>3, FlagsAre DEF FitUploads
    <3>2. dgUploads' \in Seq(FitUploads)
      BY <3>1, <2>5, <1>a
    <3> QED BY <3>2, <2>2, <2>5, <1>a DEF ShapeInv
  <2> QED BY <2>1, <2>4, <2>5
<1>7. CASE DeleteAttachment
  <2>1. PICK f \in DgFiles : dgRequests' = Append(dgRequests, CardRequest("detach", dgDialog.card, f))
    BY <1>7 DEF DeleteAttachment, DgFiles
  <2>2. f \in Values /\ dgDialog.card \in DgAll
    BY <2>1, <1>7, FilesAreValues DEF DeleteAttachment, Types
  <2>3. dgRequests' \in Seq(FitRequests)
    BY <2>1, <2>2, OneMoreFits DEF FitTypes, CardRequest
  <2> QED BY <1>7, <2>3, <1>a DEF DeleteAttachment, ShapeInv
<1>8. CASE DeleteCard \/ MakeTemplate
  <2>1. dgDialog.card \in DgAll /\ "" \in Values
    BY <1>8 DEF DeleteCard, MakeTemplate, Types, Values
  <2>2. dgRequests' \in Seq(FitRequests)
    BY <1>8, <2>1, OneMoreFits DEF DeleteCard, MakeTemplate, FitTypes, CardRequest
  <2> QED BY <1>8, <2>2, <1>a DEF DeleteCard, MakeTemplate, ShapeInv
<1>9. CASE AnswerDialog
  <2>1. PICK i \in DOMAIN dgRequests : AnswerDialog!1!(i)
    BY <1>9 DEF AnswerDialog
  <2>2. RemoveAt(dgRequests, i) \in Seq(FitRequests)
    BY <2>1, <1>a, RemoveAtType
  <2>3. dgRequests' \in Seq(FitRequests)
    BY <2>1, <2>2, SavesFit
  <2>4. StoreOK' /\ DialogOK'
    <3>1. CASE dgRequests[i].kind = "template"
      <4>1. /\ dgStore' = [dgStore EXCEPT ![DgTemplate] = [live |-> TRUE, title |-> DgFirstTitle]]
            /\ dgDialog' = [card |-> DgTemplate, mounted |-> TRUE,
                  title |-> dgStore'[DgTemplate].title, serverTitle |-> dgStore'[DgTemplate].title]
        BY <2>1, <3>1
      <4>2. StoreOK' /\ dgStore'[DgTemplate] = [live |-> TRUE, title |-> DgFirstTitle]
        BY <4>1, <1>a, <1>c, FirstCard, FlagsAre
      <4>3. dgDialog'.card = DgTemplate /\ dgDialog'.title = dgStore'[DgTemplate].title
        BY <4>1
      <4> QED BY <4>2, <4>3, <1>c
    <3>2. CASE dgRequests[i].kind # "template"
      <4>1. dgDialog' = NoDialog /\ dgStore' = dgStore
        BY <2>1, <3>2
      <4> QED BY <4>1, <1>a, <1>c
    <3> QED BY <3>1, <3>2
  <2>5. UNCHANGED <<dgServer, dgLists, dgUploads, dgNews>>
    BY <1>9 DEF AnswerDialog
  <2> QED BY <2>3, <2>4, <2>5, <1>a DEF ShapeInv
<1>10. CASE ServeCardRequest
  <2>1. PICK i \in DOMAIN dgRequests : ServeCardRequest!1!(i)
    BY <1>10 DEF ServeCardRequest
  <2> DEFINE r == dgRequests[i]
  <2>2. r \in FitRequests /\ r \in Requests /\ FitTypes(r) /\ r.card \in DgAll /\ r.what \in Values
    BY <2>1, <1>a DEF FitRequests, Requests
  <2>3. dgRequests' \in Seq(FitRequests)
    <3>1. CASE AnsweredAtOnce(i)
      BY <3>1, <2>1, <1>a, RemoveAtType DEF AnsweredAtOnce
    <3>2. CASE AwaitAnswer(i)
      <4>1. [r EXCEPT !.served = TRUE] \in FitRequests
        BY <2>2, FlagsAre DEF FitRequests, Requests, FitTypes
      <4> QED BY <3>2, <4>1, <1>a DEF AwaitAnswer
    <3> QED BY <2>1, <3>1, <3>2
  <2>4. UNCHANGED <<dgStore, dgLists, dgDialog, dgUploads>>
    BY <1>10 DEF ServeCardRequest
  <2>5. ServerOK' /\ dgNews' \in Seq(FitNews)
    <3>1. CASE Retitle(r.card, r.what) /\ r.kind = "title"
      <4>1. r.what \in DgTitles
        <5>1. FitTypes(r) /\ r.kind = "title"
          BY <2>2, <3>1
        <5> HIDE DEF r
        <5> QED BY <5>1 DEF FitTypes
      <4> HIDE DEF r
      <4> QED BY <3>1, <4>1, <2>2, FitChange
    <3>2. CASE Drop(r.card)
      BY <3>2, <2>2, FitChange
    <3>3. CASE (Attach(r.card, r.what) \/ Detach(r.card, r.what)) /\ r.kind \in {"attach", "detach"}
      <4>1. r.what \in DgFiles
        BY <2>2, <3>3 DEF FitTypes
      <4> QED BY <3>3, <4>1, <2>2, FitChange
    <3>4. CASE UNCHANGED <<dgServer, dgNews>>
      BY <3>4, <1>a
    <3>5. CASE /\ dgServer' = [dgServer EXCEPT ![DgTemplate] = [@ EXCEPT !.live = TRUE]]
               /\ dgNews' = News(DgTemplate, "title", DgFirstTitle)
      <4>1. ServerOK'
        <5> DEFINE yes == TRUE
                   row == [dgServer[DgTemplate] EXCEPT !.live = yes]
        <5>1. yes \in Flags /\ DgTemplate \in DgAll
          BY FirstCard, FlagsAre
        <5>2. dgServer' = [dgServer EXCEPT ![DgTemplate] = row]
          BY <3>5
        <5> HIDE DEF yes
        <5>4. dgServer[DgTemplate] \in [title : DgTitles, live : Flags, files : SUBSET DgFiles]
          BY <5>1, <1>a
        <5>3. row \in [title : DgTitles, live : Flags, files : SUBSET DgFiles]
          BY <5>1, <5>4
        <5> HIDE DEF row
        <5> QED BY <5>1, <5>2, <5>3, <1>a
      <4> DEFINE new == [card |-> DgTemplate, kind |-> "title", what |-> DgFirstTitle]
      <4>5. new \in Newses
        BY <1>c, FirstCard DEF Newses
      <4>6. FitTypes(new)
        BY <1>c, FirstCard DEF FitTypes
      <4>2. new \in FitNews
        BY <4>5, <4>6, Zenon DEF FitNews
      <4>3. dgNews' = Append(dgNews, [card |-> DgTemplate, kind |-> "title", what |-> DgFirstTitle])
        BY <3>5 DEF News
      <4>4. dgNews' \in Seq(FitNews)
        BY <4>2, <4>3, <1>a
      <4> QED BY <4>1, <4>4
    <3> QED BY <2>1, <3>1, <3>2, <3>3, <3>4, <3>5
  <2> QED BY <2>3, <2>4, <2>5, <1>a DEF ShapeInv
<1>11. CASE OthersChange
  <2>1. PICK k \in DgCards : OthersChange!2!(k)
    BY <1>11 DEF OthersChange
  <2>2. k \in DgAll /\ UNCHANGED <<dgStore, dgLists, dgDialog, dgUploads, dgRequests>>
    BY <1>11 DEF OthersChange, DgAll
  <2>3. CASE \E t \in DgTitles : Retitle(k, t)
    <3>1. PICK t \in DgTitles : Retitle(k, t)
      BY <2>3
    <3>2. t \in Values
      BY DEF Values
    <3> QED BY <3>1, <3>2, <2>2, <1>a, FitChange DEF ShapeInv
  <2>4. CASE dgPast.files < DgMaxFiles /\ Attach(k, dgPast.files + 1)
    <3>1. dgPast.files + 1 \in DgFiles /\ dgPast.files + 1 \in Values
      BY <2>4, FileNumber, FilesAreValues
    <3> QED BY <2>4, <3>1, <2>2, <1>a, FitChange DEF ShapeInv
  <2>5. CASE Drop(k)
    <3>1. "" \in Values
      BY DEF Values
    <3> QED BY <2>5, <3>1, <2>2, <1>a, FitChange DEF ShapeInv
  <2> QED BY <2>1, <2>3, <2>4, <2>5
<1>12. CASE DeliverNews
  <2>1. PICK n \in DOMAIN dgNews : DeliverNews!1!(n)
    BY <1>12 DEF DeliverNews
  <2>2. StoreOK'
    <3>1. dgStore' = [k \in DgAll |-> CardNews(k, SubSeq(dgNews, 1, n))]
      BY <2>1
    <3> QED BY <3>1, FitCardNews
  <2>3. ListsOK'
    <3>1. dgLists' = [k \in DgAll |-> AttachmentNews(k, SubSeq(dgNews, 1, n))]
      BY <2>1
    <3> QED BY <3>1, ListsType
  <2>4. dgNews' \in Seq(FitNews)
    BY <2>1, <1>a
  <2>5. dgRequests' \in Seq(FitRequests)
    BY <2>1, <1>a, <1>b
  <2>6. DialogOK'
    <3>1. CASE ~dgDialog.mounted /\ UNCHANGED dgDialog
      BY <3>1, <1>a
    <3>2. CASE /\ dgDialog.mounted /\ dgStore'[dgDialog.card].live
               /\ dgDialog' = FollowTitle(dgDialog, dgStore'[dgDialog.card].title)
      <4>1. dgStore'[dgDialog.card].title \in DgTitles
        BY <3>2, <2>2 DEF Types
      <4>2. dgDialog'.title \in DgTitles /\ dgDialog'.card = dgDialog.card
        BY <3>2, <4>1, <1>a DEF FollowTitle, Types
      <4> QED BY <3>2, <4>2
    <3>3. CASE dgDialog' = [NoDialog EXCEPT !.card = dgDialog.card]
      BY <3>3, <1>c DEF NoDialog
    <3> QED BY <2>1, <3>1, <3>2, <3>3
  <2>7. UNCHANGED <<dgServer, dgUploads>>
    BY <1>12 DEF DeliverNews
  <2> QED BY <2>2, <2>3, <2>4, <2>5, <2>6, <2>7, <1>a DEF ShapeInv
<1>13. CASE UNCHANGED dgVars
  BY <1>13 DEF dgVars, ShapeInv
<1> QED
  BY <1>1, <1>2, <1>3, <1>4, <1>5, <1>6, <1>7, <1>8, <1>9, <1>10, <1>11, <1>12, <1>13 DEF DgNext

----------------------------------------------------------------------------
(***************************************************************************)
(* The uploads of a list are those under way or refused; its files are      *)
(* those of the server, but for what the news that are still to come say.   *)
(***************************************************************************)
Uploaded(k, f) == \E i \in DOMAIN dgUploads : dgUploads[i].card = k /\ dgUploads[i].file = f
Listed(k, f) == <<"file", f>> \in dgLists[k].list

UploadsInv ==
  /\ \A i \in DOMAIN dgUploads : dgUploads[i].file <= dgPast.files
  /\ \A i, j \in DOMAIN dgUploads : dgUploads[i].file = dgUploads[j].file => i = j
  /\ \A k \in DgAll, f \in DgFiles : <<"uploading", f>> \in dgLists[k].list <=> Uploaded(k, f)

About(news, k, f) == news.kind \in {"attached", "detached"} /\ news.card = k /\ news.what = f

\* The last piece of news about a file, or else the list, is right.
AllTold(news, k, f) ==
  /\ (\A m \in DOMAIN news : ~About(news[m], k, f)) => (Listed(k, f) <=> f \in dgServer[k].files)
  /\ \A m \in DOMAIN news :
       About(news[m], k, f) /\ (\A o \in DOMAIN news : o > m => ~About(news[o], k, f)) =>
         (news[m].kind = "attached" <=> f \in dgServer[k].files)

ToldInv == ~dgPast.cut => \A k \in DgAll, f \in DgFiles : AllTold(dgNews, k, f)

\* What a batch of news attaches and detaches are files.
LEMMA FilesInFiles ==
  ASSUME NEW batch, NEW kind, NEW k, NEW f
  PROVE  <<"uploading", f>> \notin FilesIn(batch, kind, k)
BY DEF FilesIn

\* The history counts files when they are chosen, and is cut by a batch of news.
LEMMA PastStep ==
  ASSUME Types, [DgNext]_dgVars
  PROVE  \/ dgPast'.files = dgPast.files /\ dgPast'.cut = dgPast.cut
         \/ ChooseFile \/ OthersChange \/ DeliverNews
<1> DEFINE Same(past) == past.files = dgPast.files /\ past.cut = dgPast.cut
<1>1. dgPast \in Pasts
  BY DEF Types
<1>2. ASSUME NEW past \in Pasts, NEW requests, Same(past)
      PROVE  NoteSaves(past, requests) \in Pasts /\ Same(NoteSaves(past, requests))
  BY <1>2, NoteSavesType DEF NoteSaves, Pasts
<1>3. ASSUME NEW past \in Pasts, Same(past), DgStep(past)
      PROVE  Same(dgPast')
  BY <1>3 DEF DgStep, Pasts
<1>4. ASSUME NEW t, DgStep([dgPast EXCEPT !.typed[dgDialog.card] = t])
      PROVE  Same(dgPast')
  BY <1>1, <1>4 DEF DgStep, Pasts
<1>5. CASE OpenCardDialog \/ DeleteAttachment \/ DeleteCard \/ MakeTemplate
  BY <1>1, <1>3, <1>5 DEF OpenCardDialog, DeleteAttachment, DeleteCard, MakeTemplate
<1>6. CASE CloseCard \/ AnswerDialog
  <2>1. dgPast' = NoteSaves(dgPast, UnmountSaves(dgDialog))
    BY <1>6 DEF CloseCard, AnswerDialog
  <2>2. Same(dgPast)
    OBVIOUS
  <2> HIDE DEF Same
  <2>3. Same(dgPast')
    BY <1>1, <1>2, <2>1, <2>2
  <2> QED BY <2>3 DEF Same
<1>7. CASE TypeTitle
  BY <1>4, <1>7 DEF TypeTitle
<1>8. CASE SaveTitle
  <2>1. DgStep(NoteSaves(dgPast, TitleSaves(dgDialog)))
    BY <1>8 DEF SaveTitle
  <2>2. NoteSaves(dgPast, TitleSaves(dgDialog)) \in Pasts /\ Same(NoteSaves(dgPast, TitleSaves(dgDialog)))
    BY <1>1, <1>2
  <2> QED BY <2>1, <2>2, <1>3
<1>9. CASE EndUpload \/ UNCHANGED dgVars
  BY <1>9 DEF EndUpload, dgVars
<1>10. CASE ServeCardRequest
  <2>1. PICK i \in DOMAIN dgRequests : ServeCardRequest!1!(i)
    BY <1>10 DEF ServeCardRequest
  <2> DEFINE r == dgRequests[i]
  <2>2. \/ dgPast' = [dgPast EXCEPT !.seen[r.card] = @ \cup {r.what}]
        \/ dgPast' = [dgPast EXCEPT !.refused = @ \cup {r.card}]
        \/ dgPast' = dgPast
    BY <2>1 DEF NoteSeen
  <2> QED BY <1>1, <2>2 DEF Pasts
<1> QED
  BY <1>5, <1>6, <1>7, <1>8, <1>9, <1>10 DEF DgNext

LEMMA UploadsStep == Types /\ ShapeInv /\ UploadsInv /\ [DgNext]_dgVars => UploadsInv'
<1> SUFFICES ASSUME Types, ShapeInv, UploadsInv, [DgNext]_dgVars PROVE UploadsInv'
  OBVIOUS
<1>a. dgPast \in Pasts /\ dgPast.files \in Nat
  BY DEF Types, Pasts
<1>b. dgUploads \in Seq(FitUploads)
  BY DEF ShapeInv
<1>c. \A i \in DOMAIN dgUploads : dgUploads[i] \in FitUploads /\ dgUploads[i].file \in DgFiles /\ dgUploads[i].file \in Nat
  <2>1. \A i \in DOMAIN dgUploads : dgUploads[i] \in FitUploads
    BY <1>b
  <2>2. \A f \in DgFiles : f \in Nat
    <3>1. DgMaxFiles \in Nat
      BY DgAssumption
    <3> QED BY <3>1 DEF DgFiles
  <2> QED BY <2>1, <2>2 DEF FitUploads
<1>d. /\ \A i \in DOMAIN dgUploads : dgUploads[i].file <= dgPast.files
      /\ \A i, j \in DOMAIN dgUploads : dgUploads[i].file = dgUploads[j].file => i = j
      /\ \A k \in DgAll, f \in DgFiles : <<"uploading", f>> \in dgLists[k].list <=> Uploaded(k, f)
  BY DEF UploadsInv
<1>e. \A k \in DgAll : dgLists[k] \in [list : SUBSET Entries, listed : Flags]
  BY DEF ShapeInv
<1>f. dgLists \in [DgAll -> [list : SUBSET Entries, listed : Flags]]
  BY DEF ShapeInv
<1>1. ASSUME UNCHANGED <<dgUploads, dgLists>>, dgPast'.files \in Nat, dgPast'.files >= dgPast.files
      PROVE  UploadsInv'
  <2>1. \A i \in DOMAIN dgUploads : dgUploads[i].file <= dgPast'.files
    BY <1>1, <1>a, <1>c, <1>d
  <2> QED BY <1>1, <1>d, <2>1 DEF UploadsInv, Uploaded
<1>2. CASE ChooseFile
  <2> DEFINE n == dgPast.files + 1
             card == dgDialog.card
             u == [card |-> card, file |-> n, failed |-> FALSE]
  <2>1. /\ card \in DgAll /\ dgPast.files < DgMaxFiles /\ dgUploads' = Append(dgUploads, u)
        /\ dgLists' = [dgLists EXCEPT ![card] = AddAttachments(@, {<<"uploading", n>>})]
    BY <1>2 DEF ChooseFile, Types
  <2>2. n \in DgFiles /\ n \in Nat /\ n > dgPast.files
    BY <2>1, <1>a, FileNumber
  <2>3. dgPast'.files = n
    BY <1>2, <1>a DEF ChooseFile, DgStep, Pasts
  <2>4. u.card = card /\ u.file = n
    OBVIOUS
  <2> HIDE DEF n, card, u
  <2>5. /\ Len(dgUploads') = Len(dgUploads) + 1 /\ dgUploads'[Len(dgUploads) + 1] = u
        /\ \A i \in DOMAIN dgUploads : i \in DOMAIN dgUploads' /\ dgUploads'[i] = dgUploads[i]
        /\ \A i \in DOMAIN dgUploads' : i = Len(dgUploads) + 1 \/ i \in DOMAIN dgUploads
        /\ Len(dgUploads) + 1 \in DOMAIN dgUploads'
    BY <2>1, <1>b
  <2>6. \A i \in DOMAIN dgUploads' : dgUploads'[i].file <= dgPast'.files
    BY <2>2, <2>3, <2>4, <2>5, <1>a, <1>c, <1>d
  <2>7. \A i, j \in DOMAIN dgUploads' : dgUploads'[i].file = dgUploads'[j].file => i = j
    BY <2>2, <2>4, <2>5, <1>a, <1>c, <1>d
  <2>8. ASSUME NEW k \in DgAll, NEW f \in DgFiles
        PROVE  <<"uploading", f>> \in dgLists'[k].list <=> Uploaded(k, f)'
    <3>1. Uploaded(k, f)' <=> Uploaded(k, f) \/ (k = card /\ f = n)
      BY <2>4, <2>5 DEF Uploaded
    <3>2. {<<"uploading", n>>} \in SUBSET Entries
      BY <2>2 DEF Entries
    <3>3. dgLists'[card].list = dgLists[card].list \cup {<<"uploading", n>>}
      BY <2>1, <3>2, <1>e, <1>f, AddType
    <3>4. k # card => dgLists'[k] = dgLists[k]
      BY <2>1, <1>f
    <3> QED BY <3>1, <3>3, <3>4, <1>d
  <2> QED BY <2>6, <2>7, <2>8 DEF UploadsInv
<1>3. CASE EndUpload
  <2>1. PICK i \in DOMAIN dgUploads : EndUpload!1!(i)
    BY <1>3 DEF EndUpload
  <2>2. dgPast' = dgPast
    BY <1>3 DEF EndUpload
  <2> DEFINE u == dgUploads[i]
  <2>3. u.card \in DgAll /\ u.file \in DgFiles
    BY <2>1, <1>c DEF FitUploads
  <2>4. CASE /\ dgUploads' = RemoveAt(dgUploads, i)
             /\ dgLists' = [dgLists EXCEPT ![u.card] = RemoveAttachments(@, {<<"uploading", u.file>>})]
    <3>1. /\ dgUploads' \in Seq(FitUploads) /\ Len(dgUploads') = Len(dgUploads) - 1
          /\ \A j \in 1..Len(dgUploads') : dgUploads'[j] = IF j < i THEN dgUploads[j] ELSE dgUploads[j + 1]
      BY <2>1, <2>4, <1>b, RemoveAtType, RemoveAtPlaces
    <3> DEFINE Old(j) == IF j < i THEN j ELSE j + 1
    <3>0. /\ DOMAIN dgUploads' = 1..(Len(dgUploads) - 1) /\ DOMAIN dgUploads = 1..Len(dgUploads)
          /\ Len(dgUploads) \in Nat /\ i \in 1..Len(dgUploads)
      BY <2>1, <3>1, <1>b
    <3>2. \A j \in DOMAIN dgUploads' : Old(j) \in DOMAIN dgUploads /\ Old(j) # i /\ dgUploads'[j] = dgUploads[Old(j)]
      BY <3>0, <3>1
    <3>3. \A j, k \in DOMAIN dgUploads' : Old(j) = Old(k) => j = k
      BY <3>0
    <3> HIDE DEF Old
    <3>4. \A k \in DOMAIN dgUploads \ {i} : \E j \in DOMAIN dgUploads' : dgUploads'[j] = dgUploads[k]
      BY <2>1, <2>4, <1>b, RemoveAtElements
    <3>5. \A j \in DOMAIN dgUploads' : dgUploads'[j].file <= dgPast'.files
      BY <3>2, <2>2, <1>d
    <3>6. \A j, k \in DOMAIN dgUploads' : dgUploads'[j].file = dgUploads'[k].file => j = k
      BY <3>2, <3>3, <1>d
    <3>7. ASSUME NEW k \in DgAll, NEW f \in DgFiles
          PROVE  <<"uploading", f>> \in dgLists'[k].list <=> Uploaded(k, f)'
      <4>1. f # u.file => (Uploaded(k, f)' <=> Uploaded(k, f))
        BY <3>2, <3>4 DEF Uploaded
      <4>2. f = u.file => ~Uploaded(k, f)'
        BY <2>1, <3>2, <1>d DEF Uploaded
      <4>3. f = u.file /\ k # u.card => ~Uploaded(k, f)
        BY <2>1, <1>d DEF Uploaded
      <4> HIDE DEF u
      <4>4. dgLists'[u.card].list = dgLists[u.card].list \ {<<"uploading", u.file>>}
        BY <2>3, <2>4, <1>e, <1>f, RemoveType
      <4>5. k # u.card => dgLists'[k] = dgLists[k]
        BY <2>3, <2>4, <1>f
      <4>6. k = u.card => (<<"uploading", f>> \in dgLists'[k].list <=> <<"uploading", f>> \in dgLists[k].list /\ f # u.file)
        BY <4>4
      <4> QED BY <4>1, <4>2, <4>3, <4>5, <4>6, <1>d
    <3> QED BY <3>5, <3>6, <3>7 DEF UploadsInv
  <2>5. CASE dgUploads' = [dgUploads EXCEPT ![i].failed = TRUE] /\ UNCHANGED <<dgLists, dgRequests>>
    <3>1. \A j \in DOMAIN dgUploads' : /\ j \in DOMAIN dgUploads /\ dgUploads'[j].file = dgUploads[j].file
                                       /\ dgUploads'[j].card = dgUploads[j].card
      BY <2>5, <1>c, <1>b DEF FitUploads
    <3>2. DOMAIN dgUploads' = DOMAIN dgUploads
      BY <2>5, <1>b
    <3>3. \A k, f : Uploaded(k, f)' <=> Uploaded(k, f)
      BY <3>1, <3>2 DEF Uploaded
    <3> QED BY <2>2, <2>5, <3>1, <3>2, <3>3, <1>d DEF UploadsInv
  <2> QED BY <2>1, <2>4, <2>5
<1>4. CASE DeliverNews
  <2>1. PICK n \in DOMAIN dgNews : DeliverNews!1!(n)
    BY <1>4 DEF DeliverNews
  <2>2. dgUploads' = dgUploads
    BY <1>4 DEF DeliverNews
  <2> DEFINE batch == SubSeq(dgNews, 1, n)
             files == { m \in DOMAIN batch : ForAttachments(batch[m]) }
             past  == [dgPast EXCEPT !.cut = @ \/ Cardinality(files) > 1]
  <2>3. past \in Pasts /\ past.files = dgPast.files
    <3> DEFINE cut == dgPast.cut \/ Cardinality(files) > 1
    <3>1. cut \in Flags
      BY Zenon DEF Flags
    <3> HIDE DEF files
    <3>2. past = [dgPast EXCEPT !.cut = cut]
      OBVIOUS
    <3> HIDE DEF cut
    <3> QED BY <3>1, <3>2, <1>a DEF Pasts
  <2>4. dgPast' = past \/ dgPast' = NoteSaves(past, UnmountSaves(dgDialog))
    BY <2>1
  <2>5. dgLists' = [k \in DgAll |-> AttachmentNews(k, batch)]
    BY <2>1
  <2> HIDE DEF past
  <2>6. dgPast'.files = dgPast.files
    BY <2>3, <2>4, NotedSaves
  <2>7. \A k \in DgAll : dgLists'[k].list =
          (dgLists[k].list \cup FilesIn(batch, "attached", k)) \ FilesIn(batch, "detached", k)
    BY <2>5, ListsType
  <2> HIDE DEF batch
  <2>8. \A k \in DgAll, f \in DgFiles : <<"uploading", f>> \in dgLists'[k].list <=> <<"uploading", f>> \in dgLists[k].list
    BY <2>7, FilesInFiles
  <2> QED BY <2>2, <2>6, <2>8, <1>d DEF UploadsInv, Uploaded
<1>5. CASE OthersChange
  <2>1. UNCHANGED <<dgUploads, dgLists>>
    BY <1>5 DEF OthersChange
  <2>2. dgPast'.files \in Nat /\ dgPast'.files >= dgPast.files
    <3>1. PICK k \in DgCards : OthersChange!2!(k)
      BY <1>5 DEF OthersChange
    <3>2. \/ \E t \in DgTitles : dgPast' = [dgPast EXCEPT !.others = @ + 1, !.seen[k] = @ \cup {t}]
          \/ dgPast' = [dgPast EXCEPT !.others = @ + 1, !.files = @ + 1, !.chosen = Append(@, k)]
          \/ dgPast' = [dgPast EXCEPT !.others = @ + 1]
      BY <3>1
    <3>3. ASSUME NEW t, dgPast' = [dgPast EXCEPT !.others = @ + 1, !.seen[k] = @ \cup {t}]
          PROVE  dgPast'.files = dgPast.files
      BY <3>3, <1>a DEF Pasts
    <3>4. ASSUME dgPast' = [dgPast EXCEPT !.others = @ + 1, !.files = @ + 1, !.chosen = Append(@, k)]
          PROVE  dgPast'.files = dgPast.files + 1
      BY <3>4, <1>a DEF Pasts
    <3>5. ASSUME dgPast' = [dgPast EXCEPT !.others = @ + 1]
          PROVE  dgPast'.files = dgPast.files
      BY <3>5, <1>a DEF Pasts
    <3>6. dgPast'.files = dgPast.files \/ dgPast'.files = dgPast.files + 1
      BY <3>2, <3>3, <3>4, <3>5
    <3> QED BY <3>6, <1>a
  <2> QED BY <2>1, <2>2, <1>1
<1>6. CASE dgPast'.files = dgPast.files /\ UNCHANGED <<dgUploads, dgLists>>
  <2>1. dgPast'.files \in Nat /\ dgPast'.files >= dgPast.files
    BY <1>6, <1>a
  <2> QED BY <2>1, <1>1, <1>6
<1> QED
  BY <1>2, <1>3, <1>4, <1>5, <1>6, PastStep
     DEF DgNext, dgVars, OpenCardDialog, CloseCard, TypeTitle, SaveTitle, DeleteAttachment, DeleteCard,
         MakeTemplate, AnswerDialog, ServeCardRequest

LEMMA AtMostOne ==
  ASSUME NEW n \in Nat, NEW S \in SUBSET (1..n), ~(Cardinality(S) > 1), NEW a \in S, NEW b \in S
  PROVE  a = b
<1> SUFFICES ASSUME a # b PROVE FALSE
  OBVIOUS
<1>1. IsFiniteSet(1..n)
  BY FS_Interval
<1>2. IsFiniteSet(S) /\ Cardinality(S) \in Nat
  BY <1>1, FS_Subset, FS_CardinalityType
<1>3. Cardinality({a}) = 1 /\ IsFiniteSet({a})
  BY FS_Singleton
<1>4. Cardinality({a} \cup {b}) = 2
  BY <1>3, FS_AddElement
<1>5. Cardinality({a} \cup {b}) <= Cardinality(S)
  BY <1>2, FS_Subset
<1> QED BY <1>2, <1>4, <1>5

\* A change is told by the news of it.
LEMMA ToldMore ==
  ASSUME ShapeInv, NEW k \in DgAll, NEW f \in DgFiles, NEW x, AllTold(dgNews, k, f), UNCHANGED dgLists,
         dgNews' = Append(dgNews, x),
         About(x, k, f) => (x.kind = "attached" <=> f \in dgServer'[k].files),
         ~About(x, k, f) => (f \in dgServer'[k].files <=> f \in dgServer[k].files)
  PROVE  AllTold(dgNews, k, f)'
<1>1. dgNews \in Seq(FitNews)
  BY DEF ShapeInv
<1>2. /\ \A m \in DOMAIN dgNews : m \in DOMAIN dgNews' /\ dgNews'[m] = dgNews[m] /\ Len(dgNews) + 1 > m
      /\ Len(dgNews) + 1 \in DOMAIN dgNews' /\ dgNews'[Len(dgNews) + 1] = x
      /\ \A m \in DOMAIN dgNews' : m = Len(dgNews) + 1 \/ m \in DOMAIN dgNews
      /\ \A m \in DOMAIN dgNews' : ~(m > Len(dgNews) + 1)
  BY <1>1
<1>3. CASE About(x, k, f)
  BY <1>2, <1>3 DEF AllTold
<1>4. CASE ~About(x, k, f)
  <2>1. (\A m \in DOMAIN dgNews' : ~About(dgNews'[m], k, f)) => \A m \in DOMAIN dgNews : ~About(dgNews[m], k, f)
    BY <1>2
  <2>2. ASSUME NEW m \in DOMAIN dgNews', About(dgNews'[m], k, f),
               \A o \in DOMAIN dgNews' : o > m => ~About(dgNews'[o], k, f)
        PROVE  dgNews'[m].kind = "attached" <=> f \in dgServer'[k].files
    <3>1. m \in DOMAIN dgNews /\ dgNews'[m] = dgNews[m]
      BY <1>2, <1>4, <2>2
    <3>2. \A o \in DOMAIN dgNews : o > m => ~About(dgNews[o], k, f)
      BY <1>2, <2>2
    <3> QED BY <1>4, <2>2, <3>1, <3>2 DEF AllTold
  <2> QED BY <1>4, <2>1, <2>2 DEF AllTold, Listed
<1> QED BY <1>3, <1>4

\* A batch of news with at most one of an attachment brings the list up to date.
LEMMA ToldDelivered ==
  ASSUME ShapeInv, NEW n \in DOMAIN dgNews, NEW k \in DgAll, NEW f \in DgFiles, AllTold(dgNews, k, f),
         UNCHANGED dgServer, dgNews' = SubSeq(dgNews, n + 1, Len(dgNews)),
         dgLists' = [c \in DgAll |-> AttachmentNews(c, SubSeq(dgNews, 1, n))],
         ~(Cardinality({ m \in DOMAIN SubSeq(dgNews, 1, n) : ForAttachments(SubSeq(dgNews, 1, n)[m]) }) > 1)
  PROVE  AllTold(dgNews, k, f)'
<1> DEFINE batch == SubSeq(dgNews, 1, n)
           S == { m \in DOMAIN batch : ForAttachments(batch[m]) }
<1>1. dgNews \in Seq(FitNews) /\ n \in 1..Len(dgNews) /\ Len(dgNews) \in Nat
  BY DEF ShapeInv
<1>2. /\ DOMAIN batch = 1..n /\ \A m \in 1..n : batch[m] = dgNews[m]
      /\ DOMAIN dgNews' = 1..(Len(dgNews) - n) /\ \A m \in 1..(Len(dgNews) - n) : dgNews'[m] = dgNews[n + m]
      /\ DOMAIN dgNews = 1..Len(dgNews) /\ batch \in Seq(FitNews)
  BY <1>1
<1>3. ASSUME NEW a \in DOMAIN batch, NEW b \in DOMAIN batch, ForAttachments(batch[a]), ForAttachments(batch[b])
      PROVE  a = b
  <2>1. S \in SUBSET (1..n) /\ a \in S /\ b \in S
    BY <1>2, <1>3
  <2>2. ~(Cardinality(S) > 1)
    OBVIOUS
  <2>3. n \in Nat
    BY <1>1
  <2> HIDE DEF S
  <2> QED BY <2>1, <2>2, <2>3, AtMostOne, Zenon
<1>4. dgLists'[k].list = (dgLists[k].list \cup FilesIn(batch, "attached", k)) \ FilesIn(batch, "detached", k)
  BY ListsType
<1>5. \A news : About(news, k, f) => ForAttachments(news)
  BY DEF About, ForAttachments
<1> HIDE DEF batch, S
<1>6. ASSUME NEW m \in DOMAIN dgNews', About(dgNews'[m], k, f),
             \A o \in DOMAIN dgNews' : o > m => ~About(dgNews'[o], k, f)
      PROVE  dgNews'[m].kind = "attached" <=> f \in dgServer'[k].files
  <2>1. n + m \in DOMAIN dgNews /\ dgNews'[m] = dgNews[n + m]
    BY <1>1, <1>2
  <2>2. ASSUME NEW o \in DOMAIN dgNews, o > n + m
        PROVE  ~About(dgNews[o], k, f)
    <3>1. o - n \in DOMAIN dgNews' /\ o - n > m /\ n + (o - n) = o
      BY <1>1, <1>2, <2>2
    <3>2. dgNews'[o - n] = dgNews[o]
      BY <1>2, <3>1
    <3> QED BY <1>6, <3>1, <3>2
  <2> QED BY <1>6, <2>1, <2>2 DEF AllTold
<1>7. ASSUME \A m \in DOMAIN dgNews' : ~About(dgNews'[m], k, f)
      PROVE  Listed(k, f)' <=> f \in dgServer'[k].files
  <2>0. \A o \in DOMAIN dgNews : o \in DOMAIN batch \/ ~About(dgNews[o], k, f)
    <3> SUFFICES ASSUME NEW o \in DOMAIN dgNews, o > n PROVE ~About(dgNews[o], k, f)
      BY <1>1, <1>2
    <3>1. o - n \in DOMAIN dgNews' /\ n + (o - n) = o
      BY <1>1, <1>2
    <3>2. dgNews'[o - n] = dgNews[o]
      BY <1>2, <3>1
    <3> QED BY <1>7, <3>1, <3>2
  <2>1. CASE \E m \in DOMAIN batch : About(batch[m], k, f)
    <3>1. PICK m \in DOMAIN batch : About(batch[m], k, f)
      BY <2>1
    <3>2. m \in DOMAIN dgNews /\ dgNews[m] = batch[m] /\ m \in Int
      BY <1>1, <1>2
    <3>3. ASSUME NEW o \in DOMAIN dgNews, o > m, About(dgNews[o], k, f)
          PROVE  FALSE
      <4>1. o \in DOMAIN batch /\ batch[o] = dgNews[o]
        BY <1>2, <2>0, <3>3
      <4>2. o = m
        BY <1>3, <1>5, <3>1, <3>3, <4>1
      <4> QED BY <3>2, <3>3, <4>2
    <3>4. batch[m].kind = "attached" <=> f \in dgServer[k].files
      BY <3>1, <3>2, <3>3 DEF AllTold
    <3>5. \A o \in DOMAIN batch : ForAttachments(batch[o]) => o = m
      BY <1>3, <1>5, <3>1
    <3>6. m \in Newest(batch)
      <4>1. Subject(batch[m]) = <<k, f>>
        BY <3>1 DEF About, Subject
      <4>2. ASSUME NEW o \in DOMAIN batch, o > m, Subject(batch[o]) = <<k, f>>
            PROVE  FALSE
        <5>1. ~ForAttachments(batch[o])
          BY <3>2, <3>5, <4>2
        <5>2. batch[o] \in FitNews
          BY <1>2
        <5>3. batch[o].kind = "title"
          BY <5>1, <5>2 DEF FitNews, Newses, ForAttachments
        <5>4. <<batch[o].card>> = <<k, f>>
          BY <4>2, <5>3 DEF Subject
        <5>5. Len(<<batch[o].card>>) = Len(<<k, f>>)
          BY <5>4
        <5> QED BY <5>5
      <4> QED BY <4>1, <4>2 DEF Newest
    <3>7. m \in Reached(batch)
      <4>1. ASSUME NEW o \in Newest(batch), o < m, Unlisted(batch[o])
            PROVE  FALSE
        <5>1. ForAttachments(batch[o])
          BY <4>1 DEF Unlisted, ForAttachments
        <5>2. o = m
          BY <3>5, <5>1 DEF Newest
        <5> QED BY <3>2, <4>1, <5>2
      <4> QED BY <3>6, <4>1 DEF Reached
    <3>8. <<"file", f>> \in FilesIn(batch, batch[m].kind, k)
      BY <3>1, <3>7 DEF FilesIn, About
    <3>9. ASSUME NEW kind \in {"attached", "detached"}, kind # batch[m].kind
          PROVE  FilesIn(batch, kind, k) = {}
      <4>1. ASSUME NEW o \in Reached(batch), batch[o].kind = kind
            PROVE  FALSE
        <5>1. o \in DOMAIN batch /\ ForAttachments(batch[o])
          BY <4>1 DEF Reached, Newest, ForAttachments
        <5> QED BY <3>5, <3>9, <4>1, <5>1
      <4> QED BY <4>1 DEF FilesIn
    <3>10. batch[m].kind \in {"attached", "detached"}
      BY <3>1 DEF About
    <3>11. CASE batch[m].kind = "attached"
      <4>1. FilesIn(batch, "detached", k) = {}
        BY <3>9, <3>11
      <4> QED BY <1>4, <3>4, <3>8, <3>11, <4>1 DEF Listed
    <3>12. CASE batch[m].kind = "detached"
      BY <1>4, <3>4, <3>8, <3>12 DEF Listed
    <3> QED BY <3>10, <3>11, <3>12
  <2>2. CASE \A m \in DOMAIN batch : ~About(batch[m], k, f)
    <3>1. \A m \in DOMAIN dgNews : ~About(dgNews[m], k, f)
      BY <1>2, <2>0, <2>2
    <3>2. Listed(k, f) <=> f \in dgServer[k].files
      BY <3>1 DEF AllTold
    <3>3. ASSUME NEW kind \in {"attached", "detached"}, <<"file", f>> \in FilesIn(batch, kind, k)
          PROVE  FALSE
      <4>1. PICK m \in Reached(batch) : batch[m].kind = kind /\ batch[m].card = k /\ <<"file", f>> = <<"file", batch[m].what>>
        BY <3>3 DEF FilesIn
      <4>2. m \in DOMAIN batch /\ batch[m].what = f
        BY <4>1 DEF Reached, Newest
      <4> QED BY <2>2, <4>1, <4>2 DEF About
    <3> QED BY <1>4, <3>2, <3>3 DEF Listed
  <2> QED BY <2>1, <2>2
<1> QED BY <1>6, <1>7 DEF AllTold

LEMMA ToldStep == Types /\ ShapeInv /\ ToldInv /\ [DgNext]_dgVars => ToldInv'
<1> SUFFICES ASSUME Types, ShapeInv, ToldInv, [DgNext]_dgVars, ~dgPast'.cut, NEW k \in DgAll, NEW f \in DgFiles
             PROVE  AllTold(dgNews, k, f)'
  BY DEF ToldInv
<1>a. dgPast \in Pasts
  BY DEF Types
<1>b. ~dgPast.cut => AllTold(dgNews, k, f)
  BY DEF ToldInv
<1>c. dgServer \in [DgAll -> [title : DgTitles, live : Flags, files : SUBSET DgFiles]]
  BY DEF ShapeInv
<1>d. dgLists \in [DgAll -> [list : SUBSET Entries, listed : Flags]]
  BY DEF ShapeInv
<1>1. ASSUME ~dgPast.cut, UNCHANGED <<dgServer, dgNews>>, Listed(k, f)' <=> Listed(k, f)
      PROVE  AllTold(dgNews, k, f)'
  BY <1>1, <1>b DEF AllTold
<1>2. ASSUME ~dgPast.cut, UNCHANGED dgLists, NEW card \in DgAll, NEW what,
             \/ Retitle(card, what) \/ Drop(card) \/ Attach(card, what) \/ Detach(card, what)
      PROVE  AllTold(dgNews, k, f)'
  <2>1. ASSUME NEW x, dgNews' = Append(dgNews, x), ~About(x, k, f), dgServer'[k].files = dgServer[k].files
        PROVE  AllTold(dgNews, k, f)'
    BY <1>2, <1>b, <2>1, ToldMore
  <2>2. CASE Retitle(card, what)
    <3>1. dgServer'[k].files = dgServer[k].files
      BY <1>c, <2>2 DEF Retitle
    <3> QED BY <2>1, <2>2, <3>1 DEF Retitle, News, About
  <2>3. CASE Drop(card)
    <3>1. dgServer'[k].files = dgServer[k].files
      BY <1>c, <2>3 DEF Drop
    <3> QED BY <2>1, <2>3, <3>1 DEF Drop, News, About
  <2>4. CASE Attach(card, what)
    <3> DEFINE x == [card |-> card, kind |-> "attached", what |-> what]
    <3>1. f \in dgServer'[k].files <=> f \in dgServer[k].files \/ (k = card /\ f = what)
      BY <1>c, <2>4 DEF Attach
    <3>2. dgNews' = Append(dgNews, x) /\ x.kind = "attached" /\ (About(x, k, f) <=> k = card /\ f = what)
      BY <2>4 DEF Attach, News, About
    <3> HIDE DEF x
    <3> QED BY <1>2, <1>b, <3>1, <3>2, ToldMore
  <2>5. CASE Detach(card, what)
    <3> DEFINE x == [card |-> card, kind |-> "detached", what |-> what]
    <3>1. f \in dgServer'[k].files <=> f \in dgServer[k].files /\ ~(k = card /\ f = what)
      BY <1>c, <2>5 DEF Detach
    <3>2. dgNews' = Append(dgNews, x) /\ x.kind = "detached" /\ (About(x, k, f) <=> k = card /\ f = what)
      BY <2>5 DEF Detach, News, About
    <3> HIDE DEF x
    <3> QED BY <1>2, <1>b, <3>1, <3>2, ToldMore
  <2> QED BY <1>2, <2>2, <2>3, <2>4, <2>5
<1>3. CASE ChooseFile
  <2> DEFINE n == dgPast.files + 1
             card == dgDialog.card
  <2>1. /\ card \in DgAll /\ dgPast.files < DgMaxFiles
        /\ dgLists' = [dgLists EXCEPT ![card] = AddAttachments(@, {<<"uploading", n>>})]
        /\ UNCHANGED <<dgServer, dgNews>>
    BY <1>3 DEF ChooseFile, Types
  <2>2. dgPast'.cut = dgPast.cut
    BY <1>3, <1>a DEF ChooseFile, DgStep, Pasts
  <2>3. {<<"uploading", n>>} \in SUBSET Entries
    BY <2>1, FileNumber DEF Entries
  <2> HIDE DEF n, card
  <2>4. dgLists'[card].list = dgLists[card].list \cup {<<"uploading", n>>}
    BY <2>1, <2>3, <1>d, AddType
  <2>5. k # card => dgLists'[k] = dgLists[k]
    BY <2>1, <1>d
  <2>6. Listed(k, f)' <=> Listed(k, f)
    BY <2>4, <2>5 DEF Listed
  <2> QED BY <1>1, <2>1, <2>2, <2>6
<1>4. CASE EndUpload
  <2>1. PICK i \in DOMAIN dgUploads : EndUpload!1!(i)
    BY <1>4 DEF EndUpload
  <2> DEFINE u == dgUploads[i]
  <2>2. UNCHANGED <<dgServer, dgNews, dgPast>>
    BY <1>4 DEF EndUpload
  <2>3. u \in FitUploads
    BY DEF ShapeInv
  <2>4. u.card \in DgAll
    BY <2>3 DEF FitUploads
  <2>5. \/ dgLists' = [dgLists EXCEPT ![u.card] = RemoveAttachments(@, {<<"uploading", u.file>>})]
        \/ dgLists' = dgLists
    BY <2>1
  <2> HIDE DEF u
  <2>6. Listed(k, f)' <=> Listed(k, f)
    <3>1. CASE dgLists' = [dgLists EXCEPT ![u.card] = RemoveAttachments(@, {<<"uploading", u.file>>})]
      <4>1. dgLists'[u.card].list = dgLists[u.card].list \ {<<"uploading", u.file>>}
        BY <2>4, <3>1, <1>d, RemoveType
      <4>2. k # u.card => dgLists'[k] = dgLists[k]
        BY <3>1, <1>d
      <4> QED BY <4>1, <4>2 DEF Listed
    <3>2. CASE dgLists' = dgLists
      BY <3>2 DEF Listed
    <3> QED BY <2>5, <3>1, <3>2
  <2> QED BY <1>1, <2>2, <2>6
<1>5. CASE ServeCardRequest
  <2>1. PICK i \in DOMAIN dgRequests : ServeCardRequest!1!(i)
    BY <1>5 DEF ServeCardRequest
  <2> DEFINE r == dgRequests[i]
  <2>2. r.card \in DgAll
    <3>1. dgRequests \in Seq(Requests)
      BY DEF Types
    <3>2. r \in Requests
      BY <3>1
    <3> QED BY <3>2 DEF Requests
  <2>3. UNCHANGED dgLists
    BY <1>5 DEF ServeCardRequest
  <2>4. ~(ChooseFile \/ OthersChange \/ DeliverNews) => ~dgPast.cut
    BY PastStep
  <2>5. ~dgPast.cut
    <3>1. \/ dgPast' = [dgPast EXCEPT !.seen[r.card] = @ \cup {r.what}]
          \/ dgPast' = [dgPast EXCEPT !.refused = @ \cup {r.card}]
          \/ dgPast' = dgPast
      BY <2>1 DEF NoteSeen
    <3> QED BY <1>a, <3>1 DEF Pasts
  <2>6. CASE Retitle(r.card, r.what) \/ Drop(r.card) \/ Attach(r.card, r.what) \/ Detach(r.card, r.what)
    BY <1>2, <2>2, <2>3, <2>5, <2>6
  <2>7. CASE UNCHANGED <<dgServer, dgNews>>
    BY <1>1, <2>3, <2>5, <2>7 DEF Listed
  <2>8. CASE /\ dgServer' = [dgServer EXCEPT ![DgTemplate] = [@ EXCEPT !.live = TRUE]]
             /\ dgNews' = News(DgTemplate, "title", DgFirstTitle)
    <3>1. dgServer'[k].files = dgServer[k].files
      BY <1>c, <2>8
    <3> DEFINE x == [card |-> DgTemplate, kind |-> "title", what |-> DgFirstTitle]
    <3>2. dgNews' = Append(dgNews, x) /\ ~About(x, k, f)
      BY <2>8 DEF News, About
    <3> HIDE DEF x
    <3> QED BY <1>b, <2>3, <2>5, <3>1, <3>2, ToldMore
  <2> QED BY <2>1, <2>6, <2>7, <2>8
<1>6. CASE OthersChange
  <2>1. PICK c \in DgCards : OthersChange!2!(c)
    BY <1>6 DEF OthersChange
  <2>2. c \in DgAll /\ UNCHANGED dgLists
    BY <1>6 DEF OthersChange, DgAll
  <2>3. ~dgPast.cut
    <3>1. \/ \E t \in DgTitles : dgPast' = [dgPast EXCEPT !.others = @ + 1, !.seen[c] = @ \cup {t}]
          \/ dgPast' = [dgPast EXCEPT !.others = @ + 1, !.files = @ + 1, !.chosen = Append(@, c)]
          \/ dgPast' = [dgPast EXCEPT !.others = @ + 1]
      BY <2>1
    <3>2. ASSUME NEW t, dgPast' = [dgPast EXCEPT !.others = @ + 1, !.seen[c] = @ \cup {t}]
          PROVE  dgPast'.cut = dgPast.cut
      BY <3>2, <1>a DEF Pasts
    <3>3. ASSUME dgPast' = [dgPast EXCEPT !.others = @ + 1, !.files = @ + 1, !.chosen = Append(@, c)]
          PROVE  dgPast'.cut = dgPast.cut
      BY <3>3, <1>a DEF Pasts
    <3>4. ASSUME dgPast' = [dgPast EXCEPT !.others = @ + 1]
          PROVE  dgPast'.cut = dgPast.cut
      BY <3>4, <1>a DEF Pasts
    <3> QED BY <3>1, <3>2, <3>3, <3>4
  <2>4. \/ \E t \in DgTitles : Retitle(c, t)
        \/ Attach(c, dgPast.files + 1)
        \/ Drop(c)
    BY <2>1
  <2> QED BY <1>2, <2>2, <2>3, <2>4
<1>7. CASE DeliverNews
  <2>1. PICK n \in DOMAIN dgNews : DeliverNews!1!(n)
    BY <1>7 DEF DeliverNews
  <2> DEFINE files == { m \in DOMAIN SubSeq(dgNews, 1, n) : ForAttachments(SubSeq(dgNews, 1, n)[m]) }
             past  == [dgPast EXCEPT !.cut = @ \/ Cardinality(files) > 1]
  <2>2. past \in Pasts /\ (~past.cut => ~dgPast.cut /\ ~(Cardinality(files) > 1))
    <3> DEFINE cut == dgPast.cut \/ Cardinality(files) > 1
    <3>1. cut \in Flags
      BY Zenon DEF Flags
    <3>2. ~cut => ~dgPast.cut /\ ~(Cardinality(files) > 1)
      OBVIOUS
    <3> HIDE DEF files
    <3>3. past = [dgPast EXCEPT !.cut = cut]
      OBVIOUS
    <3> HIDE DEF cut
    <3>4. past \in Pasts /\ past.cut = cut
      BY <3>1, <3>3, <1>a DEF Pasts
    <3> QED BY <3>2, <3>4
  <2>3. dgPast' = past \/ dgPast' = NoteSaves(past, UnmountSaves(dgDialog))
    BY <2>1
  <2>4. /\ dgNews' = SubSeq(dgNews, n + 1, Len(dgNews)) /\ UNCHANGED dgServer
        /\ dgLists' = [c \in DgAll |-> AttachmentNews(c, SubSeq(dgNews, 1, n))]
    BY <2>1, <1>7 DEF DeliverNews
  <2> HIDE DEF past
  <2>5. dgPast'.cut = past.cut
    BY <2>2, <2>3 DEF NoteSaves, Pasts
  <2>6. ~dgPast.cut /\ ~(Cardinality(files) > 1)
    BY <2>2, <2>5
  <2> QED BY <1>b, <2>4, <2>6, ToldDelivered
<1>8. CASE ~(ChooseFile \/ EndUpload \/ ServeCardRequest \/ OthersChange \/ DeliverNews)
  <2>1. dgPast'.cut = dgPast.cut
    BY <1>8, PastStep
  <2>2. UNCHANGED <<dgServer, dgLists, dgNews>>
    BY <1>8 DEF DgNext, dgVars, OpenCardDialog, CloseCard, TypeTitle, SaveTitle, DeleteAttachment, DeleteCard,
                MakeTemplate, AnswerDialog
  <2> QED BY <1>1, <2>1, <2>2 DEF Listed
<1> QED
  BY <1>3, <1>4, <1>5, <1>6, <1>7, <1>8

\* Types are kept, the dialog shows no deleted card, and cards list their
\* attachments when all news have come.
THEOREM DialogIsRight == DgSpec => []DialogAgrees
<1> DEFINE Inv == Types /\ ShapeInv /\ UploadsInv /\ ToldInv
<1>1. DgInit => Inv
  <2> SUFFICES ASSUME DgInit PROVE Inv
    OBVIOUS
  <2>1. dgUploads = <<>> /\ dgNews = <<>> /\ \A k \in DgAll : dgLists[k].list = {} /\ dgServer[k].files = {}
    BY DEF DgInit
  <2>2. UploadsInv /\ ToldInv
    BY <2>1 DEF UploadsInv, ToldInv, AllTold, Uploaded, Listed
  <2> QED BY <2>2, TypesInit, ShapeInit
<1>2. Inv /\ [DgNext]_dgVars => Inv'
  BY TypesStep, ShapeStep, UploadsStep, ToldStep
<1>3. Inv => DialogAgrees
  <2> SUFFICES ASSUME Inv PROVE DialogAgrees
    OBVIOUS
  <2>1. DgTypeOK
    <3>1. \A k \in DgAll : dgServer[k].title \in DgTitles /\ dgServer[k].files \subseteq DgFiles
      BY DEF ShapeInv
    <3>2. dgDialog.card \in DgAll \cup {""} /\ (dgDialog.mounted => dgDialog.card # "" /\ dgStore[dgDialog.card].live)
      BY FirstCard DEF ShapeInv, Types
    <3>3. \A u \in ToSet(dgUploads) : u.card \in DgAll /\ u.file \in DgFiles
      <4>1. \A i \in DOMAIN dgUploads : dgUploads[i] \in FitUploads
        BY DEF ShapeInv
      <4> QED BY <4>1 DEF ToSet, FitUploads
    <3>4. \A r \in ToSet(dgRequests) : r.kind \in {"title", "attach", "detach", "delete", "template"}
      <4>1. dgRequests \in Seq(Requests)
        BY DEF Types
      <4>2. \A i \in DOMAIN dgRequests : dgRequests[i] \in Requests
        BY <4>1
      <4> QED BY <4>2 DEF ToSet, Requests
    <3> QED BY <3>1, <3>2, <3>3, <3>4 DEF DgTypeOK, DgFiles
  <2>2. ASSUME dgNews = <<>>, ~dgPast.cut, NEW k \in DgAll
        PROVE  dgLists[k].list = { <<"file", f>> : f \in dgServer[k].files }
                 \cup { <<"uploading", u.file>> : u \in { v \in ToSet(dgUploads) : v.card = k } }
    <3> DEFINE list == dgLists[k].list
               files == { <<"file", f>> : f \in dgServer[k].files }
               uploads == { <<"uploading", u.file>> : u \in { v \in ToSet(dgUploads) : v.card = k } }
    <3>1. \A f \in DgFiles : Listed(k, f) <=> f \in dgServer[k].files
      BY <2>2 DEF ToldInv, AllTold
    <3>2. \A f \in DgFiles : <<"uploading", f>> \in list <=> Uploaded(k, f)
      BY DEF UploadsInv
    <3>3. list \subseteq Entries /\ dgServer[k].files \subseteq DgFiles
      BY DEF ShapeInv
    <3>4. \A u \in ToSet(dgUploads) : u.file \in DgFiles
      <4>1. \A i \in DOMAIN dgUploads : dgUploads[i] \in FitUploads
        BY DEF ShapeInv
      <4> QED BY <4>1 DEF ToSet, FitUploads
    <3>5. \A f : Uploaded(k, f) <=> \E u \in ToSet(dgUploads) : u.card = k /\ u.file = f
      BY DEF Uploaded, ToSet
    <3>6. \A f \in DgFiles : <<"file", f>> \in list <=> <<"file", f>> \in files
      BY <3>1 DEF Listed
    <3>7. \A f \in DgFiles : <<"uploading", f>> \in list <=> <<"uploading", f>> \in uploads
      BY <3>2, <3>5
    <3>8. files \subseteq Entries /\ uploads \subseteq Entries
      BY <3>3, <3>4 DEF Entries
    <3>9. \A f : <<"uploading", f>> \notin files /\ <<"file", f>> \notin uploads
      OBVIOUS
    <3> HIDE DEF list, files, uploads
    <3>10. ASSUME NEW e \in Entries
           PROVE  e \in list <=> e \in files \cup uploads
      <4>1. PICK f \in DgFiles : e = <<"file", f>> \/ e = <<"uploading", f>>
        BY DEF Entries
      <4> QED BY <3>6, <3>7, <3>9, <4>1
    <3>11. list = files \cup uploads
      BY <3>3, <3>8, <3>10
    <3> QED BY <3>11 DEF list, files, uploads
  <2>3. AttachmentsListed
    BY <2>2 DEF AttachmentsListed
  <2> QED BY <2>1, <2>3 DEF DialogAgrees
<1> HIDE DEF Inv
<1> QED
  BY <1>1, <1>2, <1>3, PTL DEF DgSpec

----------------------------------------------------------------------------
(***************************************************************************)
(* Boards from templates: TemplatesAgree.                                   *)
(*                                                                          *)
(* A request for a preview that is listened to is that of the active        *)
(* template.  A board was asked for a channel; a handler or a command that  *)
(* links it has that channel, and there is one of them at most.  A channel  *)
(* of the dialog has one handler, or one board.  What a command shows when  *)
(* it is undone was made by an earlier one.                                 *)
(***************************************************************************)
BtTemplates == ToSet(BtGlobal) \cup ToSet(BtTeam)
BtSources   == BtTemplates \cup {Empty}
BtPlaces    == BtChannels \cup ToSet(BtNew) \cup {""}
BtBoardRecs == [of : BtSources, channel : BtPlaces, alive : BOOLEAN]
BtTaskRecs  == [of : BtSources, channel : BtPlaces, from : {"selector", "dialog"}, board : Nat, before : Nat]
BtReqRecs   == [kind : {"preview", "global"}, of : BtTemplates \cup {""}, heard : BOOLEAN]
BtCommands  ==
  [kind : {"create"}, board : Nat, of : BtSources, channel : {""}, task : BtTaskRecs]
    \cup [kind : {"link"}, board : Nat \ {0}, of : {""}, channel : BtPlaces, task : {<<>>}]
    \cup [kind : {"delete"}, board : {0}, of : ToSet(BtTeam), channel : {""}, task : {<<>>}]
BtPasts ==
  [clicks : Nat, faults : Nat, asked : Seq(BtPlaces), channels : Seq(BtSources \cup {NotAsked}), redone : BOOLEAN,
   overtaken : BOOLEAN, lost : SUBSET BtPlaces, unlisted : SUBSET Nat, unlinked : SUBSET Nat]
BtSelectors == [open : BOOLEAN, channel : BtPlaces \ ToSet(BtNew), active : BtTemplates \cup {""}, preview : BtTemplates \cup {""}]
BtChoices   == [open : BOOLEAN, add : BOOLEAN, template : BtSources \cup {""}, mayCreate : BOOLEAN]
BtModals    == {m \in BtChoices : m.add /\ m.mayCreate => m.template # ""}

\* Boards are known by their numbers.
Known(n, command) ==
  command.board \in 0 .. n /\ (command.kind = "create" => command.task.before \in 0 .. n)

UiTypes ==
  /\ btTeam \in SUBSET ToSet(BtTeam) /\ btGlobal \in SUBSET ToSet(BtGlobal)
  /\ btSelector \in BtSelectors
  /\ btReqs \in Seq(BtReqRecs)
  /\ btModal \in BtModals
KnownAll(n, q) == \A i \in DOMAIN q : Known(n, q[i])
TaskKnown(n, task) == task.board \in 0 .. n /\ task.before \in 0 .. n
BtUndos == [done : Seq(BtCommands), undone : Seq(BtCommands), stuck : BOOLEAN]
MadeTypes ==
  /\ btBoards \in Seq(BtBoardRecs) /\ btPage \in 0 .. Len(btBoards)
  /\ btTasks \in Seq(BtTaskRecs)
  /\ \A i \in DOMAIN btTasks : TaskKnown(Len(btBoards), btTasks[i])
  /\ btUndo \in BtUndos
  /\ KnownAll(Len(btBoards), btUndo.done) /\ KnownAll(Len(btBoards), btUndo.undone)
  /\ btPast \in BtPasts
  /\ Len(btPast.asked) = Len(btBoards) /\ btPast.unlinked \subseteq 1 .. Len(btBoards)
  /\ Len(btPast.channels) \in 0 .. Len(BtNew)
BtTypes == UiTypes /\ MadeTypes

\* The preview that is shown, and those that are asked for and listened to, are
\* of the active template.
PreviewInv ==
  /\ \A i \in DOMAIN btReqs : btReqs[i].kind = "preview" /\ btReqs[i].heard =>
       btSelector.open /\ btReqs[i].of = btSelector.active /\ btSelector.active # ""
  /\ PreviewOfActive

\* The commands of a kind in a history; each board has one of them at most.
OfKind(q, kind) == {q[i] : i \in {j \in DOMAIN q : q[j].kind = kind}}
OncePer(q, kind) ==
  \A i, j \in DOMAIN q : q[i].kind = kind /\ q[j].kind = kind /\ q[i].board # 0 /\ q[i].board = q[j].board => i = j
LinkedBy(q) == {c.board : c \in OfKind(q, "link")}
UnderWay == {btTasks[i].board : i \in DOMAIN btTasks} \ {0}

\* A board is linked once, by a handler or a command, to the channel for which it
\* was asked.
LinkInv ==
  /\ \A id \in DOMAIN btBoards : btBoards[id].channel # "" => btBoards[id].channel = btPast.asked[id]
  /\ \A c \in OfKind(btUndo.done, "link") : c.channel = btPast.asked[c.board] /\ btBoards[c.board].channel = c.channel
  /\ \A c \in OfKind(btUndo.undone, "link") : c.channel = btPast.asked[c.board]
  /\ \A i \in DOMAIN btTasks : btTasks[i].board # 0 => btPast.asked[btTasks[i].board] = btTasks[i].channel
  /\ OncePer(btUndo.done, "link") /\ OncePer(btUndo.undone, "link")
  /\ \A i, j \in DOMAIN btTasks : btTasks[i].board # 0 /\ btTasks[i].board = btTasks[j].board => i = j
  /\ LinkedBy(btUndo.done) \cap LinkedBy(btUndo.undone) = {}
  /\ UnderWay \cap (LinkedBy(btUndo.done) \cup LinkedBy(btUndo.undone) \cup btPast.unlinked) = {}

\* What was chosen for a channel of the dialog is with its handler or its board.
NewFor(c) == \E i \in DOMAIN btTasks : btTasks[i].channel = BtNew[c]
MadeFor(c) == \E id \in DOMAIN btBoards : btPast.asked[id] = BtNew[c]
ChosenInv ==
  ~btPast.redone =>
    /\ \A i, j \in DOMAIN btTasks : btTasks[i].channel \in ToSet(BtNew) /\ btTasks[i].channel = btTasks[j].channel => i = j
    /\ \A id, other \in DOMAIN btBoards :
         btPast.asked[id] \in ToSet(BtNew) /\ btPast.asked[id] = btPast.asked[other] => id = other
    /\ \A i \in DOMAIN btTasks, id \in DOMAIN btBoards :
         btTasks[i].board = 0 /\ btTasks[i].channel \in ToSet(BtNew) => btPast.asked[id] # btTasks[i].channel
    /\ \A c \in DOMAIN BtNew : c \notin DOMAIN btPast.channels => ~NewFor(c) /\ ~MadeFor(c)
    /\ \A c \in DOMAIN btPast.channels :
         /\ btPast.channels[c] = NotAsked => ~NewFor(c) /\ ~MadeFor(c)
         /\ \A i \in DOMAIN btTasks : btTasks[i].channel = BtNew[c] => btTasks[i].of = btPast.channels[c]
         /\ \A id \in DOMAIN btBoards : btPast.asked[id] = BtNew[c] => btBoards[id].of = btPast.channels[c]
         /\ btPast.channels[c] # NotAsked /\ BtNew[c] \notin btPast.lost => NewFor(c) \/ MadeFor(c)

\* What was made is there until its creation is undone.  The link of a board comes
\* after its creation, so that the creation is undone when the link is no more.
LinkIsLater(q, id) ==
  \E j \in DOMAIN q : /\ q[j].kind = "link" /\ q[j].board = id
                      /\ \A i \in DOMAIN q : q[i].kind = "create" /\ q[i].board = id => i < j
TakenBackInv ==
  ~btPast.redone =>
    /\ OncePer(btUndo.done, "create")
    /\ \A c \in OfKind(btUndo.done, "create") : c.board # 0 => btBoards[c.board].alive
    /\ \A id \in DOMAIN btBoards : ~btBoards[id].alive \/ id \in btPast.unlinked => btBoards[id].channel = ""
    /\ \A id \in DOMAIN btBoards :
         id \notin UnderWay /\ btPast.asked[id] \notin btPast.lost /\ btBoards[id].alive /\ id \notin btPast.unlinked =>
           btBoards[id].channel = btPast.asked[id]
    /\ ~btUndo.stuck => \A id \in DOMAIN btBoards : btBoards[id].channel # "" => LinkIsLater(btUndo.done, id)

\* What a command shows when it is undone is there; the selector made it, and made
\* it before.
SeenBoards ==
  {btPage} \cup {btTasks[i].before : i \in DOMAIN btTasks}
    \cup {c.task.before : c \in OfKind(btUndo.done, "create")}
MadeBefore(q) ==
  \A i, j \in DOMAIN q :
    q[i].kind = "create" /\ q[j].kind = "create" /\ q[j].task.before # 0 /\ q[i].board = q[j].task.before => i < j
ShownInv ==
  ~btPast.redone /\ ~btPast.overtaken =>
    /\ \A p \in SeenBoards \ {0} :
         btBoards[p].alive /\ \A c \in OfKind(btUndo.done, "create") : c.board = p => c.task.from = "selector"
    /\ MadeBefore(btUndo.done)

----------------------------------------------------------------------------
\* Facts about sequences.
LEMMA BtAppended ==
  ASSUME NEW S, NEW q \in Seq(S), NEW x \in S
  PROVE  /\ Append(q, x) \in Seq(S) /\ Len(Append(q, x)) = Len(q) + 1 /\ Len(q) \in Nat
         /\ DOMAIN Append(q, x) = 1 .. Len(q) + 1 /\ DOMAIN q = 1 .. Len(q)
         /\ Append(q, x)[Len(q) + 1] = x /\ \A i \in DOMAIN q : Append(q, x)[i] = q[i]
OBVIOUS

LEMMA AppendedOne ==
  ASSUME NEW S, NEW q \in Seq(S), NEW x \in S
  PROVE  /\ Append(q, x) \in Seq(S)
         /\ \A i \in DOMAIN Append(q, x) : (\E j \in DOMAIN q : Append(q, x)[i] = q[j]) \/ Append(q, x)[i] = x
<1>1. /\ Append(q, x) \in Seq(S) /\ Len(q) \in Nat /\ DOMAIN Append(q, x) = 1 .. Len(q) + 1 /\ DOMAIN q = 1 .. Len(q)
      /\ Append(q, x)[Len(q) + 1] = x /\ \A i \in DOMAIN q : Append(q, x)[i] = q[i]
  BY BtAppended
<1> QED BY <1>1

LEMMA FrontOf ==
  ASSUME NEW S, NEW q \in Seq(S), q # <<>>
  PROVE  /\ Front(q) \in Seq(S) /\ Len(q) \in Nat \ {0} /\ DOMAIN Front(q) = 1 .. Len(q) - 1 /\ DOMAIN q = 1 .. Len(q)
         /\ Last(q) = q[Len(q)] /\ Last(q) \in S /\ \A i \in 1 .. Len(q) - 1 : Front(q)[i] = q[i]
BY DEF Front, Last

LEMMA TailOf ==
  ASSUME NEW S, NEW q \in Seq(S), q # <<>>
  PROVE  /\ Tail(q) \in Seq(S) /\ Len(q) \in Nat \ {0} /\ DOMAIN Tail(q) = 1 .. Len(q) - 1 /\ DOMAIN q = 1 .. Len(q)
         /\ Head(q) = q[1] /\ Head(q) \in S /\ \A i \in 1 .. Len(q) - 1 : Tail(q)[i] = q[i + 1]
OBVIOUS

LEMMA BeforeAll ==
  ASSUME NEW S, NEW q \in Seq(S), NEW x \in S
  PROVE  /\ <<x>> \o q \in Seq(S) /\ DOMAIN (<<x>> \o q) = 1 .. Len(q) + 1 /\ DOMAIN q = 1 .. Len(q) /\ Len(q) \in Nat
         /\ (<<x>> \o q)[1] = x /\ \A i \in DOMAIN q : (<<x>> \o q)[i + 1] = q[i]
OBVIOUS

\* The first of some templates is one of them, if there are any.
LEMMA FirstOfThem ==
  ASSUME NEW S, NEW list \in Seq(S), NEW templates
  PROVE  FirstOf(list, templates) \in (templates \cap S) \cup {""}
<1> DEFINE at == {i \in DOMAIN list : list[i] \in templates}
<1>1. CASE at = {}
  BY <1>1 DEF FirstOf
<1>2. CASE at # {}
  <2>1. Len(list) \in Nat /\ DOMAIN list = 1 .. Len(list) /\ at \in SUBSET (0 .. Len(list))
    OBVIOUS
  <2> HIDE DEF at
  <2>2. \E m \in at : \A a \in at : m <= a
    BY <2>1, <1>2, FirstPlace
  <2>3. Min(at) \in at
    BY <2>2 DEF Min
  <2>4. list[Min(at)] \in templates /\ list[Min(at)] \in S
    BY <2>1, <2>3 DEF at
  <2> QED BY <1>2, <2>4 DEF FirstOf, at
<1> QED BY <1>1, <1>2

\* Where an element of a sequence was before another was removed.
OldPlace(i, j) == IF j < i THEN j ELSE j + 1
LEMMA RemovedAt ==
  ASSUME NEW S, NEW q \in Seq(S), NEW i \in DOMAIN q
  PROVE  /\ RemoveAt(q, i) \in Seq(S)
         /\ \A j \in DOMAIN RemoveAt(q, i) :
              OldPlace(i, j) \in DOMAIN q /\ OldPlace(i, j) # i /\ RemoveAt(q, i)[j] = q[OldPlace(i, j)]
         /\ \A j, k \in DOMAIN RemoveAt(q, i) : OldPlace(i, j) = OldPlace(i, k) => j = k
         /\ \A k \in DOMAIN q \ {i} : \E j \in DOMAIN RemoveAt(q, i) : RemoveAt(q, i)[j] = q[k]
<1> DEFINE r == RemoveAt(q, i)
<1>1. r \in Seq(S)
  BY RemoveAtType
<1>2. Len(r) = Len(q) - 1 /\ \A j \in 1 .. Len(r) : r[j] = IF j < i THEN q[j] ELSE q[j + 1]
  BY RemoveAtPlaces
<1>3. \A k \in DOMAIN q \ {i} : \E j \in DOMAIN r : r[j] = q[k]
  BY RemoveAtElements
<1> HIDE DEF r
<1>4. DOMAIN r = 1 .. Len(r) /\ DOMAIN q = 1 .. Len(q) /\ Len(q) \in Nat /\ Len(r) \in Nat
  BY <1>1
<1>5. \A j \in DOMAIN r : OldPlace(i, j) \in DOMAIN q /\ OldPlace(i, j) # i /\ r[j] = q[OldPlace(i, j)]
  BY <1>2, <1>4 DEF OldPlace
<1>6. \A j, k \in DOMAIN r : OldPlace(i, j) = OldPlace(i, k) => j = k
  BY <1>2, <1>4 DEF OldPlace
<1> QED BY <1>1, <1>3, <1>5, <1>6 DEF r

\* What commands of a kind there are, and that each board has one of them, after a
\* change of the history.
OneMore(p, q, x) ==
  \E n \in DOMAIN p, f \in [DOMAIN q -> DOMAIN p] :
    /\ p[n] = x
    /\ \A i \in DOMAIN q : f[i] # n /\ p[f[i]] = q[i]
    /\ \A i \in DOMAIN p : i = n \/ \E j \in DOMAIN q : i = f[j]
    /\ \A i, j \in DOMAIN q : f[i] = f[j] => i = j
LEMMA KindsOfOneMore ==
  ASSUME NEW q, NEW p, NEW x, OneMore(p, q, x), NEW kind
  PROVE  /\ x.kind # kind => OfKind(p, kind) = OfKind(q, kind)
         /\ x.kind = kind => OfKind(p, kind) = OfKind(q, kind) \cup {x}
         /\ OncePer(p, kind) => OncePer(q, kind)
         /\ OncePer(p, kind) /\ x.kind = kind /\ x.board # 0 => \A c \in OfKind(q, kind) : c.board # x.board
         /\ OncePer(q, kind) /\ (x.kind = kind /\ x.board # 0 => \A c \in OfKind(q, kind) : c.board # x.board) => OncePer(p, kind)
<1>1. PICK n \in DOMAIN p, f \in [DOMAIN q -> DOMAIN p] :
        /\ p[n] = x
        /\ \A i \in DOMAIN q : f[i] # n /\ p[f[i]] = q[i]
        /\ \A i \in DOMAIN p : i = n \/ \E j \in DOMAIN q : i = f[j]
        /\ \A i, j \in DOMAIN q : f[i] = f[j] => i = j
  BY Zenon DEF OneMore
<1>2. \A i \in DOMAIN q : f[i] \in DOMAIN p
  BY <1>1
<1>3. OfKind(q, kind) \subseteq OfKind(p, kind)
  BY <1>1, <1>2 DEF OfKind
<1>4. \A c \in OfKind(p, kind) : c \in OfKind(q, kind) \/ (x.kind = kind /\ c = x)
  BY <1>1, <1>2 DEF OfKind
<1>5. x.kind = kind => x \in OfKind(p, kind)
  BY <1>1 DEF OfKind
<1>6. OncePer(p, kind) => OncePer(q, kind)
  <2> SUFFICES ASSUME OncePer(p, kind), NEW i \in DOMAIN q, NEW j \in DOMAIN q, q[i].kind = kind, q[j].kind = kind,
                      q[i].board # 0, q[i].board = q[j].board
               PROVE  i = j
    BY Zenon DEF OncePer
  <2>1. p[f[i]] = q[i] /\ p[f[j]] = q[j] /\ f[i] \in DOMAIN p /\ f[j] \in DOMAIN p
    BY <1>1, <1>2
  <2>2. f[i] = f[j]
    BY <2>1 DEF OncePer
  <2> QED BY <1>1, <2>2
<1>7. ASSUME OncePer(p, kind), x.kind = kind, x.board # 0, NEW c \in OfKind(q, kind)
      PROVE  c.board # x.board
  <2>1. PICK i \in DOMAIN q : q[i].kind = kind /\ c = q[i]
    BY DEF OfKind
  <2> QED BY <1>1, <1>2, <1>7, <2>1 DEF OncePer
<1>8. ASSUME OncePer(q, kind), x.kind = kind /\ x.board # 0 => \A c \in OfKind(q, kind) : c.board # x.board
      PROVE  OncePer(p, kind)
  <2> SUFFICES ASSUME NEW i \in DOMAIN p, NEW j \in DOMAIN p, p[i].kind = kind, p[j].kind = kind,
                      p[i].board # 0, p[i].board = p[j].board
               PROVE  i = j
    BY Zenon DEF OncePer
  <2>1. \A k \in DOMAIN q : q[k].kind = kind => q[k] \in OfKind(q, kind)
    BY DEF OfKind
  <2>2. CASE i = n /\ j # n
    BY <1>1, <1>8, <2>1, <2>2
  <2>3. CASE i # n /\ j = n
    BY <1>1, <1>8, <2>1, <2>3
  <2>4. CASE i # n /\ j # n
    <3>1. PICK k \in DOMAIN q : i = f[k]
      BY <1>1, <2>4
    <3>2. PICK l \in DOMAIN q : j = f[l]
      BY <1>1, <2>4
    <3> QED BY <1>1, <1>8, <3>1, <3>2 DEF OncePer
  <2> QED BY <2>2, <2>3, <2>4
<1>9. x.kind # kind => OfKind(p, kind) = OfKind(q, kind)
  BY <1>3, <1>4
<1>10. x.kind = kind => OfKind(p, kind) = OfKind(q, kind) \cup {x}
  BY <1>3, <1>4, <1>5
<1> QED BY <1>6, <1>7, <1>8, <1>9, <1>10

LEMMA OneMoreAppended ==
  ASSUME NEW S, NEW q \in Seq(S), NEW x \in S
  PROVE  OneMore(Append(q, x), q, x)
<1> DEFINE p == Append(q, x)
           n == Len(q) + 1
           f == [i \in DOMAIN q |-> i]
<1>1. /\ Len(q) \in Nat /\ DOMAIN p = 1 .. Len(q) + 1 /\ DOMAIN q = 1 .. Len(q)
      /\ p[Len(q) + 1] = x /\ \A i \in DOMAIN q : p[i] = q[i]
  BY BtAppended
<1> HIDE DEF p
<1>2. n \in DOMAIN p /\ f \in [DOMAIN q -> DOMAIN p] /\ \A i \in DOMAIN q : f[i] = i /\ i # n
  BY <1>1
<1>3. \A i \in DOMAIN p : i = n \/ i \in DOMAIN q
  BY <1>1
<1>4. p[n] = x
  BY <1>1
<1> HIDE DEF n, f
<1>5. OneMore(p, q, x)
  BY <1>1, <1>2, <1>3, <1>4 DEF OneMore
<1> QED BY <1>5 DEF p

LEMMA OneMoreThanFront ==
  ASSUME NEW S, NEW q \in Seq(S), q # <<>>
  PROVE  OneMore(q, Front(q), Last(q))
<1> DEFINE p == Front(q)
           n == Len(q)
           f == [i \in DOMAIN p |-> i]
<1>1. /\ n \in Nat \ {0} /\ DOMAIN p = 1 .. n - 1 /\ DOMAIN q = 1 .. n
      /\ Last(q) = q[n] /\ \A i \in 1 .. n - 1 : p[i] = q[i]
  BY FrontOf
<1> HIDE DEF p, n
<1>2. n \in DOMAIN q /\ f \in [DOMAIN p -> DOMAIN q] /\ \A i \in DOMAIN p : f[i] = i /\ i # n /\ p[i] = q[i]
  BY <1>1
<1>3. \A i \in DOMAIN q : i = n \/ i \in DOMAIN p
  BY <1>1
<1> HIDE DEF f
<1>4. OneMore(q, p, q[n])
  BY <1>2, <1>3 DEF OneMore
<1> QED BY <1>1, <1>4 DEF p

LEMMA OneMoreThanTail ==
  ASSUME NEW S, NEW q \in Seq(S), q # <<>>
  PROVE  OneMore(q, Tail(q), Head(q))
<1> DEFINE p == Tail(q)
           n == Len(q)
           f == [i \in DOMAIN p |-> i + 1]
<1>1. /\ n \in Nat \ {0} /\ DOMAIN p = 1 .. n - 1 /\ DOMAIN q = 1 .. n
      /\ Head(q) = q[1] /\ \A i \in 1 .. n - 1 : p[i] = q[i + 1]
  BY TailOf
<1> HIDE DEF p, n
<1>2. 1 \in DOMAIN q /\ f \in [DOMAIN p -> DOMAIN q] /\ \A i \in DOMAIN p : f[i] = i + 1 /\ f[i] # 1 /\ p[i] = q[f[i]]
  BY <1>1
<1>3. \A i \in DOMAIN q : i = 1 \/ \E j \in DOMAIN p : i = f[j]
  <2> SUFFICES ASSUME NEW i \in DOMAIN q, i # 1  PROVE \E j \in DOMAIN p : i = f[j]
    OBVIOUS
  <2>1. i - 1 \in DOMAIN p /\ i = (i - 1) + 1
    BY <1>1
  <2> QED BY <1>2, <2>1
<1>4. \A i, j \in DOMAIN p : f[i] = f[j] => i = j
  BY <1>1, <1>2
<1> HIDE DEF f
<1>5. OneMore(q, p, q[1])
  BY <1>2, <1>3, <1>4, ZenonT(60) DEF OneMore
<1> QED BY <1>1, <1>5 DEF p

LEMMA OneMoreBefore ==
  ASSUME NEW S, NEW q \in Seq(S), NEW x \in S
  PROVE  OneMore(<<x>> \o q, q, x)
<1> DEFINE p == <<x>> \o q
           n == Len(q)
           f == [i \in DOMAIN q |-> i + 1]
<1>1. /\ n \in Nat /\ DOMAIN p = 1 .. n + 1 /\ DOMAIN q = 1 .. n
      /\ p[1] = x /\ \A i \in DOMAIN q : p[i + 1] = q[i]
  BY BeforeAll
<1> HIDE DEF p, n
<1>2. 1 \in DOMAIN p /\ f \in [DOMAIN q -> DOMAIN p] /\ \A i \in DOMAIN q : f[i] = i + 1 /\ f[i] # 1 /\ q[i] = p[f[i]]
  BY <1>1
<1>3. \A i \in DOMAIN p : i = 1 \/ \E j \in DOMAIN q : i = f[j]
  <2> SUFFICES ASSUME NEW i \in DOMAIN p, i # 1  PROVE \E j \in DOMAIN q : i = f[j]
    OBVIOUS
  <2>1. i - 1 \in DOMAIN q /\ i = (i - 1) + 1
    BY <1>1
  <2> QED BY <1>2, <2>1
<1>4. \A i, j \in DOMAIN q : f[i] = f[j] => i = j
  BY <1>1, <1>2
<1> HIDE DEF f
<1>5. p[1] = x /\ \A i \in DOMAIN q : f[i] # 1 /\ p[f[i]] = q[i]
  BY <1>1, <1>2
<1>6. OneMore(p, q, x)
  BY <1>2, <1>3, <1>4, <1>5 DEF OneMore
<1> QED BY <1>6 DEF p

\* Nothing is left.
LEMMA NoneOfThem ==
  ASSUME NEW kind
  PROVE  OfKind(<<>>, kind) = {} /\ OncePer(<<>>, kind)
BY DEF OfKind, OncePer

----------------------------------------------------------------------------
(***************************************************************************)
(* The selector and the dialog.                                             *)
(***************************************************************************)
LEMMA NamesApart ==
  /\ "" \notin BtTemplates /\ Empty \notin BtTemplates /\ NotAsked \notin BtSources /\ "" \notin BtSources
  /\ "" \in BtPlaces /\ "" \notin ToSet(BtNew) /\ BtChannels \cap ToSet(BtNew) = {} /\ "" \notin BtChannels
  /\ ToSet(BtTeam) \subseteq BtTemplates /\ ToSet(BtGlobal) \subseteq BtTemplates
<1>1. "" \notin BtTemplates /\ Empty \notin BtTemplates /\ NotAsked \notin BtTemplates
  BY BtAssumption, Zenon DEF BtTemplates
<1>2. Empty # "" /\ NotAsked # Empty
  BY DEF Empty, NotAsked
<1>3. "" \notin ToSet(BtNew) /\ BtChannels \cap ToSet(BtNew) = {} /\ "" \notin BtChannels
  BY BtAssumption, Zenon
<1> QED BY <1>1, <1>2, <1>3, Zenon DEF BtSources, BtPlaces, BtTemplates

\* After "unsubscribed" nobody listens.
LEMMA NobodyListens ==
  ASSUME NEW rs \in Seq(BtReqRecs)
  PROVE  /\ Unsubscribed(rs) \in Seq(BtReqRecs) /\ Len(Unsubscribed(rs)) = Len(rs)
         /\ \A i \in DOMAIN Unsubscribed(rs) : ~Unsubscribed(rs)[i].heard
<1> DEFINE Deaf(r) == [r EXCEPT !.heard = FALSE]
<1>1. \A r \in BtReqRecs : Deaf(r) \in BtReqRecs /\ ~Deaf(r).heard
  BY DEF BtReqRecs
<1>2. DOMAIN rs = 1 .. Len(rs) /\ Len(rs) \in Nat /\ \A i \in DOMAIN rs : rs[i] \in BtReqRecs
  OBVIOUS
<1>3. Unsubscribed(rs) = [i \in DOMAIN rs |-> Deaf(rs[i])]
  BY DEF Unsubscribed
<1> HIDE DEF Deaf
<1> QED BY <1>1, <1>2, <1>3

OfEither(g, q, f) == \A i \in DOMAIN g : (\E j \in DOMAIN q : g[i] = q[j]) \/ (\E j \in DOMAIN f : g[i] = f[j])
LEMMA Joined ==
  ASSUME NEW S, NEW q \in Seq(S), NEW f \in Seq(S)
  PROVE  q \o f \in Seq(S) /\ OfEither(q \o f, q, f)
<1>1. /\ q \o f \in Seq(S) /\ DOMAIN (q \o f) = 1 .. Len(q) + Len(f) /\ Len(q) \in Nat /\ Len(f) \in Nat
      /\ DOMAIN q = 1 .. Len(q) /\ DOMAIN f = 1 .. Len(f)
      /\ (\A i \in 1 .. Len(q) : (q \o f)[i] = q[i]) /\ \A i \in 1 .. Len(f) : (q \o f)[Len(q) + i] = f[i]
  OBVIOUS
<1>2. ASSUME NEW i \in DOMAIN (q \o f), i \notin 1 .. Len(q)
      PROVE  \E j \in DOMAIN f : (q \o f)[i] = f[j]
  <2>1. i - Len(q) \in 1 .. Len(f) /\ Len(q) + (i - Len(q)) = i
    BY <1>1, <1>2
  <2> QED BY <2>1, <1>1
<1> QED BY <1>1, <1>2 DEF OfEither

LEMMA OneOrNone ==
  ASSUME NEW S, NEW x
  PROVE  /\ <<>> \in Seq(S) /\ DOMAIN <<>> = {}
         /\ x \in S => <<x>> \in Seq(S)
         /\ DOMAIN <<x>> = {1} /\ <<x>>[1] = x
OBVIOUS

OfThree(g, r, p, f) ==
  \A i \in DOMAIN g : (\E j \in DOMAIN r : g[i] = r[j]) \/ (\E j \in DOMAIN p : g[i] = p[j]) \/ (\E j \in DOMAIN f : g[i] = f[j])
LEMMA JoinedThree ==
  ASSUME NEW S, NEW r \in Seq(S), NEW p \in Seq(S), NEW f \in Seq(S), NEW g, g = r \o p \o f
  PROVE  g \in Seq(S) /\ OfThree(g, r, p, f)
<1> DEFINE q == r \o p
<1>1. q = r \o p /\ g = q \o f
  OBVIOUS
<1> HIDE DEF q
<1>2. q \in Seq(S) /\ OfEither(q, r, p)
  BY Joined DEF q
<1>3. g \in Seq(S) /\ OfEither(g, q, f)
  BY <1>1, <1>2, Joined
<1>4. OfThree(g, r, p, f)
  <2> SUFFICES ASSUME NEW i \in DOMAIN g
               PROVE  (\E j \in DOMAIN r : g[i] = r[j]) \/ (\E j \in DOMAIN p : g[i] = p[j]) \/ (\E j \in DOMAIN f : g[i] = f[j])
    BY Zenon DEF OfThree
  <2>1. CASE \E k \in DOMAIN q : g[i] = q[k]
    <3>1. PICK k \in DOMAIN q : g[i] = q[k]
      BY <2>1
    <3> QED BY <1>2, <3>1, Zenon DEF OfEither
  <2> QED BY <1>3, <2>1, Zenon DEF OfEither
<1> QED BY <1>3, <1>4

LEMMA FirstIsTemplate ==
  /\ FirstOf(BtGlobal \o BtTeam, AllTemplates) \in BtTemplates \cup {""}
  /\ \A ts : FirstOf(BtTeam \o BtGlobal, ts) \in BtTemplates \cup {""}
<1>1. BtGlobal \in Seq(ToSet(BtGlobal)) /\ BtTeam \in Seq(ToSet(BtTeam))
  BY BtAssumption, Zenon
<1>2. \A S, T, q : q \in Seq(S) /\ S \subseteq T => q \in Seq(T)
  OBVIOUS
<1>3. BtGlobal \in Seq(BtTemplates) /\ BtTeam \in Seq(BtTemplates)
  BY <1>1, <1>2, NamesApart, Zenon
<1>4. BtGlobal \o BtTeam \in Seq(BtTemplates) /\ BtTeam \o BtGlobal \in Seq(BtTemplates)
  <2>1. ASSUME NEW u \in Seq(BtTemplates), NEW v \in Seq(BtTemplates)
        PROVE  u \o v \in Seq(BtTemplates)
    OBVIOUS
  <2> QED BY <1>3, <2>1, Zenon
<1>5. \A ts : FirstOf(BtTeam \o BtGlobal, ts) \in (ts \cap BtTemplates) \cup {""}
  BY <1>4, FirstOfThem, Zenon
<1>6. FirstOf(BtGlobal \o BtTeam, AllTemplates) \in (AllTemplates \cap BtTemplates) \cup {""}
  BY <1>4, FirstOfThem, Zenon
<1> QED BY <1>5, <1>6, Zenon

LEMMA FetchIsRequest ==
  FetchGlobal \in Seq(BtReqRecs) /\ \A i \in DOMAIN FetchGlobal : FetchGlobal[i].kind = "global"
<1> DEFINE g == [kind |-> "global", of |-> "", heard |-> TRUE]
<1>1. g \in BtReqRecs /\ g.kind = "global"
  BY DEF BtReqRecs
<1>2. FetchGlobal = <<g>> \/ FetchGlobal = <<>>
  BY Zenon DEF FetchGlobal
<1> HIDE DEF g
<1>3. \A x : DOMAIN <<x>> = {1} /\ <<x>>[1] = x /\ (x \in BtReqRecs => <<x>> \in Seq(BtReqRecs))
  BY OneOrNone, Zenon
<1>4. \A i \in DOMAIN FetchGlobal : FetchGlobal[i] = g
  BY <1>2, <1>3
<1>5. FetchGlobal \in Seq(BtReqRecs)
  BY <1>1, <1>2, <1>3, OneOrNone, Zenon
<1> QED BY <1>1, <1>4, <1>5, Zenon

LEMMA ShownUi ==
  ASSUME UiTypes, NEW id, ShowMade(id) \/ (btSelector' = [btSelector EXCEPT !.open = FALSE] /\ btReqs' = Unsubscribed(btReqs)),
         UNCHANGED btModal, btTeam' \in SUBSET ToSet(BtTeam), btGlobal' \in SUBSET ToSet(BtGlobal)
  PROVE  UiTypes' /\ PreviewInv'
<1>1. btSelector' = [btSelector EXCEPT !.open = FALSE] /\ btReqs' = Unsubscribed(btReqs)
  BY DEF ShowMade
<1>2. btSelector' \in BtSelectors
      /\ ~btSelector'.open
  BY <1>1 DEF UiTypes, BtSelectors
<1>3. btReqs' \in Seq(BtReqRecs) /\ \A i \in DOMAIN btReqs' : ~btReqs'[i].heard
  BY <1>1, NobodyListens DEF UiTypes
<1> QED BY <1>2, <1>3 DEF UiTypes, PreviewInv, PreviewOfActive

LEMMA SameUi ==
  ASSUME UiTypes, PreviewInv, UNCHANGED <<btSelector, btReqs>>, btModal' \in BtModals,
         btTeam' \in SUBSET ToSet(BtTeam), btGlobal' \in SUBSET ToSet(BtGlobal)
  PROVE  UiTypes' /\ PreviewInv'
BY DEF UiTypes, PreviewInv, PreviewOfActive

LEMMA OpenUi ==
  ASSUME UiTypes, PreviewInv, OpenSelector
  PROVE  UiTypes' /\ PreviewInv'
<1>1. PICK c \in BtChannels \cup {""} :
        btSelector' = [open |-> TRUE, channel |-> c, active |-> FirstOf(BtGlobal \o BtTeam, AllTemplates), preview |-> ""]
  BY DEF OpenSelector
<1> DEFINE a == btSelector'.active
           p == IF a = "" THEN <<>> ELSE <<PreviewOf(a)>>
<1>2. /\ btSelector' \in BtSelectors
      /\ btSelector'.open /\ btSelector'.preview = "" /\ a \in BtTemplates \cup {""}
  <2>1. FirstOf(BtGlobal \o BtTeam, AllTemplates) \in BtTemplates \cup {""}
    BY FirstIsTemplate
  <2> QED BY <1>1, <2>1, NamesApart DEF BtPlaces, BtSelectors
<1>3. ~btSelector.open /\ btReqs' = btReqs \o p \o FetchGlobal
  BY DEF OpenSelector
<1>4. p \in Seq(BtReqRecs) /\ \A i \in DOMAIN p : p[i].of = a /\ a # ""
  <2>1. a # "" => PreviewOf(a) \in BtReqRecs
    <3>1. a # "" => a \in BtTemplates
      BY <1>2, Zenon
    <3> QED BY <3>1 DEF PreviewOf, BtReqRecs
  <2>2. PreviewOf(a).of = a
    BY DEF PreviewOf
  <2> HIDE DEF a
  <2>3. CASE a = ""
    <3>1. p = <<>>
      BY <2>3, Zenon
    <3> HIDE DEF p
    <3> QED BY <3>1, OneOrNone, Zenon
  <2>4. CASE a # ""
    <3>1. p = <<PreviewOf(a)>>
      BY <2>4, Zenon
    <3> HIDE DEF p
    <3>2. \A x : DOMAIN <<x>> = {1} /\ <<x>>[1] = x /\ (x \in BtReqRecs => <<x>> \in Seq(BtReqRecs))
      BY OneOrNone, Zenon
    <3>3. \A i \in DOMAIN p : p[i] = PreviewOf(a)
      BY <3>1, <3>2
    <3> QED BY <3>1, <3>2, <3>3, <2>1, <2>2, <2>4, Zenon
  <2> QED BY <2>3, <2>4, Zenon
<1>5. FetchGlobal \in Seq(BtReqRecs) /\ \A i \in DOMAIN FetchGlobal : FetchGlobal[i].kind = "global"
  BY FetchIsRequest
<1>6. btReqs \in Seq(BtReqRecs)
  BY DEF UiTypes
<1> HIDE DEF p, a
<1>7. btReqs' \in Seq(BtReqRecs) /\ OfThree(btReqs', btReqs, p, FetchGlobal)
  BY <1>3, <1>4, <1>5, <1>6, JoinedThree, Zenon
<1>8. UiTypes'
  BY <1>2, <1>7 DEF UiTypes, OpenSelector
<1>9. ASSUME NEW i \in DOMAIN btReqs', btReqs'[i].kind = "preview", btReqs'[i].heard
      PROVE  btSelector'.open /\ btReqs'[i].of = btSelector'.active /\ btSelector'.active # ""
  <2>1. CASE \E j \in DOMAIN btReqs : btReqs'[i] = btReqs[j]
    BY <1>3, <1>9, <2>1, Zenon DEF PreviewInv
  <2>2. CASE \E j \in DOMAIN p : btReqs'[i] = p[j]
    BY <1>2, <1>4, <2>2, Zenon DEF a
  <2>3. CASE \E j \in DOMAIN FetchGlobal : btReqs'[i] = FetchGlobal[j]
    <3>1. btReqs'[i].kind = "global"
      BY <1>5, <2>3, Zenon
    <3> QED BY <3>1, <1>9
  <2> QED BY <1>7, <2>1, <2>2, <2>3, Zenon DEF OfThree
<1> QED BY <1>2, <1>8, <1>9 DEF PreviewInv, PreviewOfActive

LEMMA SelectUi ==
  ASSUME UiTypes, PreviewInv, Select
  PROVE  UiTypes' /\ PreviewInv'
<1>1. PICK t \in AllTemplates : /\ btSelector' = SetActiveTemplate(btSelector, t)
                                /\ btReqs' = Append(Unsubscribed(btReqs), PreviewOf(t))
  BY DEF Select
<1>2. t \in BtTemplates /\ t # ""
  BY NamesApart, Zenon DEF UiTypes, AllTemplates
<1>3. btSelector' \in BtSelectors /\ btSelector'.open /\ btSelector'.active = t /\ btSelector'.preview = ""
  BY <1>1, <1>2 DEF Select, SetActiveTemplate, UiTypes, BtSelectors
<1>4. PreviewOf(t) \in BtReqRecs /\ PreviewOf(t).of = t
  BY <1>2 DEF PreviewOf, BtReqRecs
<1>5. Unsubscribed(btReqs) \in Seq(BtReqRecs) /\ \A i \in DOMAIN Unsubscribed(btReqs) : ~Unsubscribed(btReqs)[i].heard
  BY NobodyListens DEF UiTypes
<1>6. /\ btReqs' \in Seq(BtReqRecs)
      /\ \A i \in DOMAIN btReqs' : ~btReqs'[i].heard \/ btReqs'[i].of = t
  <2> DEFINE u == Unsubscribed(btReqs)
             p == PreviewOf(t)
  <2>1. btReqs' = Append(u, p) /\ u \in Seq(BtReqRecs) /\ p \in BtReqRecs /\ p.of = t /\ \A i \in DOMAIN u : ~u[i].heard
    BY <1>1, <1>4, <1>5
  <2> HIDE DEF u, p
  <2>2. /\ Append(u, p) \in Seq(BtReqRecs) /\ DOMAIN Append(u, p) = 1 .. Len(u) + 1 /\ DOMAIN u = 1 .. Len(u) /\ Len(u) \in Nat
        /\ Append(u, p)[Len(u) + 1] = p /\ \A i \in DOMAIN u : Append(u, p)[i] = u[i]
    BY <2>1, BtAppended
  <2>3. \A i \in 1 .. Len(u) + 1 : i \in 1 .. Len(u) \/ i = Len(u) + 1
    BY <2>2
  <2> QED BY <2>1, <2>2, <2>3, Zenon
<1>7. UiTypes'
  BY <1>3, <1>6 DEF UiTypes, Select
<1> QED BY <1>2, <1>3, <1>6, <1>7 DEF PreviewInv, PreviewOfActive

LEMMA ArrivePreviewUi ==
  ASSUME UiTypes, PreviewInv, ArrivePreview
  PROVE  UiTypes' /\ PreviewInv'
<1>1. PICK i \in DOMAIN btReqs, found \in BOOLEAN :
        /\ btReqs[i].kind = "preview" /\ btReqs' = RemoveAt(btReqs, i)
        /\ btSelector' = IF btReqs[i].heard /\ found THEN [btSelector EXCEPT !.preview = btReqs[i].of] ELSE btSelector
  BY DEF ArrivePreview
<1>2. btReqs \in Seq(BtReqRecs) /\ btReqs[i] \in BtReqRecs
  BY DEF UiTypes
<1>3. btReqs' \in Seq(BtReqRecs) /\ \A j \in DOMAIN btReqs' : \E k \in DOMAIN btReqs : btReqs'[j] = btReqs[k]
  BY <1>1, <1>2, RemoveAtType, RemoveAtElements
<1>4. CASE btReqs[i].heard /\ found
  <2>1. btSelector.open /\ btReqs[i].of = btSelector.active
    BY <1>1, <1>4, Zenon DEF PreviewInv
  <2>2. /\ btSelector' \in BtSelectors /\ btSelector'.open = btSelector.open /\ btSelector'.active = btSelector.active
        /\ btSelector'.preview = btSelector.active
    BY <1>1, <1>2, <1>4, <2>1 DEF UiTypes, BtReqRecs, BtSelectors
  <2>3. UiTypes'
    BY <1>3, <2>2 DEF UiTypes, ArrivePreview
  <2> QED BY <1>3, <2>2, <2>3, Zenon DEF PreviewInv, PreviewOfActive
<1>5. CASE ~(btReqs[i].heard /\ found)
  <2>1. btSelector' = btSelector
    BY <1>1, <1>5
  <2>2. UiTypes'
    BY <1>3, <2>1 DEF UiTypes, ArrivePreview
  <2> QED BY <1>3, <2>1, <2>2, Zenon DEF PreviewInv, PreviewOfActive
<1> QED BY <1>4, <1>5

LEMMA ArriveGlobalUi ==
  ASSUME UiTypes, PreviewInv, ArriveGlobal
  PROVE  UiTypes' /\ PreviewInv'
<1>1. PICK i \in DOMAIN btReqs :
        IF btSelector.open /\ btSelector.active = ""
        THEN /\ btSelector' = SetActiveTemplate(btSelector, FirstOf(BtTeam \o BtGlobal, btTeam \cup btGlobal'))
             /\ btReqs' = IF btSelector'.active = "" THEN RemoveAt(btReqs, i) ELSE Append(RemoveAt(btReqs, i), PreviewOf(btSelector'.active))
        ELSE btReqs' = RemoveAt(btReqs, i) /\ UNCHANGED btSelector
  BY Zenon DEF ArriveGlobal
<1> DEFINE rest == RemoveAt(btReqs, i)
<1>2. rest \in Seq(BtReqRecs) /\ \A j \in DOMAIN rest : \E k \in DOMAIN btReqs : rest[j] = btReqs[k]
  BY RemoveAtType, RemoveAtElements DEF UiTypes
<1>3. btGlobal' \in SUBSET ToSet(BtGlobal) /\ UNCHANGED <<btTeam, btModal>>
  <2>1. btGlobal' = ToSet(BtGlobal) \/ btGlobal' = {}
    BY Zenon DEF ArriveGlobal
  <2> QED BY <2>1 DEF ArriveGlobal
<1>4. CASE btSelector.open /\ btSelector.active = ""
  <2> DEFINE a == FirstOf(BtTeam \o BtGlobal, btTeam \cup btGlobal')
  <2>1. a \in BtTemplates \cup {""}
    BY FirstIsTemplate, Zenon
  <2>2. btSelector' = SetActiveTemplate(btSelector, a)
    BY <1>1, <1>4, Zenon
  <2> HIDE DEF a
  <2>3. btSelector' \in BtSelectors /\ btSelector'.open /\ btSelector'.active = a /\ btSelector'.preview = ""
    BY <1>4, <2>1, <2>2 DEF SetActiveTemplate, UiTypes, BtSelectors
  <2>4. btReqs' = IF a = "" THEN rest ELSE Append(rest, PreviewOf(a))
    BY <1>1, <1>4, <2>3, Zenon
  <2>5. \A j \in DOMAIN rest : rest[j].kind = "preview" => ~rest[j].heard
    BY <1>2, <1>4, Zenon DEF PreviewInv
  <2> HIDE DEF rest
  <2>6. CASE a = ""
    <3>1. btReqs' = rest
      BY <2>4, <2>6
    <3>2. UiTypes'
      BY <1>2, <1>3, <2>3, <3>1 DEF UiTypes
    <3> QED BY <2>3, <2>5, <3>1, <3>2, Zenon DEF PreviewInv, PreviewOfActive
  <2>7. CASE a # ""
    <3>1. btReqs' = Append(rest, PreviewOf(a))
      BY <2>4, <2>7, Zenon
    <3>2. PreviewOf(a) \in BtReqRecs /\ PreviewOf(a).of = a
      BY <2>1, <2>7 DEF PreviewOf, BtReqRecs
    <3>3. btReqs' \in Seq(BtReqRecs) /\ \A j \in DOMAIN btReqs' : (\E k \in DOMAIN rest : btReqs'[j] = rest[k]) \/ btReqs'[j] = PreviewOf(a)
      BY <1>2, <3>1, <3>2, AppendedOne
    <3>4. UiTypes'
      BY <1>3, <2>3, <3>3 DEF UiTypes
    <3>5. \A j \in DOMAIN btReqs' : btReqs'[j].kind = "preview" /\ btReqs'[j].heard => btReqs'[j].of = a
      BY <2>5, <3>2, <3>3, Zenon
    <3> QED BY <2>3, <2>7, <3>4, <3>5, Zenon DEF PreviewInv, PreviewOfActive
  <2> QED BY <2>6, <2>7
<1>5. CASE ~(btSelector.open /\ btSelector.active = "")
  <2>1. btReqs' = rest /\ btSelector' = btSelector
    BY <1>1, <1>5, Zenon
  <2> HIDE DEF rest
  <2>2. UiTypes'
    BY <1>2, <1>3, <2>1 DEF UiTypes
  <2> QED BY <1>2, <2>1, <2>2, ZenonT(60) DEF PreviewInv, PreviewOfActive
<1> QED BY <1>4, <1>5

LEMMA OpenDialogUi ==
  ASSUME UiTypes, PreviewInv, OpenChannelDialog
  PROVE  UiTypes' /\ PreviewInv'
<1>1. btReqs' = btReqs \o FetchGlobal /\ UNCHANGED <<btTeam, btGlobal, btSelector>> /\ btModal' = [NoModal EXCEPT !.open = TRUE]
  BY DEF OpenChannelDialog
<1>2. FetchGlobal \in Seq(BtReqRecs) /\ btReqs \in Seq(BtReqRecs)
  BY FetchIsRequest DEF UiTypes
<1>3. btReqs' \in Seq(BtReqRecs) /\ OfEither(btReqs', btReqs, FetchGlobal)
  BY <1>1, <1>2, Joined, Zenon
<1>4. btModal' \in BtModals
  BY <1>1 DEF NoModal, BtModals, BtChoices
<1>5. UiTypes'
  BY <1>1, <1>3, <1>4 DEF UiTypes
<1>6. \A i \in DOMAIN btReqs' : btReqs'[i].kind = "preview" => \E j \in DOMAIN btReqs : btReqs'[i] = btReqs[j]
  <2>1. \A x : x = "global" => x # "preview"
    OBVIOUS
  <2> QED BY <1>3, <2>1, FetchIsRequest, Zenon DEF OfEither
<1> QED BY <1>1, <1>5, <1>6, ZenonT(60) DEF PreviewInv, PreviewOfActive

LEMMA DialogUi ==
  ASSUME UiTypes, PreviewInv, CancelDialog \/ ShowNewBoardTemplateSelector \/ ChooseTemplate \/ AddBoardToChannel
  PROVE  UiTypes' /\ PreviewInv'
<1>1. btModal \in BtModals /\ UNCHANGED <<btTeam, btGlobal, btSelector, btReqs>>
  BY DEF UiTypes, CancelDialog, ShowNewBoardTemplateSelector, ChooseTemplate, AddBoardToChannel
<1>2. CASE CancelDialog \/ AddBoardToChannel
  <2>1. btModal' = NoModal
    BY <1>2, Zenon DEF CancelDialog, AddBoardToChannel
  <2>2. btModal' \in BtModals
    BY <2>1 DEF NoModal, BtModals, BtChoices
  <2> QED BY <1>1, <2>2, SameUi DEF UiTypes
<1>3. ASSUME NEW m \in BtChoices
      PROVE  SetCanCreate(m) \in BtModals
  <2>1. SetCanCreate(m) \in BtChoices
    BY DEF BtChoices, SetCanCreate
  <2>2. /\ SetCanCreate(m).add = m.add /\ SetCanCreate(m).template = m.template
        /\ SetCanCreate(m).mayCreate = (~m.add \/ m.template # "")
    BY DEF BtChoices, SetCanCreate
  <2> QED BY <2>1, <2>2, Zenon DEF BtModals
<1>4. CASE ShowNewBoardTemplateSelector
  <2>1. [btModal EXCEPT !.add = ~@] \in BtChoices
    BY <1>1 DEF BtModals, BtChoices
  <2>2. btModal' = SetCanCreate([btModal EXCEPT !.add = ~@])
    BY <1>4 DEF ShowNewBoardTemplateSelector
  <2>3. btModal' \in BtModals
    BY <1>3, <2>1, <2>2, Zenon
  <2> QED BY <1>1, <2>3, SameUi DEF UiTypes
<1>5. CASE ChooseTemplate
  <2>1. PICK t \in AllTemplates \cup {Empty} : btModal' = SetCanCreate([btModal EXCEPT !.template = t])
    BY <1>5 DEF ChooseTemplate
  <2>2. t \in BtSources
    BY NamesApart, Zenon DEF UiTypes, AllTemplates, BtSources
  <2>3. [btModal EXCEPT !.template = t] \in BtChoices
    BY <1>1, <2>2 DEF BtModals, BtChoices
  <2>4. btModal' \in BtModals
    BY <1>3, <2>1, <2>3, Zenon
  <2> QED BY <1>1, <2>4, SameUi DEF UiTypes
<1> QED BY <1>2, <1>4, <1>5

----------------------------------------------------------------------------
(***************************************************************************)
(* What the steps do to the boards, the handlers and the commands.          *)
(***************************************************************************)
MadeInv == MadeTypes /\ LinkInv /\ UndoRemoves /\ ChosenInv /\ TakenBackInv /\ ShownInv

\* The past is the same but for the counters and what was lost.
OldPast ==
  /\ btPast' \in BtPasts
  /\ btPast'.asked = btPast.asked /\ btPast'.channels = btPast.channels /\ btPast'.redone = btPast.redone
  /\ btPast'.overtaken = btPast.overtaken /\ btPast'.unlisted = btPast.unlisted /\ btPast'.unlinked = btPast.unlinked

\* A command that is about no board is registered: a deletion, or a refused copy.
Noted ==
  \E x \in BtCommands :
    /\ x.kind # "link" /\ x.board = 0 /\ Known(Len(btBoards), x)
    /\ x.kind = "create" => x.task.before \in {btTasks[i].before : i \in DOMAIN btTasks}
    /\ btUndo' = Registered(x)

\* A handler ends without what it was for.
TaskDropped == \E i \in DOMAIN btTasks : btTasks' = RemoveAt(btTasks, i) /\ btPast'.lost = btPast.lost \cup {btTasks[i].channel}

\* No board is made, linked or taken back.
Passed ==
  /\ btBoards' = btBoards /\ btPage' \in {btPage, 0} /\ OldPast
  /\ btUndo' = btUndo \/ Noted
  /\ (btTasks' = btTasks /\ btPast'.lost = btPast.lost) \/ TaskDropped

LEMMA PastOf ==
  ASSUME MadeTypes
  PROVE  /\ btPast.clicks \in Nat /\ btPast.faults \in Nat /\ btPast.asked \in Seq(BtPlaces)
         /\ btPast.channels \in Seq(BtSources \cup {NotAsked}) /\ btPast.redone \in BOOLEAN /\ btPast.overtaken \in BOOLEAN
         /\ btPast.lost \in SUBSET BtPlaces /\ btPast.unlisted \in SUBSET Nat /\ btPast.unlinked \in SUBSET Nat
BY DEF MadeTypes, BtPasts

LEMMA Ticked ==
  ASSUME MadeTypes,
         \/ btPast' = [btPast EXCEPT !.clicks = @ + 1] \/ btPast' = [btPast EXCEPT !.faults = @ + 1] \/ btPast' = btPast
         \/ btPast' = [btPast EXCEPT !.clicks = @ + 1, !.faults = @ + 1]
  PROVE  OldPast /\ btPast'.lost = btPast.lost
<1>1. btPast \in BtPasts /\ btPast.clicks \in Nat /\ btPast.faults \in Nat
  BY PastOf DEF MadeTypes
<1>2. CASE btPast' = [btPast EXCEPT !.clicks = @ + 1]
  BY <1>1, <1>2 DEF BtPasts, OldPast
<1>3. CASE btPast' = [btPast EXCEPT !.faults = @ + 1]
  BY <1>1, <1>3 DEF BtPasts, OldPast
<1>4. CASE btPast' = btPast
  BY <1>1, <1>4 DEF OldPast
<1>5. CASE btPast' = [btPast EXCEPT !.clicks = @ + 1, !.faults = @ + 1]
  <2> DEFINE a == btPast.clicks + 1
             b == btPast.faults + 1
  <2>1. a \in Nat /\ b \in Nat /\ btPast' = [btPast EXCEPT !.clicks = a, !.faults = b]
    BY <1>1, <1>5
  <2> HIDE DEF a, b
  <2> QED BY <1>1, <2>1 DEF BtPasts, OldPast
<1> QED BY <1>2, <1>3, <1>4, <1>5

LEMMA TaskOf ==
  ASSUME MadeTypes, NEW i \in DOMAIN btTasks
  PROVE  /\ btTasks[i] \in BtTaskRecs /\ btTasks[i].of \in BtSources /\ btTasks[i].channel \in BtPlaces
         /\ btTasks[i].from \in {"selector", "dialog"}
         /\ btTasks[i].board \in 0 .. Len(btBoards) /\ btTasks[i].before \in 0 .. Len(btBoards)
         /\ Len(btBoards) \in Nat
<1>1. btTasks[i] \in BtTaskRecs /\ TaskKnown(Len(btBoards), btTasks[i]) /\ Len(btBoards) \in Nat
  BY DEF MadeTypes
<1> QED BY <1>1 DEF BtTaskRecs, TaskKnown

LEMMA LookedPasses ==
  ASSUME BtTypes,
         \/ OpenSelector \/ Select \/ CloseSelector \/ EditTemplate \/ ArrivePreview \/ ArriveGlobal
         \/ OpenChannelDialog \/ CancelDialog \/ ShowNewBoardTemplateSelector \/ ChooseTemplate
  PROVE  Passed
<1>1. UNCHANGED <<btBoards, btTasks, btUndo>>
  BY DEF OpenSelector, Select, CloseSelector, EditTemplate, ArrivePreview, ArriveGlobal,
     OpenChannelDialog, CancelDialog, ShowNewBoardTemplateSelector, ChooseTemplate
<1>2. btPage' \in {btPage, 0}
  BY Zenon DEF OpenSelector, Select, CloseSelector, EditTemplate, ArrivePreview, ArriveGlobal, ShowMade,
     OpenChannelDialog, CancelDialog, ShowNewBoardTemplateSelector, ChooseTemplate
<1>3. \/ btPast' = [btPast EXCEPT !.clicks = @ + 1] \/ btPast' = [btPast EXCEPT !.faults = @ + 1] \/ btPast' = btPast
  BY Zenon DEF OpenSelector, Select, CloseSelector, EditTemplate, ArrivePreview, ArriveGlobal, BtClick,
     OpenChannelDialog, CancelDialog, ShowNewBoardTemplateSelector, ChooseTemplate
<1>4. OldPast /\ btPast'.lost = btPast.lost
  BY <1>3, Ticked DEF BtTypes
<1> QED BY <1>1, <1>2, <1>4 DEF Passed

LEMMA DeletedPasses ==
  ASSUME BtTypes, OnBoardTemplateDelete
  PROVE  Passed
<1>1. PICK t \in btTeam :
        /\ btPast' = [btPast EXCEPT !.clicks = @ + 1] \/ btPast' = [btPast EXCEPT !.clicks = @ + 1, !.faults = @ + 1]
        /\ btUndo' = Registered(DeleteCommand(t))
  BY DEF OnBoardTemplateDelete, BtClick
<1>2. OldPast /\ btPast'.lost = btPast.lost
  BY <1>1, Ticked DEF BtTypes
<1>3. UNCHANGED <<btBoards, btTasks, btPage>>
  BY DEF OnBoardTemplateDelete
<1> DEFINE x == DeleteCommand(t)
<1>4. x \in BtCommands /\ x.kind = "delete" /\ x.board = 0
  BY DEF BtTypes, UiTypes, BtCommands, DeleteCommand
<1>5. Len(btBoards) \in Nat
  BY DEF BtTypes, MadeTypes
<1>6. Known(Len(btBoards), x)
  BY <1>4, <1>5 DEF Known
<1> HIDE DEF x
<1>7. Noted
  BY <1>1, <1>4, <1>6 DEF Noted, x
<1> QED BY <1>2, <1>3, <1>7 DEF Passed

LEMMA NothingPasses ==
  ASSUME BtTypes, NEW i \in DOMAIN btTasks, MakeNothing(i),
         btUndo' = btUndo \/ btUndo' = Registered(CreateCommand(btTasks[i], 0))
  PROVE  Passed
<1>1. btTasks' = RemoveAt(btTasks, i) /\ UNCHANGED <<btBoards, btPage>>
  BY DEF MakeNothing
<1>2. OldPast /\ btPast'.lost = btPast.lost \cup {btTasks[i].channel}
  <2>1. btPast' = [btPast EXCEPT !.faults = IF Exists(btTasks[i].of) THEN @ + 1 ELSE @, !.lost = @ \cup {btTasks[i].channel}]
    BY DEF MakeNothing
  <2>2. btTasks[i].channel \in BtPlaces
    BY TaskOf DEF BtTypes
  <2>3. btPast.faults \in Nat /\ btPast.lost \in SUBSET BtPlaces /\ btPast \in BtPasts
    BY PastOf DEF BtTypes, MadeTypes
  <2> DEFINE b == IF Exists(btTasks[i].of) THEN btPast.faults + 1 ELSE btPast.faults
             l == btPast.lost \cup {btTasks[i].channel}
  <2>4. b \in Nat /\ l \in SUBSET BtPlaces
    BY <2>2, <2>3
  <2>5. btPast' = [btPast EXCEPT !.faults = b, !.lost = l]
    BY <2>1
  <2> HIDE DEF b, l
  <2>6. OldPast /\ btPast'.lost = l
    BY <2>3, <2>4, <2>5 DEF BtPasts, OldPast
  <2> QED BY <2>6 DEF l
<1> DEFINE x == CreateCommand(btTasks[i], 0)
<1>3. btTasks[i] \in BtTaskRecs /\ btTasks[i].of \in BtSources /\ btTasks[i].before \in 0 .. Len(btBoards) /\ Len(btBoards) \in Nat
  BY TaskOf DEF BtTypes
<1>4. x \in BtCommands /\ x.kind = "create" /\ x.board = 0 /\ x.task = btTasks[i]
  BY <1>3 DEF BtCommands, CreateCommand
<1>5. Known(Len(btBoards), x)
  BY <1>3, <1>4 DEF Known
<1>6. x.task.before \in {btTasks[j].before : j \in DOMAIN btTasks}
  BY <1>4
<1> HIDE DEF x
<1>7. btUndo' = btUndo \/ Noted
  <2>1. x.kind # "link"
    BY <1>4
  <2>2. btUndo' = btUndo \/ btUndo' = Registered(x)
    BY DEF x
  <2> QED BY <1>4, <1>5, <1>6, <2>1, <2>2, Zenon DEF Noted
<1> QED BY <1>1, <1>2, <1>7 DEF Passed, TaskDropped

LEMMA UnlinkedPasses ==
  ASSUME BtTypes, NEW i \in DOMAIN btTasks, btTasks' = RemoveAt(btTasks, i), UNCHANGED <<btBoards, btUndo, btPage>>,
         btPast' = [btPast EXCEPT !.faults = IF btBoards[btTasks[i].board].alive THEN @ + 1 ELSE @,
                                  !.lost = @ \cup {btTasks[i].channel}]
  PROVE  Passed
<1>2. btTasks[i].channel \in BtPlaces
  BY TaskOf DEF BtTypes
<1>3. btPast.faults \in Nat /\ btPast.lost \in SUBSET BtPlaces /\ btPast \in BtPasts
  BY PastOf DEF BtTypes, MadeTypes
<1> DEFINE b == IF btBoards[btTasks[i].board].alive THEN btPast.faults + 1 ELSE btPast.faults
           l == btPast.lost \cup {btTasks[i].channel}
<1>4. b \in Nat /\ l \in SUBSET BtPlaces
  BY <1>2, <1>3
<1>5. btPast' = [btPast EXCEPT !.faults = b, !.lost = l]
  OBVIOUS
<1> HIDE DEF b, l
<1>6. OldPast /\ btPast'.lost = l
  BY <1>3, <1>4, <1>5 DEF BtPasts, OldPast
<1> QED BY <1>6 DEF l, Passed, TaskDropped

----------------------------------------------------------------------------
\* A history with a command more, and what is known of its commands.
LEMMA KnownLater ==
  ASSUME NEW n \in Nat, NEW m \in Nat, n <= m, NEW q, KnownAll(n, q)
  PROVE  KnownAll(m, q)
BY DEF KnownAll, Known

LEMMA KnownMore ==
  ASSUME NEW p, NEW q, NEW x, OneMore(p, q, x), NEW n
  PROVE  /\ KnownAll(n, q) /\ Known(n, x) => KnownAll(n, p)
         /\ KnownAll(n, p) => KnownAll(n, q) /\ Known(n, x)
<1>1. PICK k \in DOMAIN p, f \in [DOMAIN q -> DOMAIN p] :
        /\ p[k] = x
        /\ \A i \in DOMAIN q : f[i] # k /\ p[f[i]] = q[i]
        /\ \A i \in DOMAIN p : i = k \/ \E j \in DOMAIN q : i = f[j]
  BY ZenonT(60) DEF OneMore
<1>2. \A i \in DOMAIN q : f[i] \in DOMAIN p
  BY <1>1
<1>3. KnownAll(n, q) /\ Known(n, x) => KnownAll(n, p)
  BY <1>1 DEF KnownAll
<1>4. KnownAll(n, p) => KnownAll(n, q) /\ Known(n, x)
  BY <1>1, <1>2 DEF KnownAll
<1> QED BY <1>3, <1>4

LEMMA UndoOf ==
  ASSUME MadeTypes
  PROVE  /\ btUndo.done \in Seq(BtCommands) /\ btUndo.undone \in Seq(BtCommands) /\ btUndo.stuck \in BOOLEAN
         /\ KnownAll(Len(btBoards), btUndo.done) /\ KnownAll(Len(btBoards), btUndo.undone) /\ Len(btBoards) \in Nat
BY DEF MadeTypes, BtUndos

LEMMA RegisteredOne ==
  ASSUME MadeTypes, NEW x \in BtCommands, btUndo' = Registered(x)
  PROVE  /\ btUndo' \in BtUndos
         /\ btUndo.stuck => btUndo' = btUndo
         /\ ~btUndo.stuck => /\ btUndo'.done = Append(btUndo.done, x) /\ btUndo'.undone = <<>> /\ ~btUndo'.stuck
                             /\ OneMore(btUndo'.done, btUndo.done, x)
<1>1. CASE btUndo.stuck
  BY <1>1 DEF Registered, MadeTypes
<1>2. CASE ~btUndo.stuck
  <2>1. btUndo' = [btUndo EXCEPT !.done = Append(@, x), !.undone = <<>>]
    BY <1>2 DEF Registered
  <2> DEFINE p == Append(btUndo.done, x)
             e == <<>>
  <2>2. p \in Seq(BtCommands) /\ e \in Seq(BtCommands) /\ OneMore(p, btUndo.done, x)
    BY UndoOf, BtAppended, OneMoreAppended, OneOrNone
  <2>3. btUndo' = [btUndo EXCEPT !.done = p, !.undone = e]
    BY <2>1
  <2> HIDE DEF p, e
  <2>4. btUndo' \in BtUndos /\ btUndo'.done = p /\ btUndo'.undone = e /\ btUndo'.stuck = btUndo.stuck
    BY <2>2, <2>3 DEF MadeTypes, BtUndos
  <2> QED BY <1>2, <2>2, <2>4 DEF p, e
<1> QED BY <1>1, <1>2

LEMMA RegisteredIsKnown ==
  ASSUME MadeTypes, NEW x \in BtCommands, btUndo' = Registered(x), NEW n \in Nat, Len(btBoards) <= n, Known(n, x)
  PROVE  btUndo' \in BtUndos /\ KnownAll(n, btUndo'.done) /\ KnownAll(n, btUndo'.undone)
<1>1. KnownAll(n, btUndo.done) /\ KnownAll(n, btUndo.undone)
  BY UndoOf, KnownLater
<1>2. CASE btUndo.stuck
  BY <1>1, <1>2, RegisteredOne
<1>3. CASE ~btUndo.stuck
  <2>1. KnownAll(n, <<>>)
    BY DEF KnownAll
  <2> QED BY <1>1, <1>3, <2>1, RegisteredOne, KnownMore
<1> QED BY <1>2, <1>3

----------------------------------------------------------------------------
LEMMA PassedTypes ==
  ASSUME MadeTypes, Passed
  PROVE  MadeTypes'
<1>1. btPage' \in 0 .. Len(btBoards) /\ Len(btBoards) \in Nat
  BY DEF MadeTypes, Passed
<1>2. btUndo' \in BtUndos /\ KnownAll(Len(btBoards), btUndo'.done) /\ KnownAll(Len(btBoards), btUndo'.undone)
  <2>1. CASE btUndo' = btUndo
    BY <2>1 DEF MadeTypes
  <2>2. CASE Noted
    <3>1. PICK x \in BtCommands : Known(Len(btBoards), x) /\ btUndo' = Registered(x)
      BY <2>2, Zenon DEF Noted
    <3> QED BY <1>1, <3>1, RegisteredIsKnown
  <2> QED BY <2>1, <2>2 DEF Passed
<1>3. btTasks' \in Seq(BtTaskRecs) /\ \A j \in DOMAIN btTasks' : TaskKnown(Len(btBoards), btTasks'[j])
  <2>1. CASE btTasks' = btTasks
    BY <2>1 DEF MadeTypes
  <2>2. CASE TaskDropped
    <3>1. PICK i \in DOMAIN btTasks : btTasks' = RemoveAt(btTasks, i)
      BY <2>2, Zenon DEF TaskDropped
    <3>2. btTasks \in Seq(BtTaskRecs) /\ \A j \in DOMAIN btTasks : TaskKnown(Len(btBoards), btTasks[j])
      BY DEF MadeTypes
    <3>3. btTasks' \in Seq(BtTaskRecs) /\ \A j \in DOMAIN btTasks' : OldPlace(i, j) \in DOMAIN btTasks /\ btTasks'[j] = btTasks[OldPlace(i, j)]
      BY <3>1, <3>2, RemovedAt
    <3> QED BY <3>2, <3>3
  <2> QED BY <2>1, <2>2 DEF Passed
<1>4. /\ btPast' \in BtPasts /\ Len(btPast'.asked) = Len(btBoards) /\ btPast'.unlinked \subseteq 1 .. Len(btBoards)
      /\ Len(btPast'.channels) \in 0 .. Len(BtNew)
  BY DEF MadeTypes, Passed, OldPast
<1>5. btBoards \in Seq(BtBoardRecs) /\ btBoards' = btBoards
  BY DEF MadeTypes, Passed
<1> QED BY <1>1, <1>2, <1>3, <1>4, <1>5 DEF MadeTypes

\* The handlers that are left are about boards that they were about before.
TasksKept ==
  /\ \A i \in DOMAIN btTasks' : btTasks'[i].board # 0 => btPast'.asked[btTasks'[i].board] = btTasks'[i].channel
  /\ \A i, j \in DOMAIN btTasks' : btTasks'[i].board # 0 /\ btTasks'[i].board = btTasks'[j].board => i = j
  /\ UnderWay' \subseteq UnderWay

LEMMA DroppedKeepsTasks ==
  ASSUME MadeTypes, LinkInv, NEW i \in DOMAIN btTasks, btTasks' = RemoveAt(btTasks, i), btPast'.asked = btPast.asked
  PROVE  TasksKept /\ btTasks[i].board \notin UnderWay'
<1>1. /\ \A j \in DOMAIN btTasks' : OldPlace(i, j) \in DOMAIN btTasks /\ OldPlace(i, j) # i /\ btTasks'[j] = btTasks[OldPlace(i, j)]
      /\ \A j, k \in DOMAIN btTasks' : OldPlace(i, j) = OldPlace(i, k) => j = k
  BY RemovedAt DEF MadeTypes
<1>2. \A j \in DOMAIN btTasks : btTasks[j].board # 0 => btPast.asked[btTasks[j].board] = btTasks[j].channel
  BY DEF LinkInv
<1>3. \A j, k \in DOMAIN btTasks : btTasks[j].board # 0 /\ btTasks[j].board = btTasks[k].board => j = k
  BY DEF LinkInv
<1>4. \A j \in DOMAIN btTasks' : btTasks'[j].board # 0 => btPast'.asked[btTasks'[j].board] = btTasks'[j].channel
  BY <1>1, <1>2
<1>5. \A j, k \in DOMAIN btTasks' : btTasks'[j].board # 0 /\ btTasks'[j].board = btTasks'[k].board => j = k
  BY <1>1, <1>3
<1>6. UnderWay' \subseteq UnderWay
  BY <1>1 DEF UnderWay
<1>7. btTasks[i].board \notin UnderWay'
  BY <1>1, <1>3 DEF UnderWay
<1> QED BY <1>4, <1>5, <1>6, <1>7 DEF TasksKept

LEMMA SameKeepsTasks ==
  ASSUME LinkInv, btTasks' = btTasks, btPast'.asked = btPast.asked
  PROVE  TasksKept
BY DEF LinkInv, TasksKept, UnderWay

\* Neither a board nor a command of a link is new.
LEMMA LinksSame ==
  ASSUME LinkInv, TasksKept, btPast'.asked = btPast.asked, btPast'.unlinked = btPast.unlinked,
         DOMAIN btBoards' = DOMAIN btBoards, \A id \in DOMAIN btBoards : btBoards'[id].channel = btBoards[id].channel,
         \A c \in OfKind(btUndo.done, "link") : c.board \in DOMAIN btBoards,
         OfKind(btUndo'.done, "link") \subseteq OfKind(btUndo.done, "link"), OncePer(btUndo'.done, "link"),
         OfKind(btUndo'.undone, "link") \subseteq OfKind(btUndo.undone, "link"), OncePer(btUndo'.undone, "link")
  PROVE  LinkInv'
<1>1. \A id \in DOMAIN btBoards' : btBoards'[id].channel # "" => btBoards'[id].channel = btPast'.asked[id]
  BY Zenon DEF LinkInv
<1>2. \A c \in OfKind(btUndo'.done, "link") : c.channel = btPast'.asked[c.board] /\ btBoards'[c.board].channel = c.channel
  BY Zenon DEF LinkInv
<1>3. \A c \in OfKind(btUndo'.undone, "link") : c.channel = btPast'.asked[c.board]
  BY Zenon DEF LinkInv
<1>4. LinkedBy(btUndo'.done) \subseteq LinkedBy(btUndo.done) /\ LinkedBy(btUndo'.undone) \subseteq LinkedBy(btUndo.undone)
  BY DEF LinkedBy
<1>5. LinkedBy(btUndo'.done) \cap LinkedBy(btUndo'.undone) = {}
  BY <1>4 DEF LinkInv
<1>6. UnderWay' \cap (LinkedBy(btUndo'.done) \cup LinkedBy(btUndo'.undone) \cup btPast'.unlinked) = {}
  BY <1>4 DEF LinkInv, TasksKept
<1> QED BY <1>1, <1>2, <1>3, <1>5, <1>6, Zenon DEF LinkInv, TasksKept

LEMMA LinkCommandOf ==
  ASSUME NEW n \in Nat, NEW q \in Seq(BtCommands), KnownAll(n, q)
  PROVE  /\ \A c \in OfKind(q, "link") : c \in BtCommands /\ c.board \in 1 .. n /\ c.channel \in BtPlaces
         /\ \A c \in OfKind(q, "create") : c \in BtCommands /\ c.board \in 0 .. n /\ c.task \in BtTaskRecs /\ c.task.before \in 0 .. n
         /\ 0 \notin LinkedBy(q)
<1>1. \A i \in DOMAIN q : q[i] \in BtCommands /\ Known(n, q[i])
  BY DEF KnownAll
<1>2. \A c \in BtCommands : c.kind = "link" => c.board \in Nat \ {0} /\ c.channel \in BtPlaces
  BY DEF BtCommands
<1>3. \A c \in BtCommands : c.kind = "create" => c.task \in BtTaskRecs
  BY DEF BtCommands
<1>4. \A c \in OfKind(q, "link") : c \in BtCommands /\ c.board \in 1 .. n /\ c.channel \in BtPlaces
  BY <1>1, <1>2 DEF OfKind, Known
<1>5. \A c \in OfKind(q, "create") : c \in BtCommands /\ c.board \in 0 .. n /\ c.task \in BtTaskRecs /\ c.task.before \in 0 .. n
  BY <1>1, <1>3 DEF OfKind, Known
<1>6. 0 \notin LinkedBy(q)
  BY <1>4 DEF LinkedBy
<1> QED BY <1>4, <1>5, <1>6

\* What is registered is the last command, and what could be redone is gone.
LEMMA RegisteredKinds ==
  ASSUME MadeTypes, NEW x \in BtCommands, btUndo' = Registered(x), NEW kind
  PROVE  /\ OfKind(btUndo.done, kind) \subseteq OfKind(btUndo'.done, kind)
         /\ \A c \in OfKind(btUndo'.done, kind) : c \in OfKind(btUndo.done, kind) \/ (c = x /\ x.kind = kind)
         /\ OncePer(btUndo.done, kind) /\ (x.kind = kind /\ x.board # 0 => \A c \in OfKind(btUndo.done, kind) : c.board # x.board)
              => OncePer(btUndo'.done, kind)
         /\ OfKind(btUndo'.undone, kind) \subseteq OfKind(btUndo.undone, kind)
         /\ OncePer(btUndo.undone, kind) => OncePer(btUndo'.undone, kind)
         /\ x.kind = kind /\ ~btUndo.stuck => x \in OfKind(btUndo'.done, kind) /\ OfKind(btUndo'.undone, kind) = {}
<1>1. CASE btUndo.stuck
  <2>1. btUndo' = btUndo
    BY <1>1, RegisteredOne
  <2> QED BY <1>1, <2>1
<1>2. CASE ~btUndo.stuck
  <2>1. OneMore(btUndo'.done, btUndo.done, x) /\ btUndo'.undone = <<>>
    BY <1>2, RegisteredOne
  <2>2. /\ x.kind # kind => OfKind(btUndo'.done, kind) = OfKind(btUndo.done, kind)
        /\ x.kind = kind => OfKind(btUndo'.done, kind) = OfKind(btUndo.done, kind) \cup {x}
        /\ OncePer(btUndo.done, kind) /\ (x.kind = kind /\ x.board # 0 => \A c \in OfKind(btUndo.done, kind) : c.board # x.board)
             => OncePer(btUndo'.done, kind)
    <3> DEFINE p == btUndo'.done
    <3>1. OneMore(p, btUndo.done, x)
      BY <2>1
    <3> HIDE DEF p
    <3>2. /\ x.kind # kind => OfKind(p, kind) = OfKind(btUndo.done, kind)
          /\ x.kind = kind => OfKind(p, kind) = OfKind(btUndo.done, kind) \cup {x}
          /\ OncePer(btUndo.done, kind) /\ (x.kind = kind /\ x.board # 0 => \A c \in OfKind(btUndo.done, kind) : c.board # x.board)
               => OncePer(p, kind)
      BY <3>1, KindsOfOneMore
    <3> QED BY <3>2 DEF p
  <2>3. OfKind(btUndo'.undone, kind) = {} /\ OncePer(btUndo'.undone, kind)
    BY <2>1, NoneOfThem
  <2> QED BY <2>2, <2>3
<1> QED BY <1>1, <1>2

LEMMA NotedKinds ==
  ASSUME MadeTypes, btUndo' = btUndo \/ Noted
  PROVE  /\ OfKind(btUndo'.done, "link") \subseteq OfKind(btUndo.done, "link")
         /\ OncePer(btUndo.done, "link") => OncePer(btUndo'.done, "link")
         /\ OfKind(btUndo'.undone, "link") \subseteq OfKind(btUndo.undone, "link")
         /\ OncePer(btUndo.undone, "link") => OncePer(btUndo'.undone, "link")
         /\ OfKind(btUndo.done, "create") \subseteq OfKind(btUndo'.done, "create")
         /\ OncePer(btUndo.done, "create") => OncePer(btUndo'.done, "create")
         /\ \A c \in OfKind(btUndo'.done, "create") :
              c \in OfKind(btUndo.done, "create") \/ (c.board = 0 /\ c.task.before \in {btTasks[i].before : i \in DOMAIN btTasks})
<1>1. CASE btUndo' = btUndo
  BY <1>1
<1>2. CASE Noted
  <2>1. PICK x \in BtCommands :
          /\ x.kind # "link" /\ x.board = 0
          /\ x.kind = "create" => x.task.before \in {btTasks[i].before : i \in DOMAIN btTasks}
          /\ btUndo' = Registered(x)
    BY <1>2, Zenon DEF Noted
  <2>2. /\ \A c \in OfKind(btUndo'.done, "link") : c \in OfKind(btUndo.done, "link") \/ (c = x /\ x.kind = "link")
        /\ OncePer(btUndo.done, "link") => OncePer(btUndo'.done, "link")
        /\ OfKind(btUndo'.undone, "link") \subseteq OfKind(btUndo.undone, "link")
        /\ OncePer(btUndo.undone, "link") => OncePer(btUndo'.undone, "link")
    BY <2>1, RegisteredKinds, Zenon
  <2>3. /\ OfKind(btUndo.done, "create") \subseteq OfKind(btUndo'.done, "create")
        /\ \A c \in OfKind(btUndo'.done, "create") : c \in OfKind(btUndo.done, "create") \/ (c = x /\ x.kind = "create")
        /\ OncePer(btUndo.done, "create") => OncePer(btUndo'.done, "create")
    BY <2>1, RegisteredKinds, Zenon
  <2> QED BY <2>1, <2>2, <2>3
<1> QED BY <1>1, <1>2

LEMMA PassedLinks ==
  ASSUME MadeTypes, LinkInv, Passed
  PROVE  LinkInv' /\ TasksKept
<1>1. btUndo' = btUndo \/ Noted
  BY DEF Passed
<1>2. btPast'.asked = btPast.asked /\ btPast'.unlinked = btPast.unlinked /\ btBoards' = btBoards
  BY DEF Passed, OldPast
<1>3. TasksKept
  <2>1. CASE btTasks' = btTasks
    BY <1>2, <2>1, SameKeepsTasks
  <2>2. CASE TaskDropped
    BY <1>2, <2>2, DroppedKeepsTasks DEF TaskDropped
  <2> QED BY <2>1, <2>2 DEF Passed
<1>4. \A c \in OfKind(btUndo.done, "link") : c.board \in DOMAIN btBoards
  <2>1. DOMAIN btBoards = 1 .. Len(btBoards)
    BY DEF MadeTypes
  <2> QED BY <2>1, UndoOf, LinkCommandOf
<1>5. OncePer(btUndo.done, "link") /\ OncePer(btUndo.undone, "link")
  BY Zenon DEF LinkInv
<1>6. /\ OfKind(btUndo'.done, "link") \subseteq OfKind(btUndo.done, "link") /\ OncePer(btUndo'.done, "link")
      /\ OfKind(btUndo'.undone, "link") \subseteq OfKind(btUndo.undone, "link") /\ OncePer(btUndo'.undone, "link")
  BY <1>1, <1>5, NotedKinds, Zenon
<1> QED BY <1>2, <1>3, <1>4, <1>6, LinksSame

----------------------------------------------------------------------------
LEMMA UndoRemovesIs ==
  UndoRemoves <=> \A id \in DOMAIN btBoards :
                    btBoards[id].alive /\ id \notin btPast.unlisted => \E c \in OfKind(btUndo.done, "create") : c.board = id
<1>1. \A id : (\E i \in DOMAIN btUndo.done : btUndo.done[i].kind = "create" /\ btUndo.done[i].board = id)
              <=> \E c \in OfKind(btUndo.done, "create") : c.board = id
  BY DEF OfKind
<1> QED BY <1>1, Zenon DEF UndoRemoves

LEMMA UndoRemovesNext ==
  UndoRemoves' <=> \A id \in DOMAIN btBoards' :
                    btBoards'[id].alive /\ id \notin btPast'.unlisted => \E c \in OfKind(btUndo'.done, "create") : c.board = id
<1>1. \A id : (\E i \in DOMAIN btUndo'.done : btUndo'.done[i].kind = "create" /\ btUndo'.done[i].board = id)
              <=> \E c \in OfKind(btUndo'.done, "create") : c.board = id
  BY DEF OfKind
<1> QED BY <1>1, Zenon DEF UndoRemoves

LEMMA PassedRemoves ==
  ASSUME MadeTypes, UndoRemoves, Passed
  PROVE  UndoRemoves'
<1>1. btPast'.unlisted = btPast.unlisted /\ btBoards' = btBoards
  BY DEF Passed, OldPast
<1>2. OfKind(btUndo.done, "create") \subseteq OfKind(btUndo'.done, "create")
  BY NotedKinds DEF Passed
<1> QED BY <1>1, <1>2, UndoRemovesIs, UndoRemovesNext

----------------------------------------------------------------------------
LEMMA ChosenSame ==
  ASSUME ChosenInv, btTasks' = btTasks, DOMAIN btBoards' = DOMAIN btBoards,
         \A id \in DOMAIN btBoards : btBoards'[id].of = btBoards[id].of,
         btPast'.asked = btPast.asked, btPast'.channels = btPast.channels, btPast'.redone = btPast.redone,
         btPast'.lost = btPast.lost
  PROVE  ChosenInv'
<1>1. \A c : (NewFor(c)' <=> NewFor(c)) /\ (MadeFor(c)' <=> MadeFor(c))
  BY DEF NewFor, MadeFor
<1> QED BY <1>1 DEF ChosenInv

LEMMA ChosenDropped ==
  ASSUME MadeTypes, ChosenInv, NEW i \in DOMAIN btTasks, btTasks' = RemoveAt(btTasks, i), DOMAIN btBoards' = DOMAIN btBoards,
         \A id \in DOMAIN btBoards : btBoards'[id].of = btBoards[id].of,
         btPast'.asked = btPast.asked, btPast'.channels = btPast.channels, btPast'.redone = btPast.redone,
         btPast.lost \subseteq btPast'.lost,
         btTasks[i].channel \in btPast'.lost \/ \E id \in DOMAIN btBoards : btPast.asked[id] = btTasks[i].channel
  PROVE  ChosenInv'
<1> SUFFICES ASSUME ~btPast.redone  PROVE ChosenInv'
  BY DEF ChosenInv
<1>1. /\ \A j \in DOMAIN btTasks' : OldPlace(i, j) \in DOMAIN btTasks /\ OldPlace(i, j) # i /\ btTasks'[j] = btTasks[OldPlace(i, j)]
      /\ \A j, k \in DOMAIN btTasks' : OldPlace(i, j) = OldPlace(i, k) => j = k
      /\ \A k \in DOMAIN btTasks \ {i} : \E j \in DOMAIN btTasks' : btTasks'[j] = btTasks[k]
  BY RemovedAt DEF MadeTypes
<1>2. \A c : NewFor(c)' => NewFor(c)
  BY <1>1 DEF NewFor
<1>3. \A c : MadeFor(c)' <=> MadeFor(c)
  BY DEF MadeFor
<1>4. ASSUME NEW c, NewFor(c), BtNew[c] \notin btPast'.lost
      PROVE  NewFor(c)' \/ MadeFor(c)
  <2>1. PICK k \in DOMAIN btTasks : btTasks[k].channel = BtNew[c]
    BY <1>4 DEF NewFor
  <2>2. CASE k = i
    BY <1>4, <2>1, <2>2 DEF MadeFor
  <2>3. CASE k # i
    BY <1>1, <2>1, <2>3 DEF NewFor
  <2> QED BY <2>2, <2>3
<1>5. \A j, k \in DOMAIN btTasks' : btTasks'[j].channel \in ToSet(BtNew) /\ btTasks'[j].channel = btTasks'[k].channel => j = k
  <2>1. \A j, k \in DOMAIN btTasks : btTasks[j].channel \in ToSet(BtNew) /\ btTasks[j].channel = btTasks[k].channel => j = k
    BY Zenon DEF ChosenInv
  <2> QED BY <1>1, <2>1
<1>6. \A id, other \in DOMAIN btBoards' :
        btPast'.asked[id] \in ToSet(BtNew) /\ btPast'.asked[id] = btPast'.asked[other] => id = other
  BY Zenon DEF ChosenInv
<1>7. \A j \in DOMAIN btTasks', id \in DOMAIN btBoards' :
        btTasks'[j].board = 0 /\ btTasks'[j].channel \in ToSet(BtNew) => btPast'.asked[id] # btTasks'[j].channel
  <2>1. \A j \in DOMAIN btTasks, id \in DOMAIN btBoards :
          btTasks[j].board = 0 /\ btTasks[j].channel \in ToSet(BtNew) => btPast.asked[id] # btTasks[j].channel
    BY Zenon DEF ChosenInv
  <2> QED BY <1>1, <2>1
<1>8. \A c \in DOMAIN BtNew : c \notin DOMAIN btPast'.channels => ~NewFor(c)' /\ ~MadeFor(c)'
  BY <1>2, <1>3 DEF ChosenInv
<1>9. ASSUME NEW c \in DOMAIN btPast.channels
      PROVE  /\ btPast.channels[c] = NotAsked => ~NewFor(c)' /\ ~MadeFor(c)'
             /\ \A j \in DOMAIN btTasks' : btTasks'[j].channel = BtNew[c] => btTasks'[j].of = btPast.channels[c]
             /\ \A id \in DOMAIN btBoards' : btPast.asked[id] = BtNew[c] => btBoards'[id].of = btPast.channels[c]
             /\ btPast.channels[c] # NotAsked /\ BtNew[c] \notin btPast'.lost => NewFor(c)' \/ MadeFor(c)'
  <2>1. /\ btPast.channels[c] = NotAsked => ~NewFor(c) /\ ~MadeFor(c)
        /\ \A j \in DOMAIN btTasks : btTasks[j].channel = BtNew[c] => btTasks[j].of = btPast.channels[c]
        /\ \A id \in DOMAIN btBoards : btPast.asked[id] = BtNew[c] => btBoards[id].of = btPast.channels[c]
        /\ btPast.channels[c] # NotAsked /\ BtNew[c] \notin btPast.lost => NewFor(c) \/ MadeFor(c)
    BY Zenon DEF ChosenInv
  <2>2. \A j \in DOMAIN btTasks' : btTasks'[j].channel = BtNew[c] => btTasks'[j].of = btPast.channels[c]
    BY <1>1, <2>1
  <2>3. \A id \in DOMAIN btBoards' : btPast.asked[id] = BtNew[c] => btBoards'[id].of = btPast.channels[c]
    BY <2>1
  <2>4. btPast.channels[c] # NotAsked /\ BtNew[c] \notin btPast'.lost => NewFor(c)' \/ MadeFor(c)'
    BY <1>3, <1>4, <2>1
  <2> QED BY <1>2, <1>3, <2>1, <2>2, <2>3, <2>4
<1> QED BY <1>5, <1>6, <1>7, <1>8, <1>9 DEF ChosenInv

LEMMA PassedChosen ==
  ASSUME MadeTypes, ChosenInv, Passed
  PROVE  ChosenInv'
<1>1. /\ btBoards' = btBoards /\ btPast'.asked = btPast.asked /\ btPast'.channels = btPast.channels
      /\ btPast'.redone = btPast.redone
  BY DEF Passed, OldPast
<1>2. CASE btTasks' = btTasks /\ btPast'.lost = btPast.lost
  BY <1>1, <1>2, ChosenSame
<1>3. CASE TaskDropped
  <2>1. PICK i \in DOMAIN btTasks : btTasks' = RemoveAt(btTasks, i) /\ btPast'.lost = btPast.lost \cup {btTasks[i].channel}
    BY <1>3 DEF TaskDropped
  <2> QED BY <1>1, <2>1, ChosenDropped
<1> QED BY <1>2, <1>3 DEF Passed

----------------------------------------------------------------------------
\* The link of a board stays behind its creation when a command is added that is
\* not its creation.
LEMMA LaterAppended ==
  ASSUME NEW S, NEW q \in Seq(S), NEW x \in S, NEW id, LinkIsLater(q, id), ~(x.kind = "create" /\ x.board = id)
  PROVE  LinkIsLater(Append(q, x), id)
<1> DEFINE p == Append(q, x)
<1>1. /\ Len(q) \in Nat /\ DOMAIN p = 1 .. Len(q) + 1 /\ DOMAIN q = 1 .. Len(q)
      /\ p[Len(q) + 1] = x /\ \A i \in DOMAIN q : p[i] = q[i]
  BY BtAppended
<1> HIDE DEF p
<1>2. PICK j \in DOMAIN q : /\ q[j].kind = "link" /\ q[j].board = id
                            /\ \A i \in DOMAIN q : q[i].kind = "create" /\ q[i].board = id => i < j
  BY DEF LinkIsLater
<1>3. j \in DOMAIN p /\ p[j].kind = "link" /\ p[j].board = id
  BY <1>1, <1>2
<1>4. \A i \in DOMAIN p : i \in DOMAIN q \/ i = Len(q) + 1
  BY <1>1
<1>5. \A i \in DOMAIN p : p[i].kind = "create" /\ p[i].board = id => i < j
  BY <1>1, <1>2, <1>4
<1>6. LinkIsLater(p, id)
  BY <1>3, <1>5 DEF LinkIsLater
<1> QED BY <1>6 DEF p

LEMMA NotedLater ==
  ASSUME MadeTypes, btUndo' = btUndo \/ Noted, NEW id \in Nat \ {0}, LinkIsLater(btUndo.done, id)
  PROVE  LinkIsLater(btUndo'.done, id)
<1>1. CASE btUndo' = btUndo
  BY <1>1
<1>2. CASE Noted
  <2>1. PICK x \in BtCommands : x.board = 0 /\ btUndo' = Registered(x)
    BY <1>2, Zenon DEF Noted
  <2>2. CASE btUndo.stuck
    BY <2>1, <2>2, RegisteredOne
  <2>3. CASE ~btUndo.stuck
    <3>1. btUndo'.done = Append(btUndo.done, x)
      BY <2>1, <2>3, RegisteredOne
    <3>2. LinkIsLater(Append(btUndo.done, x), id)
      BY <2>1, UndoOf, LaterAppended
    <3> QED BY <3>1, <3>2
  <2> QED BY <2>2, <2>3
<1> QED BY <1>1, <1>2

LEMMA PassedTakenBack ==
  ASSUME MadeTypes, LinkInv, TakenBackInv, Passed
  PROVE  TakenBackInv'
<1>1. /\ btBoards' = btBoards /\ btPast'.asked = btPast.asked /\ btPast'.unlinked = btPast.unlinked
      /\ btPast'.redone = btPast.redone /\ (btUndo' = btUndo \/ Noted) /\ DOMAIN btBoards = 1 .. Len(btBoards)
  BY DEF Passed, OldPast, MadeTypes
<1> SUFFICES ASSUME ~btPast.redone  PROVE TakenBackInv'
  BY <1>1 DEF TakenBackInv
<1>2. OncePer(btUndo'.done, "create")
  BY <1>1, NotedKinds, Zenon DEF TakenBackInv
<1>3. \A c \in OfKind(btUndo'.done, "create") : c.board # 0 => btBoards'[c.board].alive
  BY <1>1, NotedKinds, Zenon DEF TakenBackInv
<1>4. \A id \in DOMAIN btBoards' : ~btBoards'[id].alive \/ id \in btPast'.unlinked => btBoards'[id].channel = ""
  BY <1>1, Zenon DEF TakenBackInv
<1>5. ASSUME NEW id \in DOMAIN btBoards, id \notin UnderWay', btPast.asked[id] \notin btPast'.lost, btBoards[id].alive,
             id \notin btPast.unlinked
      PROVE  btBoards[id].channel = btPast.asked[id]
  <2>1. btPast.asked[id] \notin btPast.lost
    BY <1>5 DEF Passed, TaskDropped
  <2>2. id \notin UnderWay
    <3>1. CASE btTasks' = btTasks
      BY <1>5, <3>1 DEF UnderWay
    <3>2. CASE TaskDropped
      <4>1. PICK i \in DOMAIN btTasks : btTasks' = RemoveAt(btTasks, i) /\ btPast'.lost = btPast.lost \cup {btTasks[i].channel}
        BY <3>2 DEF TaskDropped
      <4>2. \A k \in DOMAIN btTasks \ {i} : \E j \in DOMAIN btTasks' : btTasks'[j] = btTasks[k]
        BY <4>1, RemovedAt DEF MadeTypes
      <4>3. ASSUME NEW k \in DOMAIN btTasks, btTasks[k].board = id, id # 0
            PROVE  FALSE
        <5>1. btPast.asked[id] = btTasks[k].channel
          BY <4>3 DEF LinkInv
        <5>2. k # i
          BY <1>5, <4>1, <5>1
        <5> QED BY <1>5, <4>2, <4>3, <5>2 DEF UnderWay
      <4> QED BY <4>3 DEF UnderWay
    <3> QED BY <3>1, <3>2 DEF Passed
  <2> QED BY <1>5, <2>1, <2>2, Zenon DEF TakenBackInv
<1>6. ASSUME ~btUndo'.stuck, NEW id \in DOMAIN btBoards, btBoards[id].channel # ""
      PROVE  LinkIsLater(btUndo'.done, id)
  <2>1. ~btUndo.stuck
    <3>1. CASE btUndo' = btUndo
      BY <1>6, <3>1
    <3>2. CASE Noted
      <4>1. PICK x \in BtCommands : btUndo' = Registered(x)
        BY <3>2, Zenon DEF Noted
      <4> QED BY <1>6, <4>1, RegisteredOne
    <3> QED BY <1>1, <3>1, <3>2
  <2>2. LinkIsLater(btUndo.done, id)
    BY <1>6, <2>1, Zenon DEF TakenBackInv
  <2>3. id \in Nat \ {0}
    BY <1>1 DEF MadeTypes
  <2> QED BY <1>1, <2>2, <2>3, NotedLater
<1> QED BY <1>1, <1>2, <1>3, <1>4, <1>5, <1>6, Zenon DEF TakenBackInv

----------------------------------------------------------------------------
LEMMA BeforeAppended ==
  ASSUME NEW S, NEW q \in Seq(S), NEW x \in S, MadeBefore(q),
         x.kind = "create" => \A c \in OfKind(q, "create") : c.task.before # 0 => c.task.before # x.board,
         x.kind = "create" /\ x.task.before # 0 => x.board # x.task.before
  PROVE  MadeBefore(Append(q, x))
<1> DEFINE p == Append(q, x)
<1>1. /\ Len(q) \in Nat /\ DOMAIN p = 1 .. Len(q) + 1 /\ DOMAIN q = 1 .. Len(q)
      /\ p[Len(q) + 1] = x /\ \A i \in DOMAIN q : p[i] = q[i]
  BY BtAppended
<1> HIDE DEF p
<1> SUFFICES ASSUME NEW i \in DOMAIN p, NEW j \in DOMAIN p, p[i].kind = "create", p[j].kind = "create",
                    p[j].task.before # 0, p[i].board = p[j].task.before
             PROVE  i < j
  BY DEF MadeBefore, p
<1>2. CASE i \in DOMAIN q /\ j \in DOMAIN q
  BY <1>1, <1>2 DEF MadeBefore
<1>3. CASE i \in DOMAIN q /\ j = Len(q) + 1
  BY <1>1, <1>3
<1>4. CASE i = Len(q) + 1 /\ j \in DOMAIN q
  <2>1. q[j] \in OfKind(q, "create")
    BY <1>1, <1>4 DEF OfKind
  <2> QED BY <1>1, <1>4, <2>1
<1>5. CASE i = Len(q) + 1 /\ j = Len(q) + 1
  BY <1>1, <1>5
<1>6. (i \in DOMAIN q \/ i = Len(q) + 1) /\ (j \in DOMAIN q \/ j = Len(q) + 1)
  BY <1>1
<1> QED BY <1>2, <1>3, <1>4, <1>5, <1>6

LEMMA PassedShown ==
  ASSUME MadeTypes, ShownInv, Passed
  PROVE  ShownInv'
<1>1. /\ btBoards' = btBoards /\ btPast'.redone = btPast.redone /\ btPast'.overtaken = btPast.overtaken
      /\ (btUndo' = btUndo \/ Noted) /\ btPage' \in {btPage, 0}
  BY DEF Passed, OldPast
<1> SUFFICES ASSUME ~btPast.redone, ~btPast.overtaken  PROVE ShownInv'
  BY <1>1 DEF ShownInv
<1>2. \A c \in OfKind(btUndo'.done, "create") :
        c \in OfKind(btUndo.done, "create") \/ (c.board = 0 /\ c.task.before \in {btTasks[i].before : i \in DOMAIN btTasks})
  BY <1>1, NotedKinds
<1>3. {btTasks'[i].before : i \in DOMAIN btTasks'} \subseteq {btTasks[i].before : i \in DOMAIN btTasks}
  <2>1. CASE btTasks' = btTasks
    BY <2>1
  <2>2. CASE TaskDropped
    <3>1. PICK i \in DOMAIN btTasks : btTasks' = RemoveAt(btTasks, i)
      BY <2>2 DEF TaskDropped
    <3>2. \A j \in DOMAIN btTasks' : OldPlace(i, j) \in DOMAIN btTasks /\ btTasks'[j] = btTasks[OldPlace(i, j)]
      BY <3>1, RemovedAt DEF MadeTypes
    <3> QED BY <3>2
  <2> QED BY <2>1, <2>2 DEF Passed
<1>4. SeenBoards' \subseteq SeenBoards \cup {0}
  <2>1. {c.task.before : c \in OfKind(btUndo'.done, "create")} \subseteq SeenBoards
    BY <1>2 DEF SeenBoards
  <2> QED BY <1>1, <1>3, <2>1 DEF SeenBoards
<1>5. ASSUME NEW p \in SeenBoards' \ {0}
      PROVE  btBoards'[p].alive /\ \A c \in OfKind(btUndo'.done, "create") : c.board = p => c.task.from = "selector"
  <2>1. p \in SeenBoards \ {0}
    BY <1>4, <1>5
  <2>2. btBoards[p].alive /\ \A c \in OfKind(btUndo.done, "create") : c.board = p => c.task.from = "selector"
    BY <2>1, Zenon DEF ShownInv
  <2> QED BY <1>1, <1>2, <2>1, <2>2
<1>6. MadeBefore(btUndo'.done)
  <2>1. MadeBefore(btUndo.done)
    BY Zenon DEF ShownInv
  <2>2. CASE btUndo' = btUndo
    BY <2>1, <2>2
  <2>3. CASE Noted
    <3>1. PICK x \in BtCommands : x.board = 0 /\ btUndo' = Registered(x)
      BY <2>3, Zenon DEF Noted
    <3>2. CASE btUndo.stuck
      BY <2>1, <3>1, <3>2, RegisteredOne
    <3>3. CASE ~btUndo.stuck
      <4>1. btUndo'.done = Append(btUndo.done, x)
        BY <3>1, <3>3, RegisteredOne
      <4>2. MadeBefore(Append(btUndo.done, x))
        BY <2>1, <3>1, UndoOf, BeforeAppended
      <4> QED BY <4>1, <4>2
    <3> QED BY <3>2, <3>3
  <2> QED BY <1>1, <2>2, <2>3
<1> QED BY <1>5, <1>6, Zenon DEF ShownInv

LEMMA PassedKeeps ==
  ASSUME MadeInv, Passed
  PROVE  MadeInv'
BY PassedTypes, PassedLinks, PassedRemoves, PassedChosen, PassedTakenBack, PassedShown DEF MadeInv

----------------------------------------------------------------------------
\* A handler is asked for a board, and perhaps a channel is made.
LEMMA TaskAsked ==
  ASSUME BtTypes, NEW of \in BtSources, NEW channel \in BtPlaces, NEW from \in {"selector", "dialog"}
  PROVE  /\ Task(of, channel, from) \in BtTaskRecs /\ TaskKnown(Len(btBoards), Task(of, channel, from))
         /\ Task(of, channel, from).of = of /\ Task(of, channel, from).channel = channel
         /\ Task(of, channel, from).board = 0 /\ Task(of, channel, from).before = btPage
<1>1. btPage \in 0 .. Len(btBoards) /\ Len(btBoards) \in Nat
  BY DEF BtTypes, MadeTypes
<1> QED BY <1>1 DEF Task, BtTaskRecs, TaskKnown

Waits(t) ==
  /\ t \in BtTaskRecs /\ TaskKnown(Len(btBoards), t) /\ t.board = 0 /\ t.before = btPage
  /\ btTasks' = Append(btTasks, t)

LEMMA WaitsTasks ==
  ASSUME MadeTypes, NEW t, Waits(t), btBoards' = btBoards
  PROVE  /\ btTasks' \in Seq(BtTaskRecs) /\ \A i \in DOMAIN btTasks' : TaskKnown(Len(btBoards), btTasks'[i])
         /\ Len(btTasks) \in Nat /\ DOMAIN btTasks = 1 .. Len(btTasks) /\ DOMAIN btTasks' = 1 .. Len(btTasks) + 1
         /\ btTasks'[Len(btTasks) + 1] = t /\ \A i \in DOMAIN btTasks : btTasks'[i] = btTasks[i]
         /\ \A i \in DOMAIN btTasks' : i \in DOMAIN btTasks \/ i = Len(btTasks) + 1
<1>1. btTasks \in Seq(BtTaskRecs) /\ \A i \in DOMAIN btTasks : TaskKnown(Len(btBoards), btTasks[i])
  BY DEF MadeTypes
<1>2. /\ btTasks' \in Seq(BtTaskRecs) /\ Len(btTasks) \in Nat /\ DOMAIN btTasks' = 1 .. Len(btTasks) + 1 /\ DOMAIN btTasks = 1 .. Len(btTasks)
      /\ btTasks'[Len(btTasks) + 1] = t /\ \A i \in DOMAIN btTasks : btTasks'[i] = btTasks[i]
  BY <1>1, BtAppended DEF Waits
<1>3. \A i \in DOMAIN btTasks' : i \in DOMAIN btTasks \/ i = Len(btTasks) + 1
  BY <1>2
<1>4. \A i \in DOMAIN btTasks' : TaskKnown(Len(btBoards), btTasks'[i])
  BY <1>1, <1>2, <1>3 DEF Waits
<1> QED BY <1>2, <1>3, <1>4

\* What is the same when a handler is asked for a board.
AskedTask(t) ==
  /\ UNCHANGED <<btBoards, btPage, btUndo>> /\ Waits(t)
  /\ btPast' \in BtPasts
  /\ btPast'.asked = btPast.asked /\ btPast'.redone = btPast.redone /\ btPast'.overtaken = btPast.overtaken
  /\ btPast'.unlisted = btPast.unlisted /\ btPast'.unlinked = btPast.unlinked /\ btPast'.lost = btPast.lost

LEMMA AskedKeeps ==
  ASSUME MadeTypes, LinkInv, UndoRemoves, TakenBackInv, ShownInv, NEW t, AskedTask(t), Len(btPast'.channels) \in 0 .. Len(BtNew)
  PROVE  MadeTypes' /\ LinkInv' /\ UndoRemoves' /\ TakenBackInv' /\ ShownInv'
<1> DEFINE m == Len(btTasks) + 1
<1>1. /\ btTasks' \in Seq(BtTaskRecs) /\ \A i \in DOMAIN btTasks' : TaskKnown(Len(btBoards), btTasks'[i])
      /\ m \in DOMAIN btTasks' /\ btTasks'[m] = t /\ \A i \in DOMAIN btTasks : i \in DOMAIN btTasks' /\ btTasks'[i] = btTasks[i]
      /\ \A i \in DOMAIN btTasks' : i \in DOMAIN btTasks \/ i = m
  BY WaitsTasks DEF AskedTask
<1>2. t.board = 0 /\ t.before = btPage
  BY DEF AskedTask, Waits
<1>3. /\ btBoards' = btBoards /\ btPage' = btPage /\ btUndo' = btUndo
      /\ btPast' \in BtPasts
      /\ btPast'.asked = btPast.asked /\ btPast'.redone = btPast.redone /\ btPast'.overtaken = btPast.overtaken
      /\ btPast'.unlisted = btPast.unlisted /\ btPast'.unlinked = btPast.unlinked /\ btPast'.lost = btPast.lost
  BY DEF AskedTask
<1> HIDE DEF m
<1>4. MadeTypes'
  BY <1>1, <1>3 DEF MadeTypes
<1>5. UnderWay' = UnderWay
  BY <1>1, <1>2 DEF UnderWay
<1>6. TasksKept
  <2>1. /\ \A i \in DOMAIN btTasks : btTasks[i].board # 0 => btPast.asked[btTasks[i].board] = btTasks[i].channel
        /\ \A i, j \in DOMAIN btTasks : btTasks[i].board # 0 /\ btTasks[i].board = btTasks[j].board => i = j
    BY DEF LinkInv
  <2>2. \A i \in DOMAIN btTasks' : btTasks'[i].board # 0 => i \in DOMAIN btTasks /\ btTasks'[i] = btTasks[i]
    BY <1>1, <1>2
  <2> QED BY <1>3, <1>5, <2>1, <2>2 DEF TasksKept
<1>7. LinkInv'
  <2>1. /\ \A id \in DOMAIN btBoards : btBoards[id].channel # "" => btBoards[id].channel = btPast.asked[id]
        /\ \A c \in OfKind(btUndo.done, "link") : c.channel = btPast.asked[c.board] /\ btBoards[c.board].channel = c.channel
        /\ \A c \in OfKind(btUndo.undone, "link") : c.channel = btPast.asked[c.board]
        /\ OncePer(btUndo.done, "link") /\ OncePer(btUndo.undone, "link")
        /\ LinkedBy(btUndo.done) \cap LinkedBy(btUndo.undone) = {}
        /\ UnderWay \cap (LinkedBy(btUndo.done) \cup LinkedBy(btUndo.undone) \cup btPast.unlinked) = {}
    BY Zenon DEF LinkInv
  <2> QED BY <1>3, <1>5, <1>6, <2>1 DEF LinkInv, TasksKept
<1>8. UndoRemoves'
  BY <1>3 DEF UndoRemoves
<1>9. TakenBackInv'
  BY <1>3, <1>5 DEF TakenBackInv
<1>10. ShownInv'
  <2>1. SeenBoards' = SeenBoards
    BY <1>1, <1>2, <1>3 DEF SeenBoards
  <2> QED BY <1>3, <2>1 DEF ShownInv
<1> QED BY <1>4, <1>7, <1>8, <1>9, <1>10

----------------------------------------------------------------------------
LEMMA NewPlaces ==
  /\ Len(BtNew) \in Nat /\ DOMAIN BtNew = 1 .. Len(BtNew)
  /\ \A c \in DOMAIN BtNew : BtNew[c] \in ToSet(BtNew) /\ BtNew[c] \in BtPlaces
  /\ \A c, d \in DOMAIN BtNew : BtNew[c] = BtNew[d] => c = d
  /\ \A x \in ToSet(BtNew) : \E c \in DOMAIN BtNew : x = BtNew[c]
<1>1. BtNew \in Seq(ToSet(BtNew)) /\ IsInjective(BtNew)
  BY BtAssumption, Zenon
<1>2. Len(BtNew) \in Nat /\ DOMAIN BtNew = 1 .. Len(BtNew)
  BY <1>1
<1>3. \A c \in DOMAIN BtNew : BtNew[c] \in ToSet(BtNew)
  BY Zenon DEF ToSet
<1>4. \A x \in ToSet(BtNew) : \E c \in DOMAIN BtNew : x = BtNew[c]
  BY DEF ToSet
<1>5. \A c, d \in DOMAIN BtNew : BtNew[c] = BtNew[d] => c = d
  BY <1>1, Zenon DEF IsInjective
<1>6. ToSet(BtNew) \subseteq BtPlaces
  BY Zenon DEF BtPlaces
<1> QED BY <1>2, <1>3, <1>4, <1>5, <1>6

LEMMA UsedChosen ==
  ASSUME MadeTypes, ChosenInv, NEW t, AskedTask(t), t.channel \notin ToSet(BtNew), btPast'.channels = btPast.channels
  PROVE  ChosenInv'
<1> DEFINE m == Len(btTasks) + 1
<1>1. /\ m \in DOMAIN btTasks' /\ btTasks'[m] = t /\ \A i \in DOMAIN btTasks : i \in DOMAIN btTasks' /\ btTasks'[i] = btTasks[i]
      /\ \A i \in DOMAIN btTasks' : i \in DOMAIN btTasks \/ i = m
  BY WaitsTasks DEF AskedTask
<1> HIDE DEF m
<1> SUFFICES ASSUME ~btPast.redone  PROVE ChosenInv'
  BY DEF ChosenInv, AskedTask
<1>2. \A i \in DOMAIN btTasks' : btTasks'[i].channel \in ToSet(BtNew) => i \in DOMAIN btTasks /\ btTasks'[i] = btTasks[i]
  BY <1>1
<1>3. \A c \in DOMAIN BtNew : NewFor(c)' <=> NewFor(c)
  BY <1>1, <1>2, NewPlaces DEF NewFor
<1>4. \A c : MadeFor(c)' <=> MadeFor(c)
  BY DEF MadeFor, AskedTask
<1>5. /\ \A i, j \in DOMAIN btTasks : btTasks[i].channel \in ToSet(BtNew) /\ btTasks[i].channel = btTasks[j].channel => i = j
      /\ \A id, other \in DOMAIN btBoards :
           btPast.asked[id] \in ToSet(BtNew) /\ btPast.asked[id] = btPast.asked[other] => id = other
      /\ \A i \in DOMAIN btTasks, id \in DOMAIN btBoards :
           btTasks[i].board = 0 /\ btTasks[i].channel \in ToSet(BtNew) => btPast.asked[id] # btTasks[i].channel
      /\ \A c \in DOMAIN BtNew : c \notin DOMAIN btPast.channels => ~NewFor(c) /\ ~MadeFor(c)
  BY Zenon DEF ChosenInv
<1>6. ASSUME NEW c \in DOMAIN btPast.channels
      PROVE  /\ btPast.channels[c] = NotAsked => ~NewFor(c)' /\ ~MadeFor(c)'
             /\ \A j \in DOMAIN btTasks' : btTasks'[j].channel = BtNew[c] => btTasks'[j].of = btPast.channels[c]
             /\ \A id \in DOMAIN btBoards : btPast.asked[id] = BtNew[c] => btBoards[id].of = btPast.channels[c]
             /\ btPast.channels[c] # NotAsked /\ BtNew[c] \notin btPast.lost => NewFor(c)' \/ MadeFor(c)'
  <2>1. /\ btPast.channels[c] = NotAsked => ~NewFor(c) /\ ~MadeFor(c)
        /\ \A j \in DOMAIN btTasks : btTasks[j].channel = BtNew[c] => btTasks[j].of = btPast.channels[c]
        /\ \A id \in DOMAIN btBoards : btPast.asked[id] = BtNew[c] => btBoards[id].of = btPast.channels[c]
        /\ btPast.channels[c] # NotAsked /\ BtNew[c] \notin btPast.lost => NewFor(c) \/ MadeFor(c)
    BY Zenon DEF ChosenInv
  <2>2. c \in DOMAIN BtNew
    <3>1. btPast.channels \in Seq(BtSources \cup {NotAsked}) /\ Len(btPast.channels) \in 0 .. Len(BtNew)
      BY PastOf DEF MadeTypes
    <3> QED BY <3>1, NewPlaces
  <2>3. BtNew[c] \in ToSet(BtNew)
    BY <2>2, NewPlaces
  <2> QED BY <1>2, <1>3, <1>4, <2>1, <2>2, <2>3
<1>7. \A i, j \in DOMAIN btTasks' : btTasks'[i].channel \in ToSet(BtNew) /\ btTasks'[i].channel = btTasks'[j].channel => i = j
  BY <1>2, <1>5
<1>8. \A i \in DOMAIN btTasks', id \in DOMAIN btBoards :
        btTasks'[i].board = 0 /\ btTasks'[i].channel \in ToSet(BtNew) => btPast.asked[id] # btTasks'[i].channel
  BY <1>2, <1>5
<1>9. btBoards' = btBoards /\ btPast'.channels = btPast.channels /\ btPast'.asked = btPast.asked /\ btPast'.lost = btPast.lost
  BY DEF AskedTask
<1>10. \A c \in DOMAIN BtNew : c \notin DOMAIN btPast'.channels => ~NewFor(c)' /\ ~MadeFor(c)'
  BY <1>3, <1>4, <1>5, <1>9
<1> QED BY <1>5, <1>6, <1>7, <1>8, <1>9, <1>10 DEF ChosenInv

LEMMA UsedKeeps ==
  ASSUME BtTypes, MadeInv, HandleUseTemplate
  PROVE  MadeInv'
<1>1. PICK of \in {btSelector.active, Empty} \ {""} : btTasks' = Append(btTasks, Task(of, btSelector.channel, "selector"))
  BY Zenon DEF HandleUseTemplate
<1>2. btSelector.channel \in BtPlaces \ ToSet(BtNew) /\ btSelector.active \in BtTemplates \cup {""}
  BY Zenon DEF BtTypes, UiTypes, BtSelectors
<1>3. of \in BtSources
  BY <1>1, <1>2, Zenon DEF BtSources
<1> DEFINE t == Task(of, btSelector.channel, "selector")
<1>4. t \in BtTaskRecs /\ TaskKnown(Len(btBoards), t) /\ t.board = 0 /\ t.before = btPage /\ t.channel \notin ToSet(BtNew)
  BY <1>2, <1>3, TaskAsked
<1>5. btPast' = [btPast EXCEPT !.clicks = @ + 1] /\ UNCHANGED <<btBoards, btPage, btUndo>>
  BY DEF HandleUseTemplate, BtClick
<1>6. OldPast /\ btPast'.lost = btPast.lost
  BY <1>5, Ticked DEF BtTypes
<1> HIDE DEF t
<1>7. AskedTask(t)
  BY <1>1, <1>4, <1>5, <1>6 DEF AskedTask, Waits, OldPast, t
<1>8. Len(btPast'.channels) \in 0 .. Len(BtNew) /\ btPast'.channels = btPast.channels /\ btPast'.asked = btPast.asked /\ btPast'.redone = btPast.redone
  BY <1>6 DEF OldPast, BtTypes, MadeTypes
<1>9. MadeTypes' /\ LinkInv' /\ UndoRemoves' /\ TakenBackInv' /\ ShownInv'
  BY <1>7, <1>8, AskedKeeps DEF MadeInv
<1>10. ChosenInv'
  BY <1>4, <1>7, <1>8, UsedChosen DEF MadeInv
<1> QED BY <1>9, <1>10 DEF MadeInv

----------------------------------------------------------------------------
\* What is known of the channels of the dialog when one more is there: for it
\* nothing was asked before.
LEMMA AddedFacts ==
  ASSUME BtTypes, MadeInv, AddBoardToChannel, NEW n, n = Len(btPast.channels) + 1
  PROVE  /\ n \in DOMAIN BtNew /\ n \notin DOMAIN btPast.channels /\ DOMAIN btPast.channels \subseteq DOMAIN BtNew
         /\ btPast' \in BtPasts /\ btPast'.asked = btPast.asked /\ btPast'.redone = btPast.redone
         /\ btPast'.overtaken = btPast.overtaken
         /\ btPast'.unlisted = btPast.unlisted /\ btPast'.unlinked = btPast.unlinked /\ btPast'.lost = btPast.lost
         /\ DOMAIN btPast'.channels = DOMAIN btPast.channels \cup {n} /\ Len(btPast'.channels) \in 0 .. Len(BtNew)
         /\ \A c \in DOMAIN btPast.channels : btPast'.channels[c] = btPast.channels[c]
         /\ btPast'.channels[n] = IF btModal.add THEN btModal.template ELSE NotAsked
         /\ btModal.add => btModal.template \in BtSources
<1> DEFINE x == IF btModal.add THEN btModal.template ELSE NotAsked
           old == btPast.channels
           new == Append(old, x)
<1>1. btModal.add => btModal.template \in BtSources
  <2>1. btModal \in BtChoices /\ (btModal.add /\ btModal.mayCreate => btModal.template # "")
    BY Zenon DEF BtTypes, UiTypes, BtModals
  <2>2. btModal.template \in BtSources \cup {""}
    BY <2>1, Zenon DEF BtChoices
  <2> QED BY <2>1, <2>2, Zenon DEF AddBoardToChannel
<1>2. x \in BtSources \cup {NotAsked}
  BY <1>1, Zenon
<1>3. /\ old \in Seq(BtSources \cup {NotAsked}) /\ Len(old) \in 0 .. Len(BtNew) /\ Len(BtNew) \in Nat /\ btPast \in BtPasts
      /\ btPast.clicks \in Nat
  BY PastOf, NewPlaces DEF BtTypes, MadeTypes
<1>4. Len(old) < Len(BtNew) /\ btPast' = [btPast EXCEPT !.clicks = @ + 1, !.channels = new]
  BY DEF AddBoardToChannel
<1> HIDE DEF x
<1>5. /\ new \in Seq(BtSources \cup {NotAsked}) /\ DOMAIN new = 1 .. Len(old) + 1 /\ DOMAIN old = 1 .. Len(old) /\ Len(new) = Len(old) + 1
      /\ new[Len(old) + 1] = x /\ \A c \in DOMAIN old : new[c] = old[c]
  BY <1>2, <1>3, BtAppended
<1> HIDE DEF new
<1>6. /\ btPast' \in BtPasts /\ btPast'.asked = btPast.asked /\ btPast'.redone = btPast.redone
      /\ btPast'.overtaken = btPast.overtaken /\ btPast'.channels = new
      /\ btPast'.unlisted = btPast.unlisted /\ btPast'.unlinked = btPast.unlinked /\ btPast'.lost = btPast.lost
  <2> DEFINE a == btPast.clicks + 1
  <2>1. a \in Nat /\ btPast' = [btPast EXCEPT !.clicks = a, !.channels = new]
    BY <1>3, <1>4
  <2> HIDE DEF a
  <2> QED BY <1>3, <1>5, <2>1 DEF BtPasts
<1>7. DOMAIN old = 1 .. Len(old) /\ n = Len(old) + 1
  BY <1>5
<1> HIDE DEF old
<1>8. n \in DOMAIN BtNew /\ n \notin DOMAIN old /\ DOMAIN old \subseteq DOMAIN BtNew
  BY <1>3, <1>4, <1>7, NewPlaces
<1>9. DOMAIN new = DOMAIN old \cup {n} /\ Len(new) \in 0 .. Len(BtNew)
  BY <1>3, <1>4, <1>5, <1>7
<1>10. (\A c \in DOMAIN old : new[c] = old[c]) /\ new[n] = x
  BY <1>5, <1>7
<1> QED BY <1>1, <1>6, <1>8, <1>9, <1>10, Zenon DEF old, x

LEMMA NotAskedKeeps ==
  ASSUME MadeTypes, LinkInv, UndoRemoves, TakenBackInv, ShownInv, UNCHANGED <<btBoards, btPage, btUndo, btTasks>>,
         btPast' \in BtPasts, btPast'.asked = btPast.asked, btPast'.redone = btPast.redone, btPast'.overtaken = btPast.overtaken,
         btPast'.unlisted = btPast.unlisted, btPast'.unlinked = btPast.unlinked, btPast'.lost = btPast.lost,
         Len(btPast'.channels) \in 0 .. Len(BtNew)
  PROVE  MadeTypes' /\ LinkInv' /\ UndoRemoves' /\ TakenBackInv' /\ ShownInv'
<1>1. MadeTypes'
  BY DEF MadeTypes
<1>2. UnderWay' = UnderWay
  BY DEF UnderWay
<1>3. LinkInv'
  BY <1>2 DEF LinkInv
<1>4. UndoRemoves'
  BY DEF UndoRemoves
<1>5. TakenBackInv'
  BY <1>2 DEF TakenBackInv
<1>6. SeenBoards' = SeenBoards
  BY DEF SeenBoards
<1>7. ShownInv'
  BY <1>6 DEF ShownInv
<1> QED BY <1>1, <1>3, <1>4, <1>5, <1>7

\* One more channel of the dialog.
OneMoreChannel(n, x) ==
  /\ n \in DOMAIN BtNew /\ n \notin DOMAIN btPast.channels /\ DOMAIN btPast.channels \subseteq DOMAIN BtNew
  /\ btBoards' = btBoards /\ btPast'.asked = btPast.asked /\ btPast'.redone = btPast.redone /\ btPast'.lost = btPast.lost
  /\ DOMAIN btPast'.channels = DOMAIN btPast.channels \cup {n}
  /\ \A c \in DOMAIN btPast.channels : btPast'.channels[c] = btPast.channels[c]
  /\ btPast'.channels[n] = x

LEMMA ChannelChosen ==
  ASSUME MadeTypes, ChosenInv, NEW n, NEW x, OneMoreChannel(n, x),
         \/ x = NotAsked /\ btTasks' = btTasks
         \/ x # NotAsked /\ \E t : Waits(t) /\ t.channel = BtNew[n] /\ t.of = x
  PROVE  ChosenInv'
<1> SUFFICES ASSUME ~btPast.redone  PROVE ChosenInv'
  BY DEF ChosenInv, OneMoreChannel
<1>1. /\ \A i, j \in DOMAIN btTasks : btTasks[i].channel \in ToSet(BtNew) /\ btTasks[i].channel = btTasks[j].channel => i = j
      /\ \A id, other \in DOMAIN btBoards :
           btPast.asked[id] \in ToSet(BtNew) /\ btPast.asked[id] = btPast.asked[other] => id = other
      /\ \A i \in DOMAIN btTasks, id \in DOMAIN btBoards :
           btTasks[i].board = 0 /\ btTasks[i].channel \in ToSet(BtNew) => btPast.asked[id] # btTasks[i].channel
      /\ \A c \in DOMAIN BtNew : c \notin DOMAIN btPast.channels => ~NewFor(c) /\ ~MadeFor(c)
  BY Zenon DEF ChosenInv
<1>2. /\ n \in DOMAIN BtNew /\ n \notin DOMAIN btPast.channels /\ DOMAIN btPast.channels \subseteq DOMAIN BtNew
      /\ btBoards' = btBoards /\ btPast'.asked = btPast.asked /\ btPast'.redone = btPast.redone /\ btPast'.lost = btPast.lost
      /\ DOMAIN btPast'.channels = DOMAIN btPast.channels \cup {n}
      /\ \A c \in DOMAIN btPast.channels : btPast'.channels[c] = btPast.channels[c]
      /\ btPast'.channels[n] = x
  BY DEF OneMoreChannel
<1>3. ~NewFor(n) /\ ~MadeFor(n)
  BY <1>1, <1>2
<1>4. \A c : MadeFor(c)' <=> MadeFor(c)
  BY <1>2 DEF MadeFor
<1>5. \A i \in DOMAIN btTasks : btTasks[i].channel # BtNew[n]
  BY <1>3 DEF NewFor
<1>6. \A id \in DOMAIN btBoards : btPast.asked[id] # BtNew[n]
  BY <1>3 DEF MadeFor
<1>7. \A i \in DOMAIN btTasks' :
        \/ i \in DOMAIN btTasks /\ btTasks'[i] = btTasks[i]
        \/ x # NotAsked /\ i = Len(btTasks) + 1 /\ btTasks'[i].channel = BtNew[n] /\ btTasks'[i].of = x
  <2>1. CASE btTasks' = btTasks
    BY <2>1
  <2>2. CASE x # NotAsked /\ \E t : Waits(t) /\ t.channel = BtNew[n] /\ t.of = x
    <3>1. PICK t : Waits(t) /\ t.channel = BtNew[n] /\ t.of = x
      BY <2>2
    <3> QED BY <1>2, <2>2, <3>1, WaitsTasks
  <2> QED BY <2>1, <2>2
<1>8. \A i \in DOMAIN btTasks : i \in DOMAIN btTasks' /\ btTasks'[i] = btTasks[i]
  <2>1. CASE btTasks' = btTasks
    BY <2>1
  <2>2. CASE \E t : Waits(t)
    <3>1. PICK t : Waits(t)
      BY <2>2
    <3>2. DOMAIN btTasks = 1 .. Len(btTasks) /\ DOMAIN btTasks' = 1 .. Len(btTasks) + 1 /\ Len(btTasks) \in Nat
      BY <1>2, <3>1, WaitsTasks
    <3>3. \A i \in DOMAIN btTasks : btTasks'[i] = btTasks[i]
      BY <1>2, <3>1, WaitsTasks
    <3> QED BY <3>2, <3>3
  <2> QED BY <2>1, <2>2
<1>9. x # NotAsked => NewFor(n)'
  <2> SUFFICES ASSUME x # NotAsked  PROVE NewFor(n)'
    OBVIOUS
  <2>1. PICK t : Waits(t) /\ t.channel = BtNew[n]
    OBVIOUS
  <2>2. Len(btTasks) + 1 \in DOMAIN btTasks' /\ btTasks'[Len(btTasks) + 1] = t
    BY <1>2, <2>1, WaitsTasks
  <2> QED BY <2>1, <2>2 DEF NewFor
<1>10. \A c \in DOMAIN BtNew \ {n} : NewFor(c)' <=> NewFor(c)
  BY <1>2, <1>7, <1>8, NewPlaces DEF NewFor
<1>11. x = NotAsked => ~NewFor(n)'
  BY <1>5, <1>7 DEF NewFor
<1>12. \A i, j \in DOMAIN btTasks' : btTasks'[i].channel \in ToSet(BtNew) /\ btTasks'[i].channel = btTasks'[j].channel => i = j
  BY <1>1, <1>5, <1>7
<1>13. \A i \in DOMAIN btTasks', id \in DOMAIN btBoards :
         btTasks'[i].board = 0 /\ btTasks'[i].channel \in ToSet(BtNew) => btPast.asked[id] # btTasks'[i].channel
  BY <1>1, <1>6, <1>7
<1>14. \A c \in DOMAIN BtNew : c \notin DOMAIN btPast'.channels => ~NewFor(c)' /\ ~MadeFor(c)'
  BY <1>1, <1>2, <1>4, <1>10
<1>15. ASSUME NEW c \in DOMAIN btPast'.channels
       PROVE  /\ btPast'.channels[c] = NotAsked => ~NewFor(c)' /\ ~MadeFor(c)'
              /\ \A j \in DOMAIN btTasks' : btTasks'[j].channel = BtNew[c] => btTasks'[j].of = btPast'.channels[c]
              /\ \A id \in DOMAIN btBoards : btPast.asked[id] = BtNew[c] => btBoards[id].of = btPast'.channels[c]
              /\ btPast'.channels[c] # NotAsked /\ BtNew[c] \notin btPast.lost => NewFor(c)' \/ MadeFor(c)'
  <2>1. CASE c = n
    BY <1>2, <1>3, <1>4, <1>5, <1>6, <1>7, <1>9, <1>11, <2>1
  <2>2. CASE c # n
    <3>1. c \in DOMAIN btPast.channels /\ btPast'.channels[c] = btPast.channels[c] /\ c \in DOMAIN BtNew \ {n}
      BY <1>2, <2>2
    <3>2. /\ btPast.channels[c] = NotAsked => ~NewFor(c) /\ ~MadeFor(c)
          /\ \A j \in DOMAIN btTasks : btTasks[j].channel = BtNew[c] => btTasks[j].of = btPast.channels[c]
          /\ \A id \in DOMAIN btBoards : btPast.asked[id] = BtNew[c] => btBoards[id].of = btPast.channels[c]
          /\ btPast.channels[c] # NotAsked /\ BtNew[c] \notin btPast.lost => NewFor(c) \/ MadeFor(c)
      BY <3>1, Zenon DEF ChosenInv
    <3>3. BtNew[c] # BtNew[n]
      BY <1>2, <3>1, NewPlaces
    <3>4. \A j \in DOMAIN btTasks' : btTasks'[j].channel = BtNew[c] => btTasks'[j].of = btPast.channels[c]
      BY <1>7, <3>2, <3>3
    <3> QED BY <1>4, <1>10, <3>1, <3>2, <3>4
  <2> QED BY <2>1, <2>2
<1> QED BY <1>1, <1>2, <1>12, <1>13, <1>14, <1>15 DEF ChosenInv

LEMMA AddedKeeps ==
  ASSUME BtTypes, MadeInv, AddBoardToChannel
  PROVE  MadeInv'
<1> DEFINE n == Len(btPast.channels) + 1
           x == IF btModal.add THEN btModal.template ELSE NotAsked
           t == Task(btModal.template, BtNew[n], "dialog")
<1>1. /\ n \in DOMAIN BtNew /\ n \notin DOMAIN btPast.channels /\ DOMAIN btPast.channels \subseteq DOMAIN BtNew
      /\ btPast' \in BtPasts /\ btPast'.asked = btPast.asked /\ btPast'.redone = btPast.redone
      /\ btPast'.overtaken = btPast.overtaken
      /\ btPast'.unlisted = btPast.unlisted /\ btPast'.unlinked = btPast.unlinked /\ btPast'.lost = btPast.lost
      /\ DOMAIN btPast'.channels = DOMAIN btPast.channels \cup {n} /\ Len(btPast'.channels) \in 0 .. Len(BtNew)
      /\ \A c \in DOMAIN btPast.channels : btPast'.channels[c] = btPast.channels[c]
      /\ btPast'.channels[n] = x
      /\ btModal.add => btModal.template \in BtSources
  BY AddedFacts
<1>2. UNCHANGED <<btBoards, btPage, btUndo>>
  BY DEF AddBoardToChannel
<1>3. btTasks' = IF btModal.add /\ btModal.template # "" THEN Append(btTasks, t) ELSE btTasks
  BY Zenon DEF AddBoardToChannel
<1> HIDE DEF n
<1>4. OneMoreChannel(n, x)
  BY <1>1, <1>2 DEF OneMoreChannel
<1>5. CASE btModal.add
  <2>1. btModal.template \in BtSources /\ btModal.template # ""
    BY <1>1, <1>5, NamesApart, Zenon
  <2>2. btTasks' = Append(btTasks, t)
    BY <1>3, <1>5, <2>1, Zenon
  <2>3. t \in BtTaskRecs /\ TaskKnown(Len(btBoards), t) /\ t.board = 0 /\ t.before = btPage /\ t.channel = BtNew[n]
        /\ t.of = btModal.template
    <3>1. BtNew[n] \in BtPlaces
      BY <1>1, NewPlaces, Zenon
    <3>2. "dialog" \in {"selector", "dialog"}
      OBVIOUS
    <3> QED BY <2>1, <3>1, <3>2, TaskAsked, Zenon
  <2>4. x = btModal.template /\ x # NotAsked
    BY <1>5, <2>1, NamesApart, Zenon
  <2> HIDE DEF t, x
  <2>5. Waits(t)
    BY <2>2, <2>3 DEF Waits
  <2>6. AskedTask(t)
    BY <1>1, <1>2, <2>5 DEF AskedTask
  <2>7. MadeTypes' /\ LinkInv' /\ UndoRemoves' /\ TakenBackInv' /\ ShownInv'
    BY <1>1, <2>6, AskedKeeps DEF MadeInv
  <2>8. x # NotAsked /\ \E u : Waits(u) /\ u.channel = BtNew[n] /\ u.of = x
    BY <2>3, <2>4, <2>5, Zenon
  <2>9. ChosenInv'
    BY <1>4, <2>8, ChannelChosen, Zenon DEF MadeInv
  <2> QED BY <2>7, <2>9 DEF MadeInv
<1>6. CASE ~btModal.add
  <2>1. btTasks' = btTasks /\ x = NotAsked
    BY <1>3, <1>6, Zenon
  <2> HIDE DEF t, x
  <2>2. MadeTypes' /\ LinkInv' /\ UndoRemoves' /\ TakenBackInv' /\ ShownInv'
    BY <1>1, <1>2, <2>1, NotAskedKeeps DEF MadeInv
  <2>3. ChosenInv'
    BY <1>4, <2>1, ChannelChosen, Zenon DEF MadeInv
  <2> QED BY <2>2, <2>3 DEF MadeInv
<1> QED BY <1>5, <1>6

----------------------------------------------------------------------------
\* A board is made.
HasChannel(board) == board.channel # ""
MadeOne(i, id) ==
  /\ id = Len(btBoards) + 1 /\ i \in DOMAIN btTasks /\ btTasks[i].board = 0
  /\ btBoards' \in Seq(BtBoardRecs) /\ Len(btBoards') = id /\ DOMAIN btBoards' = 1 .. id /\ DOMAIN btBoards = 1 .. Len(btBoards)
  /\ btBoards'[id].of = btTasks[i].of /\ ~HasChannel(btBoards'[id]) /\ btBoards'[id].alive
  /\ \A d \in DOMAIN btBoards : btBoards'[d] = btBoards[d]
  /\ btTasks' \in Seq(BtTaskRecs) /\ DOMAIN btTasks' = DOMAIN btTasks
  /\ btTasks'[i].board = id /\ btTasks'[i].of = btTasks[i].of /\ btTasks'[i].channel = btTasks[i].channel
  /\ btTasks'[i].before = btTasks[i].before
  /\ \A j \in DOMAIN btTasks \ {i} : btTasks'[j] = btTasks[j]
  /\ btPast' \in BtPasts /\ Len(btPast'.asked) = id /\ btPast'.asked[id] = btTasks[i].channel
  /\ \A d \in DOMAIN btBoards : btPast'.asked[d] = btPast.asked[d]
  /\ btPast'.channels = btPast.channels /\ btPast'.redone = btPast.redone /\ btPast'.overtaken = btPast.overtaken
  /\ btPast'.unlinked = btPast.unlinked /\ btPast'.lost = btPast.lost
  /\ btPast'.unlisted = IF btUndo.stuck THEN btPast.unlisted \cup {id} ELSE btPast.unlisted

\* The command of its creation.
MadeBy(x, i, id) ==
  /\ x \in BtCommands /\ x.kind = "create" /\ x.board = id /\ x.task = btTasks[i] /\ Known(id, x)
  /\ btUndo' = Registered(x)
  /\ btPage' = btPage \/ (btPage' = id /\ x.task.from = "selector")

LEMMA NewBoard ==
  ASSUME NEW of \in BtSources
  PROVE  /\ [of |-> of, channel |-> "", alive |-> TRUE] \in BtBoardRecs
         /\ [of |-> of, channel |-> "", alive |-> TRUE].of = of
         /\ [of |-> of, channel |-> "", alive |-> TRUE].alive
         /\ ~HasChannel([of |-> of, channel |-> "", alive |-> TRUE])
<1> DEFINE b == [of |-> of, channel |-> "", alive |-> TRUE]
<1>1. b \in BtBoardRecs
  BY NamesApart DEF BtBoardRecs
<1>2. b.of = of /\ b.alive /\ b.channel = ""
  OBVIOUS
<1> HIDE DEF b
<1>3. ~HasChannel(b)
  BY <1>2, Zenon DEF HasChannel
<1> QED BY <1>1, <1>2, <1>3 DEF b

LEMMA BoardAppended ==
  ASSUME MadeTypes, NEW b \in BtBoardRecs, btBoards' = Append(btBoards, b)
  PROVE  /\ btBoards' \in Seq(BtBoardRecs) /\ Len(btBoards') = Len(btBoards) + 1 /\ DOMAIN btBoards' = 1 .. Len(btBoards) + 1
         /\ DOMAIN btBoards = 1 .. Len(btBoards) /\ Len(btBoards) \in Nat
         /\ btBoards'[Len(btBoards) + 1] = b /\ \A d \in DOMAIN btBoards : btBoards'[d] = btBoards[d]
BY BtAppended DEF MadeTypes

LEMMA AskedAppended ==
  ASSUME MadeTypes, NEW c \in BtPlaces
  PROVE  LET s == Append(btPast.asked, c) IN
         /\ s \in Seq(BtPlaces) /\ Len(s) = Len(btBoards) + 1
         /\ s[Len(btBoards) + 1] = c /\ \A d \in DOMAIN btBoards : s[d] = btPast.asked[d]
<1>1. btPast.asked \in Seq(BtPlaces) /\ Len(btPast.asked) = Len(btBoards) /\ DOMAIN btBoards = 1 .. Len(btBoards)
  BY PastOf DEF MadeTypes
<1> QED BY <1>1, BtAppended

LEMMA TaskGoesOn ==
  ASSUME MadeTypes, NEW i \in DOMAIN btTasks, NEW id \in Nat, btTasks' = [btTasks EXCEPT ![i].board = id]
  PROVE  /\ btTasks' \in Seq(BtTaskRecs) /\ DOMAIN btTasks' = DOMAIN btTasks
         /\ btTasks'[i].board = id /\ btTasks'[i].of = btTasks[i].of /\ btTasks'[i].channel = btTasks[i].channel
         /\ btTasks'[i].before = btTasks[i].before
         /\ \A j \in DOMAIN btTasks \ {i} : btTasks'[j] = btTasks[j]
<1> DEFINE t == [btTasks[i] EXCEPT !.board = id]
<1>1. btTasks \in Seq(BtTaskRecs) /\ btTasks[i] \in BtTaskRecs
  BY DEF MadeTypes
<1>2. /\ t \in BtTaskRecs /\ t.board = id /\ t.of = btTasks[i].of /\ t.channel = btTasks[i].channel
      /\ t.before = btTasks[i].before
  BY <1>1 DEF BtTaskRecs
<1>3. btTasks' = [btTasks EXCEPT ![i] = t]
  OBVIOUS
<1> HIDE DEF t
<1>4. btTasks' \in Seq(BtTaskRecs) /\ DOMAIN btTasks' = DOMAIN btTasks /\ btTasks'[i] = t
      /\ \A j \in DOMAIN btTasks \ {i} : btTasks'[j] = btTasks[j]
  BY <1>1, <1>2, <1>3
<1> QED BY <1>2, <1>4

LEMMA MakeFacts ==
  ASSUME BtTypes, NEW i \in DOMAIN btTasks, Make(i), btTasks[i].board = 0
  PROVE  LET id == Len(btBoards) + 1 IN MadeOne(i, id) /\ MadeBy(CreateCommand(btTasks[i], id), i, id)
<1> DEFINE id == Len(btBoards) + 1
           x  == CreateCommand(btTasks[i], id)
           b  == [of |-> btTasks[i].of, channel |-> "", alive |-> TRUE]
           a  == Append(btPast.asked, btTasks[i].channel)
           u  == IF btUndo.stuck THEN btPast.unlisted \cup {id} ELSE btPast.unlisted
<1>1. /\ btTasks[i] \in BtTaskRecs /\ btTasks[i].of \in BtSources /\ btTasks[i].channel \in BtPlaces
      /\ btTasks[i].before \in 0 .. Len(btBoards) /\ Len(btBoards) \in Nat
  BY TaskOf DEF BtTypes
<1>2. id \in Nat \ {0} /\ MadeTypes
  BY <1>1 DEF BtTypes
<1>3. /\ btBoards' = Append(btBoards, b) /\ btTasks' = [btTasks EXCEPT ![i].board = id] /\ btUndo' = Registered(x)
      /\ btPage' = btPage \/ (btPage' = id /\ btTasks[i].from = "selector")
      /\ btPast' = [btPast EXCEPT !.asked = a, !.unlisted = u]
  BY DEF Make, ShowMade
<1>4. b \in BtBoardRecs /\ b.of = btTasks[i].of /\ b.alive /\ ~HasChannel(b)
  BY <1>1, NewBoard
<1>5. x \in BtCommands /\ x.kind = "create" /\ x.board = id /\ x.task = btTasks[i]
  BY <1>1, <1>2 DEF CreateCommand, BtCommands
<1> HIDE DEF b, x
<1>6. /\ btBoards' \in Seq(BtBoardRecs) /\ Len(btBoards') = id /\ DOMAIN btBoards' = 1 .. id /\ DOMAIN btBoards = 1 .. Len(btBoards)
      /\ btBoards'[id] = b /\ \A d \in DOMAIN btBoards : btBoards'[d] = btBoards[d]
  BY <1>2, <1>3, <1>4, BoardAppended
<1>7. a \in Seq(BtPlaces) /\ Len(a) = id /\ a[id] = btTasks[i].channel /\ \A d \in DOMAIN btBoards : a[d] = btPast.asked[d]
  BY <1>1, <1>2, AskedAppended
<1>8. u \in SUBSET Nat
  BY <1>2, PastOf
<1>9. Known(id, x)
  BY <1>1, <1>2, <1>5 DEF Known
<1>10. /\ btTasks' \in Seq(BtTaskRecs) /\ DOMAIN btTasks' = DOMAIN btTasks
       /\ btTasks'[i].board = id /\ btTasks'[i].of = btTasks[i].of /\ btTasks'[i].channel = btTasks[i].channel
       /\ btTasks'[i].before = btTasks[i].before
       /\ \A j \in DOMAIN btTasks \ {i} : btTasks'[j] = btTasks[j]
  BY <1>2, <1>3, TaskGoesOn
<1> HIDE DEF a, u, id
<1>11. /\ btPast' \in BtPasts /\ btPast'.asked = a /\ btPast'.unlisted = u
       /\ btPast'.channels = btPast.channels /\ btPast'.redone = btPast.redone /\ btPast'.overtaken = btPast.overtaken
       /\ btPast'.unlinked = btPast.unlinked /\ btPast'.lost = btPast.lost
  BY <1>2, <1>3, <1>7, <1>8 DEF MadeTypes, BtPasts
<1>12. MadeBy(x, i, id)
  BY <1>3, <1>5, <1>9 DEF MadeBy
<1>13. MadeOne(i, id)
  <2>1. id = Len(btBoards) + 1
    BY DEF id
  <2>2. btBoards'[id].of = btTasks[i].of /\ ~HasChannel(btBoards'[id]) /\ btBoards'[id].alive
    BY <1>4, <1>6, Zenon
  <2>3. btPast'.unlisted = IF btUndo.stuck THEN btPast.unlisted \cup {id} ELSE btPast.unlisted
    BY <1>11 DEF u
  <2> QED BY <1>6, <1>7, <1>10, <1>11, <2>1, <2>2, <2>3, Zenon DEF MadeOne
<1> QED BY <1>12, <1>13 DEF id, x

LEMMA MadeOneTypes ==
  ASSUME MadeTypes, NEW i, NEW id, NEW x, MadeOne(i, id), MadeBy(x, i, id)
  PROVE  MadeTypes' /\ Len(btBoards) \in Nat /\ id = Len(btBoards) + 1
<1>1. Len(btBoards) \in Nat /\ id = Len(btBoards) + 1 /\ i \in DOMAIN btTasks
  BY DEF MadeTypes, MadeOne
<1>2. btBoards' \in Seq(BtBoardRecs) /\ Len(btBoards') = id /\ btPage' \in 0 .. id
  <2>1. btPage \in 0 .. Len(btBoards)
    BY DEF MadeTypes
  <2> QED BY <1>1, <2>1 DEF MadeOne, MadeBy
<1>3. btUndo' \in BtUndos /\ KnownAll(id, btUndo'.done) /\ KnownAll(id, btUndo'.undone)
  <2>1. x \in BtCommands /\ Known(id, x) /\ btUndo' = Registered(x)
    BY DEF MadeBy
  <2>2. id \in Nat /\ Len(btBoards) <= id
    BY <1>1
  <2> QED BY <2>1, <2>2, RegisteredIsKnown
<1>4. btTasks' \in Seq(BtTaskRecs) /\ \A j \in DOMAIN btTasks' : TaskKnown(id, btTasks'[j])
  <2>1. /\ btTasks' \in Seq(BtTaskRecs) /\ DOMAIN btTasks' = DOMAIN btTasks
        /\ btTasks'[i].board = id /\ btTasks'[i].before = btTasks[i].before
        /\ \A j \in DOMAIN btTasks \ {i} : btTasks'[j] = btTasks[j]
    BY DEF MadeOne
  <2>2. \A j \in DOMAIN btTasks : btTasks[j].board \in 0 .. Len(btBoards) /\ btTasks[j].before \in 0 .. Len(btBoards)
    BY TaskOf
  <2> QED BY <1>1, <2>1, <2>2 DEF TaskKnown
<1>5. /\ btPast' \in BtPasts /\ Len(btPast'.asked) = id /\ btPast'.unlinked \subseteq 1 .. id
      /\ Len(btPast'.channels) \in 0 .. Len(BtNew)
  <2>1. btPast.unlinked \subseteq 1 .. Len(btBoards) /\ Len(btPast.channels) \in 0 .. Len(BtNew)
    BY DEF MadeTypes
  <2>2. /\ btPast' \in BtPasts /\ Len(btPast'.asked) = id /\ btPast'.unlinked = btPast.unlinked
        /\ btPast'.channels = btPast.channels
    BY DEF MadeOne
  <2> QED BY <1>1, <2>1, <2>2
<1> QED BY <1>1, <1>2, <1>3, <1>4, <1>5 DEF MadeTypes

LEMMA MadeOneLinks ==
  ASSUME MadeTypes, LinkInv, NEW i, NEW id, NEW x, MadeOne(i, id), MadeBy(x, i, id)
  PROVE  LinkInv'
<1> DEFINE n == Len(btBoards)
<1>1. n \in Nat /\ id = n + 1 /\ i \in DOMAIN btTasks /\ DOMAIN btBoards = 1 .. n /\ DOMAIN btBoards' = 1 .. id
      /\ btTasks[i].board = 0
  BY DEF MadeTypes, MadeOne
<1>2. /\ ~HasChannel(btBoards'[id]) /\ \A d \in DOMAIN btBoards : btBoards'[d] = btBoards[d]
      /\ btPast'.asked[id] = btTasks[i].channel /\ \A d \in DOMAIN btBoards : btPast'.asked[d] = btPast.asked[d]
      /\ btPast'.unlinked = btPast.unlinked
  BY DEF MadeOne
<1>3. /\ DOMAIN btTasks' = DOMAIN btTasks /\ btTasks'[i].board = id /\ btTasks'[i].channel = btTasks[i].channel
      /\ \A j \in DOMAIN btTasks \ {i} : btTasks'[j] = btTasks[j]
  BY DEF MadeOne
<1>4. \A j \in DOMAIN btTasks : btTasks[j].board \in 0 .. n
  BY TaskOf
<1>5. btPast.unlinked \subseteq 1 .. n
  BY DEF MadeTypes
<1>6. /\ \A c \in OfKind(btUndo.done, "link") : c.board \in 1 .. n
      /\ \A c \in OfKind(btUndo.undone, "link") : c.board \in 1 .. n
  BY UndoOf, LinkCommandOf
<1>7. /\ OfKind(btUndo'.done, "link") \subseteq OfKind(btUndo.done, "link") /\ OncePer(btUndo'.done, "link")
      /\ OfKind(btUndo'.undone, "link") \subseteq OfKind(btUndo.undone, "link") /\ OncePer(btUndo'.undone, "link")
  <2>1. x \in BtCommands /\ x.kind # "link" /\ btUndo' = Registered(x)
    BY DEF MadeBy
  <2>2. OncePer(btUndo.done, "link") /\ OncePer(btUndo.undone, "link")
    BY Zenon DEF LinkInv
  <2> QED BY <2>1, <2>2, RegisteredKinds
<1> HIDE DEF n
<1>8. ASSUME NEW d \in DOMAIN btBoards', HasChannel(btBoards'[d])
      PROVE  btBoards'[d].channel = btPast'.asked[d]
  <2>1. d \in DOMAIN btBoards
    BY <1>1, <1>2, <1>8
  <2> QED BY <1>2, <1>8, <2>1, Zenon DEF LinkInv, HasChannel
<1>9. \A c \in OfKind(btUndo'.done, "link") : c.channel = btPast'.asked[c.board] /\ btBoards'[c.board].channel = c.channel
  <2>1. \A c \in OfKind(btUndo.done, "link") : c.channel = btPast.asked[c.board] /\ btBoards[c.board].channel = c.channel
    BY Zenon DEF LinkInv
  <2> QED BY <1>1, <1>2, <1>6, <1>7, <2>1
<1>10. \A c \in OfKind(btUndo'.undone, "link") : c.channel = btPast'.asked[c.board]
  <2>1. \A c \in OfKind(btUndo.undone, "link") : c.channel = btPast.asked[c.board]
    BY Zenon DEF LinkInv
  <2> QED BY <1>1, <1>2, <1>6, <1>7, <2>1
<1>11. \A j \in DOMAIN btTasks' : btTasks'[j].board # 0 => btPast'.asked[btTasks'[j].board] = btTasks'[j].channel
  <2>1. \A j \in DOMAIN btTasks : btTasks[j].board # 0 => btPast.asked[btTasks[j].board] = btTasks[j].channel
    BY Zenon DEF LinkInv
  <2> QED BY <1>1, <1>2, <1>3, <1>4, <2>1
<1>12. \A j, k \in DOMAIN btTasks' : btTasks'[j].board # 0 /\ btTasks'[j].board = btTasks'[k].board => j = k
  <2>1. \A j, k \in DOMAIN btTasks : btTasks[j].board # 0 /\ btTasks[j].board = btTasks[k].board => j = k
    BY Zenon DEF LinkInv
  <2> QED BY <1>1, <1>3, <1>4, <2>1
<1>13. LinkedBy(btUndo'.done) \subseteq LinkedBy(btUndo.done) /\ LinkedBy(btUndo'.undone) \subseteq LinkedBy(btUndo.undone)
       /\ LinkedBy(btUndo.done) \subseteq 1 .. n /\ LinkedBy(btUndo.undone) \subseteq 1 .. n
  BY <1>6, <1>7 DEF LinkedBy
<1>14. UnderWay' \subseteq UnderWay \cup {id}
  BY <1>3 DEF UnderWay
<1>15. UnderWay' \cap (LinkedBy(btUndo'.done) \cup LinkedBy(btUndo'.undone) \cup btPast'.unlinked) = {}
  <2>1. UnderWay \cap (LinkedBy(btUndo.done) \cup LinkedBy(btUndo.undone) \cup btPast.unlinked) = {}
    BY Zenon DEF LinkInv
  <2>2. id \notin 1 .. n
    BY <1>1
  <2> QED BY <1>2, <1>5, <1>13, <1>14, <2>1, <2>2
<1>16. LinkedBy(btUndo'.done) \cap LinkedBy(btUndo'.undone) = {}
  BY <1>13, Zenon DEF LinkInv
<1>17. \A d \in DOMAIN btBoards' : btBoards'[d].channel # "" => btBoards'[d].channel = btPast'.asked[d]
  BY <1>8, Zenon DEF HasChannel
<1> QED BY <1>7, <1>9, <1>10, <1>11, <1>12, <1>15, <1>16, <1>17, Zenon DEF LinkInv

LEMMA MadeOneRemoves ==
  ASSUME MadeTypes, UndoRemoves, NEW i, NEW id, NEW x, MadeOne(i, id), MadeBy(x, i, id)
  PROVE  UndoRemoves'
<1>1. DOMAIN btBoards' = DOMAIN btBoards \cup {id} /\ \A d \in DOMAIN btBoards : btBoards'[d] = btBoards[d]
  BY DEF MadeTypes, MadeOne
<1>2. OfKind(btUndo.done, "create") \subseteq OfKind(btUndo'.done, "create")
      /\ (~btUndo.stuck => x \in OfKind(btUndo'.done, "create")) /\ x.board = id
  BY RegisteredKinds DEF MadeBy
<1>3. btPast.unlisted \subseteq btPast'.unlisted /\ (btUndo.stuck => id \in btPast'.unlisted)
  BY DEF MadeOne
<1>4. \A d \in DOMAIN btBoards :
        btBoards[d].alive /\ d \notin btPast.unlisted => \E c \in OfKind(btUndo.done, "create") : c.board = d
  BY UndoRemovesIs
<1> QED BY <1>1, <1>2, <1>3, <1>4, UndoRemovesNext

LEMMA MadeOneChosen ==
  ASSUME MadeTypes, ChosenInv, NEW i, NEW id, MadeOne(i, id)
  PROVE  ChosenInv'
<1>1. /\ DOMAIN btBoards' = DOMAIN btBoards \cup {id} /\ id \notin DOMAIN btBoards
      /\ \A d \in DOMAIN btBoards : btBoards'[d] = btBoards[d] /\ btPast'.asked[d] = btPast.asked[d]
      /\ btBoards'[id].of = btTasks[i].of /\ btPast'.asked[id] = btTasks[i].channel /\ i \in DOMAIN btTasks /\ btTasks[i].board = 0
  BY DEF MadeTypes, MadeOne
<1>2. /\ DOMAIN btTasks' = DOMAIN btTasks /\ btTasks'[i].board # 0 /\ btTasks'[i].of = btTasks[i].of
      /\ btTasks'[i].channel = btTasks[i].channel /\ \A j \in DOMAIN btTasks \ {i} : btTasks'[j] = btTasks[j]
  BY DEF MadeTypes, MadeOne
<1>3. btPast'.channels = btPast.channels /\ btPast'.redone = btPast.redone /\ btPast'.lost = btPast.lost
  BY DEF MadeOne
<1> SUFFICES ASSUME ~btPast.redone  PROVE ChosenInv'
  BY <1>3 DEF ChosenInv
<1>4. /\ \A j, k \in DOMAIN btTasks : btTasks[j].channel \in ToSet(BtNew) /\ btTasks[j].channel = btTasks[k].channel => j = k
      /\ \A d, other \in DOMAIN btBoards :
           btPast.asked[d] \in ToSet(BtNew) /\ btPast.asked[d] = btPast.asked[other] => d = other
      /\ \A j \in DOMAIN btTasks, d \in DOMAIN btBoards :
           btTasks[j].board = 0 /\ btTasks[j].channel \in ToSet(BtNew) => btPast.asked[d] # btTasks[j].channel
      /\ \A c \in DOMAIN BtNew : c \notin DOMAIN btPast.channels => ~NewFor(c) /\ ~MadeFor(c)
  BY Zenon DEF ChosenInv
<1>5. \A j \in DOMAIN btTasks : btTasks'[j].channel = btTasks[j].channel /\ btTasks'[j].of = btTasks[j].of
  BY <1>2
<1>6. \A c : NewFor(c)' <=> NewFor(c)
  BY <1>2, <1>5 DEF NewFor
<1>7. \A c : MadeFor(c)' => MadeFor(c) \/ NewFor(c)
  BY <1>1 DEF NewFor, MadeFor
<1>8. \A c : MadeFor(c) => MadeFor(c)'
  BY <1>1 DEF MadeFor
<1>9. \A j, k \in DOMAIN btTasks' : btTasks'[j].channel \in ToSet(BtNew) /\ btTasks'[j].channel = btTasks'[k].channel => j = k
  BY <1>2, <1>4, <1>5
<1>10. \A d, other \in DOMAIN btBoards' :
         btPast'.asked[d] \in ToSet(BtNew) /\ btPast'.asked[d] = btPast'.asked[other] => d = other
  BY <1>1, <1>4
<1>11. \A j \in DOMAIN btTasks', d \in DOMAIN btBoards' :
         btTasks'[j].board = 0 /\ btTasks'[j].channel \in ToSet(BtNew) => btPast'.asked[d] # btTasks'[j].channel
  BY <1>1, <1>2, <1>4
<1>12. \A c \in DOMAIN BtNew : c \notin DOMAIN btPast'.channels => ~NewFor(c)' /\ ~MadeFor(c)'
  BY <1>3, <1>4, <1>6, <1>7
<1>13. ASSUME NEW c \in DOMAIN btPast.channels
       PROVE  /\ btPast.channels[c] = NotAsked => ~NewFor(c)' /\ ~MadeFor(c)'
              /\ \A j \in DOMAIN btTasks' : btTasks'[j].channel = BtNew[c] => btTasks'[j].of = btPast.channels[c]
              /\ \A d \in DOMAIN btBoards' : btPast'.asked[d] = BtNew[c] => btBoards'[d].of = btPast.channels[c]
              /\ btPast.channels[c] # NotAsked /\ BtNew[c] \notin btPast'.lost => NewFor(c)' \/ MadeFor(c)'
  <2>1. /\ btPast.channels[c] = NotAsked => ~NewFor(c) /\ ~MadeFor(c)
        /\ \A j \in DOMAIN btTasks : btTasks[j].channel = BtNew[c] => btTasks[j].of = btPast.channels[c]
        /\ \A d \in DOMAIN btBoards : btPast.asked[d] = BtNew[c] => btBoards[d].of = btPast.channels[c]
        /\ btPast.channels[c] # NotAsked /\ BtNew[c] \notin btPast.lost => NewFor(c) \/ MadeFor(c)
    BY Zenon DEF ChosenInv
  <2>2. \A j \in DOMAIN btTasks' : btTasks'[j].channel = BtNew[c] => btTasks'[j].of = btPast.channels[c]
    BY <1>2, <1>5, <2>1
  <2>3. \A d \in DOMAIN btBoards' : btPast'.asked[d] = BtNew[c] => btBoards'[d].of = btPast.channels[c]
    BY <1>1, <2>1
  <2> QED BY <1>3, <1>6, <1>7, <1>8, <2>1, <2>2, <2>3
<1> QED BY <1>3, <1>9, <1>10, <1>11, <1>12, <1>13 DEF ChosenInv

LEMMA MadeOneTakenBack ==
  ASSUME MadeTypes, LinkInv, TakenBackInv, NEW i, NEW id, NEW x, MadeOne(i, id), MadeBy(x, i, id)
  PROVE  TakenBackInv'
<1> DEFINE n == Len(btBoards)
<1>1. n \in Nat /\ id = n + 1 /\ i \in DOMAIN btTasks /\ DOMAIN btBoards = 1 .. n /\ DOMAIN btBoards' = 1 .. id
      /\ btTasks[i].board = 0
  BY DEF MadeTypes, MadeOne
<1>2. /\ ~HasChannel(btBoards'[id]) /\ btBoards'[id].alive /\ \A d \in DOMAIN btBoards : btBoards'[d] = btBoards[d]
      /\ \A d \in DOMAIN btBoards : btPast'.asked[d] = btPast.asked[d]
      /\ btPast'.unlinked = btPast.unlinked /\ btPast'.redone = btPast.redone /\ btPast'.lost = btPast.lost
  BY DEF MadeOne
<1>3. x \in BtCommands /\ x.kind = "create" /\ x.board = id /\ btUndo' = Registered(x)
  BY DEF MadeBy
<1> SUFFICES ASSUME ~btPast.redone  PROVE TakenBackInv'
  BY <1>2 DEF TakenBackInv
<1>4. \A c \in OfKind(btUndo.done, "create") : c.board \in 0 .. n
  BY UndoOf, LinkCommandOf
<1> HIDE DEF n
<1>5. /\ OncePer(btUndo'.done, "create")
      /\ \A c \in OfKind(btUndo'.done, "create") : c \in OfKind(btUndo.done, "create") \/ c = x
  <2>1. OncePer(btUndo.done, "create")
    BY Zenon DEF TakenBackInv
  <2>2. \A c \in OfKind(btUndo.done, "create") : c.board # x.board
    BY <1>1, <1>3, <1>4
  <2> QED BY <1>3, <2>1, <2>2, RegisteredKinds
<1>6. \A c \in OfKind(btUndo'.done, "create") : c.board # 0 => btBoards'[c.board].alive
  <2>1. \A c \in OfKind(btUndo.done, "create") : c.board # 0 => btBoards[c.board].alive
    BY Zenon DEF TakenBackInv
  <2> QED BY <1>1, <1>2, <1>3, <1>4, <1>5, <2>1
<1>7. DOMAIN btBoards' = DOMAIN btBoards \cup {id} /\ id \notin DOMAIN btBoards
  BY <1>1
<1>8. \A d \in DOMAIN btBoards' : ~btBoards'[d].alive \/ d \in btPast'.unlinked => ~HasChannel(btBoards'[d])
  <2>1. \A d \in DOMAIN btBoards : ~btBoards[d].alive \/ d \in btPast.unlinked => ~HasChannel(btBoards[d])
    BY Zenon DEF TakenBackInv, HasChannel
  <2> QED BY <1>2, <1>7, <2>1
<1>9. UnderWay \cup {id} \subseteq UnderWay'
  <2>1. /\ DOMAIN btTasks' = DOMAIN btTasks /\ btTasks'[i].board = id
        /\ \A j \in DOMAIN btTasks \ {i} : btTasks'[j] = btTasks[j]
    BY DEF MadeOne
  <2> QED BY <1>1, <2>1 DEF UnderWay
<1>10. \A d \in DOMAIN btBoards' :
         d \notin UnderWay' /\ btPast'.asked[d] \notin btPast'.lost /\ btBoards'[d].alive /\ d \notin btPast'.unlinked =>
           btBoards'[d].channel = btPast'.asked[d]
  <2>1. \A d \in DOMAIN btBoards :
          d \notin UnderWay /\ btPast.asked[d] \notin btPast.lost /\ btBoards[d].alive /\ d \notin btPast.unlinked =>
            btBoards[d].channel = btPast.asked[d]
    BY Zenon DEF TakenBackInv
  <2> QED BY <1>2, <1>7, <1>9, <2>1
<1>11. ASSUME ~btUndo'.stuck, NEW d \in DOMAIN btBoards', HasChannel(btBoards'[d])
       PROVE  LinkIsLater(btUndo'.done, d)
  <2>1. d \in DOMAIN btBoards /\ d # id
    BY <1>2, <1>7, <1>11
  <2>2. ~btUndo.stuck /\ btUndo'.done = Append(btUndo.done, x)
    BY <1>3, <1>11, RegisteredOne
  <2>3. LinkIsLater(btUndo.done, d)
    BY <1>2, <1>11, <2>1, <2>2, Zenon DEF TakenBackInv, HasChannel
  <2>4. btUndo.done \in Seq(BtCommands)
    BY UndoOf
  <2> QED BY <1>3, <2>1, <2>2, <2>3, <2>4, LaterAppended
<1>12. \A d \in DOMAIN btBoards' : ~btBoards'[d].alive \/ d \in btPast'.unlinked => btBoards'[d].channel = ""
  BY <1>8, Zenon DEF HasChannel
<1>13. ~btUndo'.stuck => \A d \in DOMAIN btBoards' : btBoards'[d].channel # "" => LinkIsLater(btUndo'.done, d)
  BY <1>11, Zenon DEF HasChannel
<1> QED BY <1>5, <1>6, <1>10, <1>12, <1>13, Zenon DEF TakenBackInv

LEMMA MadeOneShown ==
  ASSUME MadeTypes, ShownInv, NEW i, NEW id, NEW x, MadeOne(i, id), MadeBy(x, i, id)
  PROVE  ShownInv'
<1> DEFINE n == Len(btBoards)
<1>1. n \in Nat /\ id = n + 1 /\ i \in DOMAIN btTasks /\ DOMAIN btBoards = 1 .. n
      /\ btBoards'[id].alive /\ \A d \in DOMAIN btBoards : btBoards'[d] = btBoards[d]
  BY DEF MadeTypes, MadeOne
<1>2. /\ x \in BtCommands /\ x.kind = "create" /\ x.board = id /\ x.task = btTasks[i] /\ btUndo' = Registered(x)
      /\ btPage' = btPage \/ (btPage' = id /\ x.task.from = "selector")
  BY DEF MadeBy
<1>0. btPast'.redone = btPast.redone /\ btPast'.overtaken = btPast.overtaken
  BY DEF MadeOne
<1> SUFFICES ASSUME ~btPast.redone, ~btPast.overtaken  PROVE ShownInv'
  BY <1>0 DEF ShownInv
<1>3. \A c \in OfKind(btUndo.done, "create") : c.board \in 0 .. n /\ c.task.before \in 0 .. n
  BY UndoOf, LinkCommandOf
<1>4. btPage \in 0 .. n /\ \A j \in DOMAIN btTasks : btTasks[j].before \in 0 .. n
  BY TaskOf DEF MadeTypes
<1> HIDE DEF n
<1>5. \A c \in OfKind(btUndo'.done, "create") : c \in OfKind(btUndo.done, "create") \/ c = x
  BY <1>2, RegisteredKinds
<1>6. {btTasks'[j].before : j \in DOMAIN btTasks'} = {btTasks[j].before : j \in DOMAIN btTasks}
  <2>1. /\ DOMAIN btTasks' = DOMAIN btTasks /\ btTasks'[i].before = btTasks[i].before
        /\ \A j \in DOMAIN btTasks \ {i} : btTasks'[j] = btTasks[j]
    BY DEF MadeOne
  <2>2. \A j \in DOMAIN btTasks : btTasks'[j].before = btTasks[j].before
    BY <2>1
  <2> QED BY <2>1, <2>2
<1>7. SeenBoards \subseteq 0 .. n
  BY <1>3, <1>4 DEF SeenBoards
<1>8. ASSUME NEW p \in SeenBoards', p \notin SeenBoards
      PROVE  p = id /\ btPage' = id /\ x.task.from = "selector"
  <2>1. CASE p = btPage'
    BY <1>2, <1>8, <2>1 DEF SeenBoards
  <2>2. CASE p \in {btTasks'[j].before : j \in DOMAIN btTasks'}
    BY <1>6, <1>8, <2>2 DEF SeenBoards
  <2>3. CASE p \in {c.task.before : c \in OfKind(btUndo'.done, "create")}
    BY <1>1, <1>2, <1>5, <1>8, <2>3 DEF SeenBoards
  <2> QED BY <2>1, <2>2, <2>3 DEF SeenBoards
<1>9. ASSUME NEW p \in SeenBoards' \ {0}
      PROVE  btBoards'[p].alive /\ \A c \in OfKind(btUndo'.done, "create") : c.board = p => c.task.from = "selector"
  <2>1. CASE p \in SeenBoards
    <3>1. btBoards[p].alive /\ \A c \in OfKind(btUndo.done, "create") : c.board = p => c.task.from = "selector"
      BY <1>9, <2>1, Zenon DEF ShownInv
    <3>2. p \in DOMAIN btBoards /\ p # id
      BY <1>1, <1>7, <1>9, <2>1
    <3> QED BY <1>1, <1>2, <1>5, <3>1, <3>2
  <2>2. CASE p \notin SeenBoards
    <3>1. p = id /\ x.task.from = "selector"
      BY <1>8, <1>9, <2>2
    <3>2. \A c \in OfKind(btUndo.done, "create") : c.board # id
      BY <1>1, <1>3
    <3> QED BY <1>1, <1>5, <3>1, <3>2
  <2> QED BY <2>1, <2>2
<1>10. MadeBefore(btUndo'.done)
  <2>1. MadeBefore(btUndo.done)
    BY Zenon DEF ShownInv
  <2>2. CASE btUndo.stuck
    BY <1>2, <2>1, <2>2, RegisteredOne
  <2>3. CASE ~btUndo.stuck
    <3>1. btUndo'.done = Append(btUndo.done, x) /\ btUndo.done \in Seq(BtCommands)
      BY <1>2, <2>3, RegisteredOne, UndoOf
    <3>2. \A c \in OfKind(btUndo.done, "create") : c.task.before # x.board
      BY <1>1, <1>2, <1>3
    <3>3. x.board # x.task.before
      BY <1>1, <1>2, <1>4
    <3> QED BY <1>2, <2>1, <3>1, <3>2, <3>3, BeforeAppended
  <2> QED BY <2>2, <2>3
<1> QED BY <1>9, <1>10, Zenon DEF ShownInv

LEMMA CreateKeeps ==
  ASSUME BtTypes, MadeInv, CreateBoard
  PROVE  MadeInv'
<1>1. PICK i \in DOMAIN btTasks :
        btTasks[i].board = 0 /\ IF btTasks[i].of = Empty THEN AddEmptyBoard(i) ELSE DuplicateBoard(i)
  BY Zenon DEF CreateBoard
<1>2. \/ Make(i)
      \/ MakeNothing(i) /\ (btUndo' = btUndo \/ btUndo' = Registered(CreateCommand(btTasks[i], 0)))
  BY <1>1, Zenon DEF AddEmptyBoard, DuplicateBoard
<1>3. CASE Make(i)
  <2> DEFINE id == Len(btBoards) + 1
             x  == CreateCommand(btTasks[i], id)
  <2>1. MadeOne(i, id) /\ MadeBy(x, i, id)
    BY <1>1, <1>3, MakeFacts
  <2> HIDE DEF id, x
  <2> QED BY <2>1, MadeOneTypes, MadeOneLinks, MadeOneRemoves, MadeOneChosen, MadeOneTakenBack, MadeOneShown DEF MadeInv
<1>4. CASE MakeNothing(i) /\ (btUndo' = btUndo \/ btUndo' = Registered(CreateCommand(btTasks[i], 0)))
  BY <1>4, NothingPasses, PassedKeeps
<1> QED BY <1>2, <1>3, <1>4

----------------------------------------------------------------------------
\* A board is linked.
LEMMA BoardPatched ==
  ASSUME MadeTypes, NEW b \in DOMAIN btBoards, NEW r \in BtBoardRecs, btBoards' = [btBoards EXCEPT ![b] = r]
  PROVE  /\ btBoards' \in Seq(BtBoardRecs) /\ Len(btBoards') = Len(btBoards) /\ DOMAIN btBoards' = DOMAIN btBoards
         /\ btBoards'[b] = r /\ \A d \in DOMAIN btBoards \ {b} : btBoards'[d] = btBoards[d]
BY DEF MadeTypes

LEMMA ChannelPatched ==
  ASSUME MadeTypes, NEW b \in DOMAIN btBoards, NEW c \in BtPlaces, btBoards' = [btBoards EXCEPT ![b].channel = c]
  PROVE  /\ btBoards' \in Seq(BtBoardRecs) /\ Len(btBoards') = Len(btBoards) /\ DOMAIN btBoards' = DOMAIN btBoards
         /\ btBoards'[b].channel = c /\ \A d \in DOMAIN btBoards \ {b} : btBoards'[d] = btBoards[d]
         /\ \A d \in DOMAIN btBoards : btBoards'[d].of = btBoards[d].of /\ (btBoards'[d].alive <=> btBoards[d].alive)
<1> DEFINE r == [btBoards[b] EXCEPT !.channel = c]
<1>1. btBoards[b] \in BtBoardRecs
  BY DEF MadeTypes
<1>2. r \in BtBoardRecs /\ r.channel = c /\ r.of = btBoards[b].of /\ (r.alive <=> btBoards[b].alive)
  BY <1>1 DEF BtBoardRecs
<1>3. btBoards' = [btBoards EXCEPT ![b] = r]
  OBVIOUS
<1> HIDE DEF r
<1>4. /\ btBoards' \in Seq(BtBoardRecs) /\ Len(btBoards') = Len(btBoards) /\ DOMAIN btBoards' = DOMAIN btBoards
      /\ btBoards'[b] = r /\ \A d \in DOMAIN btBoards \ {b} : btBoards'[d] = btBoards[d]
  BY <1>2, <1>3, BoardPatched
<1>5. ASSUME NEW d \in DOMAIN btBoards  PROVE btBoards'[d].of = btBoards[d].of /\ (btBoards'[d].alive <=> btBoards[d].alive)
  <2>1. CASE d = b
    BY <1>2, <1>4, <2>1, Zenon
  <2>2. CASE d # b
    <3>1. btBoards'[d] = btBoards[d]
      BY <1>4, <2>2
    <3> QED BY <3>1, Zenon
  <2> QED BY <2>1, <2>2
<1> QED BY <1>2, <1>4, <1>5, Zenon

Linked(i, b, x) ==
  /\ i \in DOMAIN btTasks /\ btTasks[i].board = b /\ b \in DOMAIN btBoards /\ btBoards[b].alive
  /\ x \in BtCommands /\ x.kind = "link" /\ x.board = b /\ x.channel = btTasks[i].channel
  /\ btUndo' = Registered(x) /\ btTasks' = RemoveAt(btTasks, i) /\ btPast' = btPast /\ btPage' = btPage
  /\ btBoards' = [btBoards EXCEPT ![b].channel = btTasks[i].channel]

LEMMA LinkedBoards ==
  ASSUME MadeTypes, NEW i, NEW b, NEW x, Linked(i, b, x)
  PROVE  /\ b \in DOMAIN btBoards /\ b # 0 /\ DOMAIN btBoards = 1 .. Len(btBoards) /\ Len(btBoards) \in Nat
         /\ btBoards' \in Seq(BtBoardRecs) /\ Len(btBoards') = Len(btBoards) /\ DOMAIN btBoards' = DOMAIN btBoards
         /\ btBoards'[b].channel = btTasks[i].channel /\ \A d \in DOMAIN btBoards \ {b} : btBoards'[d] = btBoards[d]
         /\ \A d \in DOMAIN btBoards : btBoards'[d].of = btBoards[d].of /\ (btBoards'[d].alive <=> btBoards[d].alive)
<1>1. b \in DOMAIN btBoards /\ i \in DOMAIN btTasks /\ btBoards' = [btBoards EXCEPT ![b].channel = btTasks[i].channel]
  BY Zenon DEF Linked
<1>2. btTasks[i].channel \in BtPlaces
  BY <1>1, TaskOf
<1>3. DOMAIN btBoards = 1 .. Len(btBoards) /\ Len(btBoards) \in Nat
  BY DEF MadeTypes
<1>4. b # 0
  BY <1>1, <1>3
<1> QED BY <1>1, <1>2, <1>3, <1>4, ChannelPatched, Zenon

LEMMA LinkedTypes ==
  ASSUME MadeTypes, NEW i, NEW b, NEW x, Linked(i, b, x)
  PROVE  MadeTypes'
<1> DEFINE n == Len(btBoards)
<1>1. n \in Nat /\ b \in 0 .. n /\ btBoards' \in Seq(BtBoardRecs) /\ Len(btBoards') = n
  BY LinkedBoards
<1>2. btUndo' \in BtUndos /\ KnownAll(n, btUndo'.done) /\ KnownAll(n, btUndo'.undone)
  <2>1. x \in BtCommands /\ x.kind # "create" /\ x.board = b /\ btUndo' = Registered(x)
    BY DEF Linked
  <2>2. Known(n, x)
    BY <1>1, <2>1 DEF Known
  <2> QED BY <1>1, <2>1, <2>2, RegisteredIsKnown
<1>3. btTasks' \in Seq(BtTaskRecs) /\ \A j \in DOMAIN btTasks' : TaskKnown(n, btTasks'[j])
  <2>1. i \in DOMAIN btTasks /\ btTasks' = RemoveAt(btTasks, i)
    BY DEF Linked
  <2>2. btTasks \in Seq(BtTaskRecs) /\ \A j \in DOMAIN btTasks : TaskKnown(n, btTasks[j])
    BY DEF MadeTypes
  <2>3. btTasks' \in Seq(BtTaskRecs) /\ \A j \in DOMAIN btTasks' : OldPlace(i, j) \in DOMAIN btTasks /\ btTasks'[j] = btTasks[OldPlace(i, j)]
    BY <2>1, <2>2, RemovedAt
  <2> QED BY <2>2, <2>3
<1>4. btPast' = btPast /\ btPage' = btPage
  BY DEF Linked
<1> QED BY <1>1, <1>2, <1>3, <1>4 DEF MadeTypes

LEMMA LinkedLinks ==
  ASSUME MadeTypes, LinkInv, NEW i, NEW b, NEW x, Linked(i, b, x)
  PROVE  LinkInv' /\ b \in UnderWay /\ b \notin btPast.unlinked /\ btPast.asked[b] = btTasks[i].channel
<1>1. /\ b \in DOMAIN btBoards /\ b # 0 /\ DOMAIN btBoards' = DOMAIN btBoards
      /\ btBoards'[b].channel = btTasks[i].channel /\ \A d \in DOMAIN btBoards \ {b} : btBoards'[d] = btBoards[d]
  BY LinkedBoards
<1>2. i \in DOMAIN btTasks /\ btTasks[i].board = b /\ btTasks' = RemoveAt(btTasks, i) /\ btPast' = btPast
  BY DEF Linked
<1>3. x \in BtCommands /\ x.kind = "link" /\ x.board = b /\ x.channel = btTasks[i].channel /\ btUndo' = Registered(x)
  BY DEF Linked
<1>4. b \in UnderWay
  BY <1>1, <1>2 DEF UnderWay
<1>5. TasksKept /\ b \notin UnderWay'
  BY <1>2, DroppedKeepsTasks
<1>6. UnderWay \cap (LinkedBy(btUndo.done) \cup LinkedBy(btUndo.undone) \cup btPast.unlinked) = {}
  BY Zenon DEF LinkInv
<1>7. b \notin LinkedBy(btUndo.done) /\ b \notin LinkedBy(btUndo.undone) /\ b \notin btPast.unlinked
  BY <1>4, <1>6
<1>8. btPast.asked[b] = btTasks[i].channel
  BY <1>1, <1>2, Zenon DEF LinkInv
<1>9. \A c \in OfKind(btUndo.done, "link") : c.board # b /\ c.board \in DOMAIN btBoards
  <2>1. DOMAIN btBoards = 1 .. Len(btBoards)
    BY DEF MadeTypes
  <2> QED BY <1>7, <2>1, UndoOf, LinkCommandOf DEF LinkedBy
<1>10. /\ \A c \in OfKind(btUndo'.done, "link") : c \in OfKind(btUndo.done, "link") \/ c = x
       /\ OncePer(btUndo'.done, "link")
       /\ OfKind(btUndo'.undone, "link") \subseteq OfKind(btUndo.undone, "link") /\ OncePer(btUndo'.undone, "link")
  <2>1. OncePer(btUndo.done, "link") /\ OncePer(btUndo.undone, "link")
    BY Zenon DEF LinkInv
  <2>2. \A c \in OfKind(btUndo.done, "link") : c.board # x.board
    BY <1>3, <1>9
  <2> QED BY <1>3, <2>1, <2>2, RegisteredKinds
<1>11. \A d \in DOMAIN btBoards' : HasChannel(btBoards'[d]) => btBoards'[d].channel = btPast'.asked[d]
  <2>1. \A d \in DOMAIN btBoards : HasChannel(btBoards[d]) => btBoards[d].channel = btPast.asked[d]
    BY Zenon DEF LinkInv, HasChannel
  <2> QED BY <1>1, <1>2, <1>8, <2>1
<1>12. \A c \in OfKind(btUndo'.done, "link") : c.channel = btPast'.asked[c.board] /\ btBoards'[c.board].channel = c.channel
  <2>1. \A c \in OfKind(btUndo.done, "link") : c.channel = btPast.asked[c.board] /\ btBoards[c.board].channel = c.channel
    BY Zenon DEF LinkInv
  <2> QED BY <1>1, <1>2, <1>3, <1>8, <1>9, <1>10, <2>1
<1>13. \A c \in OfKind(btUndo'.undone, "link") : c.channel = btPast'.asked[c.board]
  BY <1>2, <1>10, Zenon DEF LinkInv
<1>14. LinkedBy(btUndo'.done) \subseteq LinkedBy(btUndo.done) \cup {b} /\ LinkedBy(btUndo'.undone) \subseteq LinkedBy(btUndo.undone)
  BY <1>3, <1>10 DEF LinkedBy
<1>15. LinkedBy(btUndo'.done) \cap LinkedBy(btUndo'.undone) = {}
  <2>1. LinkedBy(btUndo.done) \cap LinkedBy(btUndo.undone) = {}
    BY Zenon DEF LinkInv
  <2> QED BY <1>7, <1>14, <2>1
<1>16. UnderWay' \cap (LinkedBy(btUndo'.done) \cup LinkedBy(btUndo'.undone) \cup btPast'.unlinked) = {}
  <2>1. UnderWay' \subseteq UnderWay
    BY <1>5 DEF TasksKept
  <2> QED BY <1>2, <1>5, <1>6, <1>14, <2>1
<1>17. \A d \in DOMAIN btBoards' : btBoards'[d].channel # "" => btBoards'[d].channel = btPast'.asked[d]
  BY <1>11, Zenon DEF HasChannel
<1>18. LinkInv'
  BY <1>5, <1>10, <1>12, <1>13, <1>15, <1>16, <1>17, Zenon DEF LinkInv, TasksKept
<1> QED BY <1>4, <1>7, <1>8, <1>18

LEMMA LinkedRemoves ==
  ASSUME MadeTypes, UndoRemoves, NEW i, NEW b, NEW x, Linked(i, b, x)
  PROVE  UndoRemoves'
<1>1. DOMAIN btBoards' = DOMAIN btBoards /\ \A d \in DOMAIN btBoards : btBoards'[d].alive <=> btBoards[d].alive
  BY LinkedBoards, Zenon
<1>2. OfKind(btUndo.done, "create") \subseteq OfKind(btUndo'.done, "create")
  BY RegisteredKinds DEF Linked
<1>3. btPast' = btPast
  BY DEF Linked
<1>4. \A d \in DOMAIN btBoards :
        btBoards[d].alive /\ d \notin btPast.unlisted => \E c \in OfKind(btUndo.done, "create") : c.board = d
  BY UndoRemovesIs
<1> QED BY <1>1, <1>2, <1>3, <1>4, UndoRemovesNext

LEMMA LinkedChosen ==
  ASSUME MadeTypes, LinkInv, ChosenInv, NEW i, NEW b, NEW x, Linked(i, b, x)
  PROVE  ChosenInv'
<1>1. DOMAIN btBoards' = DOMAIN btBoards /\ \A d \in DOMAIN btBoards : btBoards'[d].of = btBoards[d].of
  BY LinkedBoards, Zenon
<1>2. i \in DOMAIN btTasks /\ btTasks' = RemoveAt(btTasks, i) /\ btPast' = btPast /\ b \in DOMAIN btBoards
  BY DEF Linked
<1>3. btPast.asked[b] = btTasks[i].channel
  BY LinkedLinks
<1> QED BY <1>1, <1>2, <1>3, ChosenDropped

LEMMA LinkedLast ==
  ASSUME NEW S, NEW q \in Seq(S), NEW x \in S, x.kind = "link"
  PROVE  LinkIsLater(Append(q, x), x.board)
<1> DEFINE p == Append(q, x)
<1>1. /\ Len(q) \in Nat /\ DOMAIN p = 1 .. Len(q) + 1 /\ p[Len(q) + 1] = x
  BY BtAppended
<1> HIDE DEF p
<1>2. Len(q) + 1 \in DOMAIN p
  BY <1>1
<1>3. \A i \in DOMAIN p : p[i].kind = "create" /\ p[i].board = x.board => i < Len(q) + 1
  BY <1>1
<1>4. LinkIsLater(p, x.board)
  BY <1>1, <1>2, <1>3 DEF LinkIsLater
<1> QED BY <1>4 DEF p

LEMMA LinkedTakenBack ==
  ASSUME MadeTypes, LinkInv, TakenBackInv, NEW i, NEW b, NEW x, Linked(i, b, x)
  PROVE  TakenBackInv'
<1>1. /\ b \in DOMAIN btBoards /\ b # 0 /\ DOMAIN btBoards' = DOMAIN btBoards /\ DOMAIN btBoards = 1 .. Len(btBoards)
      /\ btBoards'[b].channel = btTasks[i].channel /\ \A d \in DOMAIN btBoards \ {b} : btBoards'[d] = btBoards[d]
  BY LinkedBoards
<1>2. \A d \in DOMAIN btBoards : btBoards'[d].alive <=> btBoards[d].alive
  BY LinkedBoards, Zenon
<1>3. i \in DOMAIN btTasks /\ btTasks[i].board = b /\ btTasks' = RemoveAt(btTasks, i) /\ btPast' = btPast /\ btBoards[b].alive
  BY DEF Linked
<1>4. x \in BtCommands /\ x.kind = "link" /\ x.board = b /\ btUndo' = Registered(x)
  BY DEF Linked
<1>5. b \notin btPast.unlinked /\ btPast.asked[b] = btTasks[i].channel
  BY LinkedLinks
<1> SUFFICES ASSUME ~btPast.redone  PROVE TakenBackInv'
  BY <1>3 DEF TakenBackInv
<1>6. /\ OncePer(btUndo'.done, "create")
      /\ \A c \in OfKind(btUndo'.done, "create") : c \in OfKind(btUndo.done, "create")
  <2>1. OncePer(btUndo.done, "create")
    BY Zenon DEF TakenBackInv
  <2> QED BY <1>4, <2>1, RegisteredKinds
<1>7. \A c \in OfKind(btUndo'.done, "create") : c.board # 0 => btBoards'[c.board].alive
  <2>1. \A c \in OfKind(btUndo.done, "create") : c.board # 0 => btBoards[c.board].alive
    BY Zenon DEF TakenBackInv
  <2>2. \A c \in OfKind(btUndo.done, "create") : c.board # 0 => c.board \in DOMAIN btBoards
    <3>1. DOMAIN btBoards = 1 .. Len(btBoards)
      BY DEF MadeTypes
    <3> QED BY <3>1, UndoOf, LinkCommandOf
  <2> QED BY <1>2, <1>6, <2>1, <2>2, Zenon
<1>8. \A d \in DOMAIN btBoards' : ~btBoards'[d].alive \/ d \in btPast'.unlinked => ~HasChannel(btBoards'[d])
  <2>1. \A d \in DOMAIN btBoards : ~btBoards[d].alive \/ d \in btPast.unlinked => ~HasChannel(btBoards[d])
    BY Zenon DEF TakenBackInv, HasChannel
  <2>2. ASSUME NEW d \in DOMAIN btBoards, ~btBoards'[d].alive \/ d \in btPast'.unlinked
        PROVE  ~HasChannel(btBoards'[d])
    <3>1. ~btBoards[d].alive \/ d \in btPast.unlinked
      BY <1>2, <1>3, <2>2, Zenon
    <3>2. d # b
      BY <1>3, <1>5, <3>1, Zenon
    <3>3. btBoards'[d] = btBoards[d]
      BY <1>1, <3>2
    <3> QED BY <2>1, <3>1, <3>3, Zenon
  <2> QED BY <1>1, <2>2
<1>9. UnderWay \subseteq UnderWay' \cup {b}
  <2>1. \A k \in DOMAIN btTasks \ {i} : \E j \in DOMAIN btTasks' : btTasks'[j] = btTasks[k]
    BY <1>3, RemovedAt DEF MadeTypes
  <2> QED BY <1>3, <2>1 DEF UnderWay
<1>10. ASSUME NEW d \in DOMAIN btBoards, d \notin UnderWay', btPast.asked[d] \notin btPast.lost, btBoards'[d].alive, d \notin btPast.unlinked
       PROVE  btBoards'[d].channel = btPast.asked[d]
  <2>1. CASE d = b
    BY <1>1, <1>5, <2>1
  <2>2. CASE d # b
    <3>1. d \notin UnderWay /\ btBoards'[d] = btBoards[d]
      BY <1>1, <1>9, <1>10, <2>2
    <3>2. btBoards[d].alive
      BY <1>2, <1>10, Zenon
    <3>3. btBoards[d].channel = btPast.asked[d]
      BY <1>10, <3>1, <3>2, Zenon DEF TakenBackInv
    <3> QED BY <3>1, <3>3
  <2> QED BY <2>1, <2>2
<1>11. ASSUME ~btUndo'.stuck, NEW d \in DOMAIN btBoards, HasChannel(btBoards'[d])
       PROVE  LinkIsLater(btUndo'.done, d)
  <2>1. ~btUndo.stuck /\ btUndo'.done = Append(btUndo.done, x) /\ btUndo.done \in Seq(BtCommands)
    BY <1>4, <1>11, RegisteredOne, UndoOf
  <2>2. CASE d = b
    BY <1>4, <2>1, <2>2, LinkedLast
  <2>3. CASE d # b
    <3>1. HasChannel(btBoards[d])
      BY <1>1, <1>11, <2>3
    <3>2. LinkIsLater(btUndo.done, d)
      BY <2>1, <3>1, Zenon DEF TakenBackInv, HasChannel
    <3> QED BY <1>4, <2>1, <3>2, LaterAppended
  <2> QED BY <2>2, <2>3
<1>12. \A d \in DOMAIN btBoards' : ~btBoards'[d].alive \/ d \in btPast'.unlinked => btBoards'[d].channel = ""
  BY <1>8, Zenon DEF HasChannel
<1>13. ~btUndo'.stuck => \A d \in DOMAIN btBoards' : btBoards'[d].channel # "" => LinkIsLater(btUndo'.done, d)
  BY <1>1, <1>11, Zenon DEF HasChannel
<1>14. \A d \in DOMAIN btBoards' :
         d \notin UnderWay' /\ btPast'.asked[d] \notin btPast'.lost /\ btBoards'[d].alive /\ d \notin btPast'.unlinked =>
           btBoards'[d].channel = btPast'.asked[d]
  BY <1>1, <1>3, <1>10, Zenon
<1> QED BY <1>6, <1>7, <1>12, <1>13, <1>14, Zenon DEF TakenBackInv

LEMMA LinkedShown ==
  ASSUME MadeTypes, ShownInv, NEW i, NEW b, NEW x, Linked(i, b, x)
  PROVE  ShownInv'
<1>1. \A d \in DOMAIN btBoards : btBoards'[d].alive <=> btBoards[d].alive
  BY LinkedBoards, Zenon
<1>2. i \in DOMAIN btTasks /\ btTasks' = RemoveAt(btTasks, i) /\ btPast' = btPast /\ btPage' = btPage
  BY DEF Linked
<1>3. x \in BtCommands /\ x.kind = "link" /\ btUndo' = Registered(x)
  BY DEF Linked
<1> SUFFICES ASSUME ~btPast.redone, ~btPast.overtaken  PROVE ShownInv'
  BY <1>2 DEF ShownInv
<1>4. OfKind(btUndo'.done, "create") \subseteq OfKind(btUndo.done, "create")
  BY <1>3, RegisteredKinds
<1>5. SeenBoards' \subseteq SeenBoards
  <2>1. \A j \in DOMAIN btTasks' : OldPlace(i, j) \in DOMAIN btTasks /\ btTasks'[j] = btTasks[OldPlace(i, j)]
    BY <1>2, RemovedAt DEF MadeTypes
  <2>2. {btTasks'[j].before : j \in DOMAIN btTasks'} \subseteq {btTasks[j].before : j \in DOMAIN btTasks}
    BY <2>1
  <2> QED BY <1>2, <1>4, <2>2 DEF SeenBoards
<1>6. SeenBoards \subseteq 0 .. Len(btBoards) /\ DOMAIN btBoards = 1 .. Len(btBoards) /\ Len(btBoards) \in Nat
  <2>1. \A c \in OfKind(btUndo.done, "create") : c.task.before \in 0 .. Len(btBoards)
    BY UndoOf, LinkCommandOf
  <2>2. \A j \in DOMAIN btTasks : btTasks[j].before \in 0 .. Len(btBoards)
    BY TaskOf
  <2>3. btPage \in 0 .. Len(btBoards) /\ DOMAIN btBoards = 1 .. Len(btBoards) /\ Len(btBoards) \in Nat
    BY DEF MadeTypes
  <2> QED BY <2>1, <2>2, <2>3 DEF SeenBoards
<1>7. ASSUME NEW p \in SeenBoards' \ {0}
      PROVE  btBoards'[p].alive /\ \A c \in OfKind(btUndo'.done, "create") : c.board = p => c.task.from = "selector"
  <2>1. p \in SeenBoards \ {0} /\ p \in DOMAIN btBoards
    BY <1>5, <1>6, <1>7
  <2>2. btBoards[p].alive /\ \A c \in OfKind(btUndo.done, "create") : c.board = p => c.task.from = "selector"
    BY <2>1, Zenon DEF ShownInv
  <2>3. btBoards'[p].alive
    BY <1>1, <2>1, <2>2, Zenon
  <2> QED BY <1>4, <2>2, <2>3
<1>8. MadeBefore(btUndo'.done)
  <2>1. MadeBefore(btUndo.done)
    BY Zenon DEF ShownInv
  <2>2. CASE btUndo.stuck
    BY <1>3, <2>1, <2>2, RegisteredOne
  <2>3. CASE ~btUndo.stuck
    <3>1. btUndo'.done = Append(btUndo.done, x) /\ btUndo.done \in Seq(BtCommands)
      BY <1>3, <2>3, RegisteredOne, UndoOf
    <3> QED BY <1>3, <2>1, <3>1, BeforeAppended
  <2> QED BY <2>2, <2>3
<1> QED BY <1>7, <1>8, Zenon DEF ShownInv

LEMMA LinkKeeps ==
  ASSUME BtTypes, MadeInv, LinkBoardTo
  PROVE  MadeInv'
<1>1. PICK i \in DOMAIN btTasks :
       LET task == btTasks[i] IN
       /\ task.board # 0
       /\ btTasks' = RemoveAt(btTasks, i)
       /\ \/ /\ btBoards[task.board].alive
             /\ btBoards' = [btBoards EXCEPT ![task.board].channel = task.channel]
             /\ btUndo' = Registered(LinkCommand(task.board, task.channel))
             /\ UNCHANGED btPast
          \/ /\ BtMayFail \/ ~btBoards[task.board].alive
             /\ btPast' = [btPast EXCEPT !.faults = IF btBoards[task.board].alive THEN @ + 1 ELSE @,
                              !.lost = @ \cup {task.channel}]
             /\ UNCHANGED <<btBoards, btUndo>>
  BY Zenon DEF LinkBoardTo
<1>2. UNCHANGED btPage
  BY DEF LinkBoardTo
<1> DEFINE b == btTasks[i].board
           x == LinkCommand(b, btTasks[i].channel)
<1>3. b \in 1 .. Len(btBoards) /\ b \in DOMAIN btBoards /\ btTasks[i].channel \in BtPlaces
  <2>1. DOMAIN btBoards = 1 .. Len(btBoards)
    BY DEF BtTypes, MadeTypes
  <2>2. b \in 0 .. Len(btBoards) /\ btTasks[i].channel \in BtPlaces /\ Len(btBoards) \in Nat
    BY TaskOf DEF BtTypes
  <2>3. b # 0
    BY <1>1
  <2> HIDE DEF b
  <2> QED BY <2>1, <2>2, <2>3
<1>4. x \in BtCommands /\ x.kind = "link" /\ x.board = b /\ x.channel = btTasks[i].channel
  <2>1. b \in Nat \ {0}
    BY <1>3
  <2> HIDE DEF b
  <2> QED BY <1>3, <2>1 DEF BtCommands, LinkCommand
<1>5. CASE /\ btBoards[b].alive /\ btBoards' = [btBoards EXCEPT ![b].channel = btTasks[i].channel]
           /\ btUndo' = Registered(x) /\ btPast' = btPast
  <2>1. btTasks' = RemoveAt(btTasks, i)
    BY <1>1, Zenon
  <2>2. Linked(i, b, x)
    BY <1>2, <1>3, <1>4, <1>5, <2>1, Zenon DEF Linked
  <2> HIDE DEF b, x
  <2> QED BY <2>2, LinkedTypes, LinkedLinks, LinkedRemoves, LinkedChosen, LinkedTakenBack, LinkedShown DEF MadeInv
<1>6. CASE /\ btPast' = [btPast EXCEPT !.faults = IF btBoards[b].alive THEN @ + 1 ELSE @,
                              !.lost = @ \cup {btTasks[i].channel}]
           /\ UNCHANGED <<btBoards, btUndo>>
  <2>1. btTasks' = RemoveAt(btTasks, i)
    BY <1>1, Zenon
  <2>2. Passed
    BY <1>2, <1>6, <2>1, UnlinkedPasses
  <2> QED BY <2>2, PassedKeeps
<1>7. \/ /\ btBoards[b].alive /\ btBoards' = [btBoards EXCEPT ![b].channel = btTasks[i].channel]
         /\ btUndo' = Registered(x) /\ btPast' = btPast
      \/ /\ btPast' = [btPast EXCEPT !.faults = IF btBoards[b].alive THEN @ + 1 ELSE @,
                              !.lost = @ \cup {btTasks[i].channel}]
         /\ UNCHANGED <<btBoards, btUndo>>
  BY <1>1, Zenon
<1> QED BY <1>5, <1>6, <1>7

----------------------------------------------------------------------------
(***************************************************************************)
(* Undo.                                                                    *)
(***************************************************************************)
UndonePast ==
  /\ btPast' \in BtPasts /\ btPast'.asked = btPast.asked /\ btPast'.channels = btPast.channels
  /\ btPast'.redone = btPast.redone /\ btPast'.lost = btPast.lost
  /\ ~btPast'.overtaken => ~btPast.overtaken /\ btTasks = <<>>
  /\ btPast.unlisted \subseteq btPast'.unlisted

LEMMA CommandOf ==
  ASSUME NEW x \in BtCommands
  PROVE  x.board \in Nat /\ x.kind \in {"create", "link", "delete"}
<1>1. \A c \in BtCommands : c.kind \in {"create", "link", "delete"}
  BY Zenon DEF BtCommands
<1>2. \A c \in BtCommands : c.kind = "create" => c.board \in Nat
  BY DEF BtCommands
<1>3. \A c \in BtCommands : c.kind = "link" => c.board \in Nat
  BY DEF BtCommands
<1>4. ASSUME NEW c \in BtCommands, c.kind = "delete"  PROVE c.board \in Nat
  <2>1. c \in [kind : {"delete"}, board : {0}, of : ToSet(BtTeam), channel : {""}, task : {<<>>}]
    BY <1>4 DEF BtCommands
  <2>2. c.board = 0
    BY <2>1
  <2> QED BY <2>2
<1> QED BY <1>1, <1>2, <1>3, <1>4

LEMMA PastIsUndone ==
  ASSUME MadeTypes, NEW fails \in BOOLEAN, NEW x \in BtCommands,
         btPast' = [btPast EXCEPT !.clicks = @ + 1, !.faults = IF fails THEN @ + 1 ELSE @,
                        !.overtaken = @ \/ btTasks # <<>>,
                        !.unlisted = IF fails /\ x.kind = "create" THEN @ \cup {x.board} ELSE @,
                        !.unlinked = IF x.kind = "link" /\ ~fails THEN @ \cup {x.board} ELSE @]
  PROVE  /\ UndonePast
         /\ fails /\ x.kind = "create" => x.board \in btPast'.unlisted
         /\ btPast'.unlinked = IF x.kind = "link" /\ ~fails THEN btPast.unlinked \cup {x.board} ELSE btPast.unlinked
<1> DEFINE k == btPast.clicks + 1
           f == IF fails THEN btPast.faults + 1 ELSE btPast.faults
           o == btPast.overtaken \/ btTasks # <<>>
           l == IF fails /\ x.kind = "create" THEN btPast.unlisted \cup {x.board} ELSE btPast.unlisted
           u == IF x.kind = "link" /\ ~fails THEN btPast.unlinked \cup {x.board} ELSE btPast.unlinked
<1>1. btPast' = [btPast EXCEPT !.clicks = k, !.faults = f, !.overtaken = o, !.unlisted = l, !.unlinked = u]
  OBVIOUS
<1>2. k \in Nat /\ f \in Nat
  BY PastOf
<1>3. o \in BOOLEAN
  OBVIOUS
<1>4. x.board \in Nat
  BY CommandOf
<1>5. l \in SUBSET Nat /\ u \in SUBSET Nat /\ btPast.unlisted \subseteq l
  BY <1>4, PastOf
<1>6. fails /\ x.kind = "create" => x.board \in l
  OBVIOUS
<1>7. ~o => ~btPast.overtaken /\ btTasks = <<>>
  BY Zenon
<1>8. btPast \in BtPasts
  BY DEF MadeTypes
<1> HIDE DEF k, f, o, l, u
<1>9. /\ btPast' \in BtPasts /\ btPast'.asked = btPast.asked /\ btPast'.channels = btPast.channels
      /\ btPast'.redone = btPast.redone /\ btPast'.lost = btPast.lost
      /\ btPast'.overtaken = o /\ btPast'.unlisted = l /\ btPast'.unlinked = u
  BY ZenonT(60), <1>1, <1>2, <1>3, <1>5, <1>8 DEF BtPasts
<1>10. UndonePast
  BY <1>5, <1>7, <1>9, Zenon DEF UndonePast
<1>11. btPast'.unlinked = u
  BY <1>9
<1> QED BY <1>6, <1>9, <1>10, <1>11, Zenon DEF u

\* The last command.
IsLast(c) == btUndo.done # <<>> /\ ~btUndo.stuck /\ c = Last(btUndo.done)

LEMMA LastCommand ==
  ASSUME MadeTypes, NEW c, IsLast(c)
  PROVE  /\ c \in BtCommands /\ Known(Len(btBoards), c) /\ c \in OfKind(btUndo.done, c.kind)
         /\ c.kind \in {"create", "link", "delete"} /\ c.board \in 0 .. Len(btBoards)
         /\ Len(btUndo.done) \in DOMAIN btUndo.done /\ btUndo.done[Len(btUndo.done)] = c
<1>1. btUndo.done \in Seq(BtCommands) /\ KnownAll(Len(btBoards), btUndo.done) /\ btUndo.done # <<>> /\ c = Last(btUndo.done)
  BY UndoOf DEF IsLast
<1>2. Len(btUndo.done) \in DOMAIN btUndo.done /\ btUndo.done[Len(btUndo.done)] = c /\ c \in BtCommands
  <2>1. /\ Len(btUndo.done) \in Nat \ {0} /\ DOMAIN btUndo.done = 1 .. Len(btUndo.done)
        /\ Last(btUndo.done) = btUndo.done[Len(btUndo.done)] /\ Last(btUndo.done) \in BtCommands
    BY <1>1, FrontOf, Zenon
  <2> QED BY <1>1, <2>1
<1>3. Known(Len(btBoards), c)
  BY <1>1, <1>2 DEF KnownAll
<1>4. c.kind \in {"create", "link", "delete"}
  BY <1>2, CommandOf
<1>5. c \in OfKind(btUndo.done, c.kind)
  BY <1>2 DEF OfKind
<1> QED BY <1>2, <1>3, <1>4, <1>5 DEF Known

LEMMA BackFacts ==
  ASSUME MadeTypes, NEW c, IsLast(c), btUndo' = Back(c)
  PROVE  /\ btUndo' \in BtUndos /\ ~btUndo'.stuck
         /\ OneMore(btUndo.done, btUndo'.done, c) /\ OneMore(btUndo'.undone, btUndo.undone, c)
         /\ KnownAll(Len(btBoards), btUndo'.done) /\ KnownAll(Len(btBoards), btUndo'.undone)
         /\ Len(btUndo.done) \in Nat \ {0} /\ DOMAIN btUndo'.done = 1 .. Len(btUndo.done) - 1
         /\ DOMAIN btUndo.done = 1 .. Len(btUndo.done)
         /\ \A i \in DOMAIN btUndo'.done : btUndo'.done[i] = btUndo.done[i]
<1> DEFINE d == Front(btUndo.done)
           u == <<c>> \o btUndo.undone
<1>1. btUndo.done \in Seq(BtCommands) /\ btUndo.undone \in Seq(BtCommands) /\ btUndo.done # <<>> /\ c = Last(btUndo.done)
      /\ KnownAll(Len(btBoards), btUndo.done) /\ KnownAll(Len(btBoards), btUndo.undone)
  BY UndoOf DEF IsLast
<1>2. c \in BtCommands /\ Known(Len(btBoards), c)
  BY LastCommand
<1>3. /\ d \in Seq(BtCommands) /\ Len(btUndo.done) \in Nat \ {0} /\ DOMAIN d = 1 .. Len(btUndo.done) - 1
      /\ DOMAIN btUndo.done = 1 .. Len(btUndo.done)
      /\ \A i \in DOMAIN d : d[i] = btUndo.done[i]
  BY <1>1, FrontOf
<1>4. u \in Seq(BtCommands)
  BY <1>1, <1>2, BeforeAll
<1>5. OneMore(btUndo.done, d, c) /\ OneMore(u, btUndo.undone, c)
  BY <1>1, <1>2, OneMoreThanFront, OneMoreBefore
<1>6. btUndo' = [btUndo EXCEPT !.done = d, !.undone = u] /\ btUndo \in BtUndos /\ ~btUndo.stuck
  BY DEF Back, MadeTypes, IsLast
<1> HIDE DEF d, u
<1>7. btUndo' \in BtUndos /\ btUndo'.done = d /\ btUndo'.undone = u /\ btUndo'.stuck = btUndo.stuck
  BY <1>3, <1>4, <1>6 DEF BtUndos
<1>8. KnownAll(Len(btBoards), d) /\ KnownAll(Len(btBoards), u)
  BY <1>1, <1>2, <1>5, KnownMore
<1> QED BY <1>3, <1>5, <1>6, <1>7, <1>8

LEMMA BackLater ==
  ASSUME MadeTypes, NEW c, IsLast(c), btUndo' = Back(c), NEW id, LinkIsLater(btUndo.done, id),
         c.kind # "link" \/ c.board # id
  PROVE  LinkIsLater(btUndo'.done, id)
<1> DEFINE m == Len(btUndo.done)
<1>1. /\ m \in Nat \ {0} /\ DOMAIN btUndo'.done = 1 .. m - 1 /\ DOMAIN btUndo.done = 1 .. m
      /\ \A i \in DOMAIN btUndo'.done : btUndo'.done[i] = btUndo.done[i]
  BY BackFacts
<1>2. btUndo.done[m] = c
  BY LastCommand
<1> HIDE DEF m
<1>3. PICK j \in DOMAIN btUndo.done :
        /\ btUndo.done[j].kind = "link" /\ btUndo.done[j].board = id
        /\ \A i \in DOMAIN btUndo.done : btUndo.done[i].kind = "create" /\ btUndo.done[i].board = id => i < j
  BY DEF LinkIsLater
<1>4. j \in DOMAIN btUndo'.done
  BY <1>1, <1>2, <1>3
<1>5. \A i \in DOMAIN btUndo'.done : i \in DOMAIN btUndo.done
  BY <1>1
<1> QED BY <1>1, <1>3, <1>4, <1>5 DEF LinkIsLater

LEMMA BackBefore ==
  ASSUME MadeTypes, NEW c, IsLast(c), btUndo' = Back(c), MadeBefore(btUndo.done)
  PROVE  MadeBefore(btUndo'.done)
<1>1. /\ Len(btUndo.done) \in Nat \ {0} /\ DOMAIN btUndo'.done = 1 .. Len(btUndo.done) - 1 /\ DOMAIN btUndo.done = 1 .. Len(btUndo.done)
      /\ \A i \in DOMAIN btUndo'.done : btUndo'.done[i] = btUndo.done[i]
  BY BackFacts
<1>2. \A i \in DOMAIN btUndo'.done : i \in DOMAIN btUndo.done
  BY <1>1
<1> QED BY <1>1, <1>2 DEF MadeBefore

----------------------------------------------------------------------------
LEMMA UndoTypes ==
  ASSUME MadeTypes, btUndo' \in BtUndos, btTasks' = btTasks,
         KnownAll(Len(btBoards), btUndo'.done), KnownAll(Len(btBoards), btUndo'.undone),
         btBoards' \in Seq(BtBoardRecs), Len(btBoards') = Len(btBoards), btPage' \in 0 .. Len(btBoards),
         btPast' \in BtPasts, btPast'.asked = btPast.asked, btPast'.channels = btPast.channels,
         btPast'.unlinked \subseteq 1 .. Len(btBoards)
  PROVE  MadeTypes'
BY DEF MadeTypes

\* The manager executes for ever: the boards and the commands are the same.
Hung ==
  /\ btUndo' = [btUndo EXCEPT !.stuck = TRUE] /\ UNCHANGED <<btBoards, btTasks>>
  /\ btPage' \in 0 .. Len(btBoards)
  /\ btPast' \in BtPasts /\ btPast'.asked = btPast.asked /\ btPast'.channels = btPast.channels
  /\ btPast'.unlinked = btPast.unlinked /\ btPast.unlisted \subseteq btPast'.unlisted

LEMMA HungFacts ==
  ASSUME MadeTypes, Hung
  PROVE  /\ btUndo' \in BtUndos /\ btUndo'.done = btUndo.done /\ btUndo'.undone = btUndo.undone /\ btUndo'.stuck
         /\ btBoards' = btBoards /\ btTasks' = btTasks
<1>1. btUndo \in BtUndos
  BY DEF MadeTypes
<1> QED BY <1>1 DEF Hung, BtUndos

LEMMA HungKeeps ==
  ASSUME MadeTypes, LinkInv, UndoRemoves, Hung
  PROVE  MadeTypes' /\ LinkInv' /\ UndoRemoves'
<1>1. /\ btUndo' \in BtUndos /\ btUndo'.done = btUndo.done /\ btUndo'.undone = btUndo.undone
      /\ btBoards' = btBoards /\ btTasks' = btTasks
  BY HungFacts
<1>2. /\ btPage' \in 0 .. Len(btBoards) /\ btPast' \in BtPasts /\ btPast'.asked = btPast.asked /\ btPast'.channels = btPast.channels
      /\ btPast'.unlinked = btPast.unlinked /\ btPast.unlisted \subseteq btPast'.unlisted
  BY DEF Hung
<1>3. MadeTypes'
  BY <1>1, <1>2 DEF MadeTypes
<1>4. UnderWay' = UnderWay
  BY <1>1 DEF UnderWay
<1>5. LinkInv'
  BY <1>1, <1>2, <1>4 DEF LinkInv
<1>6. UndoRemoves'
  BY <1>1, <1>2 DEF UndoRemoves
<1> QED BY <1>3, <1>5, <1>6

LEMMA HungUndo ==
  ASSUME MadeInv, Hung, UndonePast, btPage' \in SeenBoards
  PROVE  MadeInv'
<1>1. /\ btUndo'.done = btUndo.done /\ btUndo'.stuck /\ btBoards' = btBoards /\ btTasks' = btTasks
  BY HungFacts DEF MadeInv
<1>2. /\ btPast'.asked = btPast.asked /\ btPast'.channels = btPast.channels
      /\ btPast'.redone = btPast.redone /\ btPast'.lost = btPast.lost /\ btPast'.unlinked = btPast.unlinked
  BY DEF UndonePast, Hung
<1>3. ~btPast'.overtaken => ~btPast.overtaken
  BY DEF UndonePast
<1>4. ChosenInv'
  BY <1>1, <1>2, ChosenSame DEF MadeInv
<1>5. UnderWay' = UnderWay
  BY <1>1 DEF UnderWay
<1>6. TakenBackInv'
  <2>1. TakenBackInv
    BY DEF MadeInv
  <2> QED BY <1>1, <1>2, <1>5, <2>1 DEF TakenBackInv
<1>7. SeenBoards' \subseteq SeenBoards
  BY <1>1 DEF SeenBoards
<1>8. ShownInv'
  <2>1. ShownInv
    BY DEF MadeInv
  <2> QED BY <1>1, <1>2, <1>3, <1>7, <2>1 DEF ShownInv
<1> QED BY <1>4, <1>6, <1>8, HungKeeps DEF MadeInv

\* A deletion is undone.
LEMMA UndoneDelete ==
  ASSUME MadeInv, NEW c, IsLast(c), c.kind = "delete", btUndo' = Back(c), UndonePast, btPast'.unlinked = btPast.unlinked,
         btPage' = 0, UNCHANGED <<btBoards, btTasks>>
  PROVE  MadeInv'
<1>1. MadeTypes /\ LinkInv /\ UndoRemoves /\ ChosenInv /\ TakenBackInv /\ ShownInv
  BY DEF MadeInv
<1>2. /\ btPast' \in BtPasts /\ btPast'.asked = btPast.asked /\ btPast'.channels = btPast.channels
      /\ btPast'.redone = btPast.redone /\ btPast'.lost = btPast.lost /\ btPast.unlisted \subseteq btPast'.unlisted
  BY DEF UndonePast
<1>3. ~btPast'.overtaken => ~btPast.overtaken
  BY DEF UndonePast
<1>4. /\ btUndo' \in BtUndos /\ ~btUndo'.stuck
      /\ OneMore(btUndo.done, btUndo'.done, c) /\ OneMore(btUndo'.undone, btUndo.undone, c)
      /\ KnownAll(Len(btBoards), btUndo'.done) /\ KnownAll(Len(btBoards), btUndo'.undone)
  BY <1>1, BackFacts
<1>5. MadeTypes'
  <2>1. btBoards \in Seq(BtBoardRecs) /\ Len(btBoards) \in Nat /\ btPast.unlinked \subseteq 1 .. Len(btBoards)
    BY <1>1 DEF MadeTypes
  <2> QED BY <1>1, <1>2, <1>4, <2>1, UndoTypes
<1>6. /\ OfKind(btUndo'.done, "link") = OfKind(btUndo.done, "link") /\ (OncePer(btUndo.done, "link") => OncePer(btUndo'.done, "link"))
      /\ OfKind(btUndo'.undone, "link") = OfKind(btUndo.undone, "link") /\ (OncePer(btUndo.undone, "link") => OncePer(btUndo'.undone, "link"))
      /\ OfKind(btUndo'.done, "create") = OfKind(btUndo.done, "create") /\ (OncePer(btUndo.done, "create") => OncePer(btUndo'.done, "create"))
  BY <1>4, KindsOfOneMore
<1>7. LinkInv'
  <2>1. TasksKept
    BY <1>1, <1>2, SameKeepsTasks
  <2>2. \A x \in OfKind(btUndo.done, "link") : x.board \in DOMAIN btBoards
    <3>1. DOMAIN btBoards = 1 .. Len(btBoards)
      BY <1>1 DEF MadeTypes
    <3> QED BY <1>1, <3>1, UndoOf, LinkCommandOf
  <2>3. OncePer(btUndo.done, "link") /\ OncePer(btUndo.undone, "link")
    BY <1>1, Zenon DEF LinkInv
  <2> QED BY <1>1, <1>2, <1>6, <2>1, <2>2, <2>3, LinksSame
<1>8. UndoRemoves'
  BY <1>1, <1>2, <1>6, UndoRemovesIs, UndoRemovesNext
<1>9. ChosenInv'
  BY <1>1, <1>2, ChosenSame
<1>10. TakenBackInv'
  <2> SUFFICES ASSUME ~btPast.redone  PROVE TakenBackInv'
    BY <1>2 DEF TakenBackInv
  <2>1. UnderWay' = UnderWay
    BY DEF UnderWay
  <2>2. ASSUME NEW id \in DOMAIN btBoards, btBoards[id].channel # ""
        PROVE  LinkIsLater(btUndo'.done, id)
    <3>1. LinkIsLater(btUndo.done, id)
      BY <1>1, <2>2, Zenon DEF TakenBackInv, IsLast
    <3> QED BY <1>1, <3>1, BackLater
  <2>3. OncePer(btUndo.done, "create")
    BY <1>1, Zenon DEF TakenBackInv
  <2> QED BY <1>1, <1>2, <1>6, <2>1, <2>2, <2>3, Zenon DEF TakenBackInv
<1>11. ShownInv'
  <2> SUFFICES ASSUME ~btPast.redone, ~btPast.overtaken  PROVE ShownInv'
    BY <1>2, <1>3 DEF ShownInv
  <2>1. SeenBoards' \subseteq SeenBoards \cup {0}
    BY <1>6 DEF SeenBoards
  <2>2. MadeBefore(btUndo'.done)
    BY <1>1, BackBefore, Zenon DEF ShownInv
  <2> QED BY <1>1, <1>2, <1>6, <2>1, <2>2 DEF ShownInv
<1> QED BY <1>5, <1>7, <1>8, <1>9, <1>10, <1>11 DEF MadeInv

----------------------------------------------------------------------------
\* A creation is undone: the board is removed, unless that fails.
LEMMA AlivePatched ==
  ASSUME MadeTypes, NEW b \in DOMAIN btBoards, NEW a \in BOOLEAN, btBoards' = [btBoards EXCEPT ![b].alive = a]
  PROVE  /\ btBoards' \in Seq(BtBoardRecs) /\ Len(btBoards') = Len(btBoards) /\ DOMAIN btBoards' = DOMAIN btBoards
         /\ (btBoards'[b].alive <=> a) /\ \A d \in DOMAIN btBoards \ {b} : btBoards'[d] = btBoards[d]
         /\ \A d \in DOMAIN btBoards : btBoards'[d].of = btBoards[d].of /\ btBoards'[d].channel = btBoards[d].channel
<1> DEFINE r == [btBoards[b] EXCEPT !.alive = a]
<1>1. btBoards[b] \in BtBoardRecs
  BY DEF MadeTypes
<1>2. r \in BtBoardRecs /\ r.of = btBoards[b].of /\ r.channel = btBoards[b].channel /\ (r.alive <=> a)
  BY <1>1 DEF BtBoardRecs
<1>3. btBoards' = [btBoards EXCEPT ![b] = r]
  OBVIOUS
<1> HIDE DEF r
<1>4. /\ btBoards' \in Seq(BtBoardRecs) /\ Len(btBoards') = Len(btBoards) /\ DOMAIN btBoards' = DOMAIN btBoards
      /\ btBoards'[b] = r /\ \A d \in DOMAIN btBoards \ {b} : btBoards'[d] = btBoards[d]
  BY <1>2, <1>3, BoardPatched
<1>5. \A d \in DOMAIN btBoards : btBoards'[d].of = btBoards[d].of /\ btBoards'[d].channel = btBoards[d].channel
  BY <1>2, <1>4
<1> QED BY <1>2, <1>4, <1>5, Zenon

Uncreated(c, fails) ==
  /\ IsLast(c) /\ c.kind = "create" /\ c.board # 0 /\ btUndo' = Back(c) /\ UndonePast
  /\ btPast'.unlinked = btPast.unlinked /\ fails \in BOOLEAN /\ (fails => c.board \in btPast'.unlisted)
  /\ btBoards' = [btBoards EXCEPT ![c.board].alive = fails] /\ btTasks' = btTasks
  /\ btPage' = IF c.task.from = "selector" THEN c.task.before ELSE btPage

LEMMA UncreatedFacts ==
  ASSUME MadeTypes, NEW c, NEW fails, Uncreated(c, fails)
  PROVE  /\ c.board \in DOMAIN btBoards /\ c.board # 0 /\ c.task.before \in 0 .. Len(btBoards) /\ c \in OfKind(btUndo.done, "create")
         /\ btBoards' \in Seq(BtBoardRecs) /\ Len(btBoards') = Len(btBoards) /\ DOMAIN btBoards' = DOMAIN btBoards
         /\ \A d \in DOMAIN btBoards \ {c.board} : btBoards'[d] = btBoards[d]
         /\ \A d \in DOMAIN btBoards : btBoards'[d].of = btBoards[d].of /\ btBoards'[d].channel = btBoards[d].channel
         /\ OneMore(btUndo.done, btUndo'.done, c) /\ OneMore(btUndo'.undone, btUndo.undone, c)
         /\ btBoards'[c.board].alive <=> fails
<1>1. /\ IsLast(c) /\ c.kind = "create" /\ c.board # 0 /\ btUndo' = Back(c) /\ fails \in BOOLEAN
      /\ btBoards' = [btBoards EXCEPT ![c.board].alive = fails]
  BY Zenon DEF Uncreated
<1>2. c \in BtCommands /\ c.board \in 0 .. Len(btBoards) /\ c \in OfKind(btUndo.done, "create") /\ Known(Len(btBoards), c)
  BY <1>1, LastCommand
<1>3. c.task.before \in 0 .. Len(btBoards)
  BY <1>1, <1>2 DEF Known
<1>4. DOMAIN btBoards = 1 .. Len(btBoards) /\ Len(btBoards) \in Nat
  BY DEF MadeTypes
<1>5. c.board \in DOMAIN btBoards
  BY <1>1, <1>2, <1>4
<1>6. /\ btBoards' \in Seq(BtBoardRecs) /\ Len(btBoards') = Len(btBoards) /\ DOMAIN btBoards' = DOMAIN btBoards
      /\ (btBoards'[c.board].alive <=> fails) /\ \A d \in DOMAIN btBoards \ {c.board} : btBoards'[d] = btBoards[d]
      /\ \A d \in DOMAIN btBoards : btBoards'[d].of = btBoards[d].of /\ btBoards'[d].channel = btBoards[d].channel
  BY <1>1, <1>5, AlivePatched, Zenon
<1>7. OneMore(btUndo.done, btUndo'.done, c) /\ OneMore(btUndo'.undone, btUndo.undone, c)
  BY <1>1, BackFacts
<1> QED BY <1>1, <1>2, <1>3, <1>5, <1>6, <1>7, Zenon

LEMMA UncreatedKinds ==
  ASSUME MadeTypes, NEW c, NEW fails, Uncreated(c, fails)
  PROVE  /\ OfKind(btUndo'.done, "link") = OfKind(btUndo.done, "link") /\ (OncePer(btUndo.done, "link") => OncePer(btUndo'.done, "link"))
         /\ OfKind(btUndo'.undone, "link") = OfKind(btUndo.undone, "link") /\ (OncePer(btUndo.undone, "link") => OncePer(btUndo'.undone, "link"))
         /\ OfKind(btUndo.done, "create") = OfKind(btUndo'.done, "create") \cup {c}
         /\ OncePer(btUndo.done, "create") =>
              OncePer(btUndo'.done, "create") /\ \A x \in OfKind(btUndo'.done, "create") : x.board # c.board
<1>1. OneMore(btUndo.done, btUndo'.done, c) /\ OneMore(btUndo'.undone, btUndo.undone, c) /\ c.board # 0
  BY UncreatedFacts
<1>2. c.kind = "create" /\ c.kind # "link"
  BY DEF Uncreated
<1> QED BY <1>1, <1>2, KindsOfOneMore

LEMMA UncreatedKeeps ==
  ASSUME MadeTypes, LinkInv, UndoRemoves, ChosenInv, NEW c, NEW fails, Uncreated(c, fails)
  PROVE  MadeTypes' /\ LinkInv' /\ UndoRemoves' /\ ChosenInv'
<1>1. /\ c.board \in DOMAIN btBoards /\ c.task.before \in 0 .. Len(btBoards) /\ c \in OfKind(btUndo.done, "create")
      /\ btBoards' \in Seq(BtBoardRecs) /\ Len(btBoards') = Len(btBoards) /\ DOMAIN btBoards' = DOMAIN btBoards
      /\ \A d \in DOMAIN btBoards \ {c.board} : btBoards'[d] = btBoards[d]
      /\ \A d \in DOMAIN btBoards : btBoards'[d].of = btBoards[d].of /\ btBoards'[d].channel = btBoards[d].channel
  BY UncreatedFacts
<1>2. IsLast(c) /\ btUndo' = Back(c) /\ btTasks' = btTasks /\ btPast'.unlinked = btPast.unlinked /\ UndonePast
  BY DEF Uncreated
<1>3. /\ btPast' \in BtPasts /\ btPast'.asked = btPast.asked /\ btPast'.channels = btPast.channels
      /\ btPast'.redone = btPast.redone /\ btPast'.lost = btPast.lost /\ btPast.unlisted \subseteq btPast'.unlisted
  BY <1>2 DEF UndonePast
<1>4. btUndo' \in BtUndos /\ KnownAll(Len(btBoards), btUndo'.done) /\ KnownAll(Len(btBoards), btUndo'.undone)
  BY <1>2, BackFacts
<1>5. btPage' \in 0 .. Len(btBoards)
  <2>1. btPage \in 0 .. Len(btBoards)
    BY DEF MadeTypes
  <2> QED BY <1>1, <2>1 DEF Uncreated
<1>6. MadeTypes'
  <2>1. btPast.unlinked \subseteq 1 .. Len(btBoards)
    BY DEF MadeTypes
  <2> QED BY <1>1, <1>2, <1>3, <1>4, <1>5, <2>1, UndoTypes
<1>7. LinkInv'
  <2>1. TasksKept
    BY <1>2, <1>3, SameKeepsTasks
  <2>2. \A x \in OfKind(btUndo.done, "link") : x.board \in DOMAIN btBoards
    <3>1. DOMAIN btBoards = 1 .. Len(btBoards)
      BY DEF MadeTypes
    <3> QED BY <3>1, UndoOf, LinkCommandOf
  <2>3. OncePer(btUndo.done, "link") /\ OncePer(btUndo.undone, "link")
    BY Zenon DEF LinkInv
  <2>4. /\ OfKind(btUndo'.done, "link") \subseteq OfKind(btUndo.done, "link") /\ OncePer(btUndo'.done, "link")
        /\ OfKind(btUndo'.undone, "link") \subseteq OfKind(btUndo.undone, "link") /\ OncePer(btUndo'.undone, "link")
    BY <2>3, UncreatedKinds
  <2> QED BY <1>1, <1>2, <1>3, <2>1, <2>2, <2>4, LinksSame
<1>8. UndoRemoves'
  <2>1. \A d \in DOMAIN btBoards :
          btBoards[d].alive /\ d \notin btPast.unlisted => \E x \in OfKind(btUndo.done, "create") : x.board = d
    BY UndoRemovesIs
  <2> SUFFICES ASSUME NEW d \in DOMAIN btBoards, btBoards'[d].alive, d \notin btPast'.unlisted
               PROVE  \E x \in OfKind(btUndo'.done, "create") : x.board = d
    BY <1>1, UndoRemovesNext
  <2>2. d # c.board
    <3>1. btBoards'[c.board].alive <=> fails
      BY UncreatedFacts
    <3> QED BY <3>1, Zenon DEF Uncreated
  <2>3. PICK x \in OfKind(btUndo.done, "create") : x.board = d
    <3>1. btBoards'[d] = btBoards[d] /\ d \notin btPast.unlisted
      BY <1>1, <1>3, <2>2
    <3>2. btBoards[d].alive
      BY <3>1, Zenon
    <3> QED BY <2>1, <3>1, <3>2
  <2>4. OfKind(btUndo.done, "create") = OfKind(btUndo'.done, "create") \cup {c}
    BY UncreatedKinds
  <2> QED BY <2>2, <2>3, <2>4
<1>9. ChosenInv'
  BY <1>1, <1>2, <1>3, ChosenSame
<1> QED BY <1>6, <1>7, <1>8, <1>9

LEMMA UncreatedTakenBack ==
  ASSUME MadeTypes, TakenBackInv, NEW c, NEW fails, Uncreated(c, fails)
  PROVE  TakenBackInv'
<1>1. /\ c.board \in DOMAIN btBoards /\ c.board # 0 /\ DOMAIN btBoards' = DOMAIN btBoards /\ c \in OfKind(btUndo.done, "create")
      /\ \A d \in DOMAIN btBoards \ {c.board} : btBoards'[d] = btBoards[d]
      /\ \A d \in DOMAIN btBoards : btBoards'[d].channel = btBoards[d].channel
  BY UncreatedFacts
<1>2. IsLast(c) /\ c.kind = "create" /\ btUndo' = Back(c) /\ btTasks' = btTasks /\ btPast'.unlinked = btPast.unlinked /\ UndonePast
  BY DEF Uncreated
<1>3. btPast'.asked = btPast.asked /\ btPast'.redone = btPast.redone /\ btPast'.lost = btPast.lost
  BY <1>2 DEF UndonePast
<1> SUFFICES ASSUME ~btPast.redone  PROVE TakenBackInv'
  BY <1>3 DEF TakenBackInv
<1>4. /\ OfKind(btUndo.done, "create") = OfKind(btUndo'.done, "create") \cup {c}
      /\ OncePer(btUndo'.done, "create") /\ \A x \in OfKind(btUndo'.done, "create") : x.board # c.board
  <2>1. OncePer(btUndo.done, "create")
    BY Zenon DEF TakenBackInv
  <2> QED BY <2>1, UncreatedKinds
<1>5. \A x \in OfKind(btUndo.done, "create") : x.board # 0 => btBoards[x.board].alive
  BY Zenon DEF TakenBackInv
<1>6. ASSUME NEW x \in OfKind(btUndo'.done, "create"), x.board # 0  PROVE btBoards'[x.board].alive
  <2>1. x.board \in DOMAIN btBoards
    <3>1. DOMAIN btBoards = 1 .. Len(btBoards) /\ Len(btBoards) \in Nat
      BY DEF MadeTypes
    <3>2. x.board \in 0 .. Len(btBoards)
      BY <1>4, <1>6, UndoOf, LinkCommandOf
    <3> QED BY <1>6, <3>1, <3>2
  <2>2. btBoards'[x.board] = btBoards[x.board]
    BY <1>1, <1>4, <1>6, <2>1
  <2>3. btBoards[x.board].alive
    BY <1>4, <1>5, <1>6
  <2> QED BY <2>2, <2>3, Zenon
<1>7. \A d \in DOMAIN btBoards : HasChannel(btBoards[d]) => LinkIsLater(btUndo.done, d)
  BY <1>2, Zenon DEF TakenBackInv, HasChannel, IsLast
<1>8. ~HasChannel(btBoards[c.board])
  <2> SUFFICES ASSUME HasChannel(btBoards[c.board])  PROVE FALSE
    OBVIOUS
  <2>1. PICK j \in DOMAIN btUndo.done :
          \A i \in DOMAIN btUndo.done : btUndo.done[i].kind = "create" /\ btUndo.done[i].board = c.board => i < j
    BY <1>1, <1>7, Zenon DEF LinkIsLater
  <2>2. Len(btUndo.done) \in DOMAIN btUndo.done /\ btUndo.done[Len(btUndo.done)] = c
    BY <1>2, LastCommand
  <2>3. Len(btUndo.done) < j
    BY <1>2, <2>1, <2>2
  <2>4. DOMAIN btUndo.done = 1 .. Len(btUndo.done) /\ Len(btUndo.done) \in Nat
    BY UndoOf
  <2> QED BY <2>3, <2>4
<1>9. \A d \in DOMAIN btBoards : HasChannel(btBoards'[d]) <=> HasChannel(btBoards[d])
  BY <1>1, Zenon DEF HasChannel
<1>10. ASSUME NEW d \in DOMAIN btBoards, ~btBoards'[d].alive \/ d \in btPast.unlinked  PROVE ~HasChannel(btBoards'[d])
  <2>1. CASE d = c.board
    BY <1>8, <1>9, <2>1, Zenon
  <2>2. CASE d # c.board
    <3>1. btBoards'[d] = btBoards[d]
      BY <1>1, <2>2
    <3>2. ~btBoards[d].alive \/ d \in btPast.unlinked
      BY <1>10, <3>1, Zenon
    <3>3. ~HasChannel(btBoards[d])
      BY <3>2, Zenon DEF TakenBackInv, HasChannel
    <3> QED BY <3>1, <3>3, Zenon
  <2> QED BY <2>1, <2>2
<1>11. ASSUME NEW d \in DOMAIN btBoards, d \notin UnderWay', btPast.asked[d] \notin btPast.lost, btBoards'[d].alive, d \notin btPast.unlinked
       PROVE  btBoards'[d].channel = btPast.asked[d]
  <2>1. UnderWay' = UnderWay
    BY <1>2 DEF UnderWay
  <2>2. btBoards[d].alive
    <3>1. CASE d = c.board
      BY <1>1, <1>5, <3>1
    <3>2. CASE d # c.board
      <4>1. btBoards'[d] = btBoards[d]
        BY <1>1, <3>2
      <4> QED BY <1>11, <4>1, Zenon
    <3> QED BY <3>1, <3>2
  <2>3. btBoards[d].channel = btPast.asked[d]
    BY <1>11, <2>1, <2>2, Zenon DEF TakenBackInv
  <2> QED BY <1>1, <2>3
<1>12. ASSUME NEW d \in DOMAIN btBoards, HasChannel(btBoards'[d])  PROVE LinkIsLater(btUndo'.done, d)
  <2>1. LinkIsLater(btUndo.done, d)
    BY <1>7, <1>9, <1>12, Zenon
  <2>2. c.kind # "link"
    BY <1>2
  <2> QED BY <1>2, <2>1, <2>2, BackLater
<1>13. \A d \in DOMAIN btBoards' : ~btBoards'[d].alive \/ d \in btPast'.unlinked => btBoards'[d].channel = ""
  BY <1>1, <1>2, <1>10, Zenon DEF HasChannel
<1>14. ~btUndo'.stuck => \A d \in DOMAIN btBoards' : btBoards'[d].channel # "" => LinkIsLater(btUndo'.done, d)
  BY <1>1, <1>12, Zenon DEF HasChannel
<1>15. \A d \in DOMAIN btBoards' :
         d \notin UnderWay' /\ btPast'.asked[d] \notin btPast'.lost /\ btBoards'[d].alive /\ d \notin btPast'.unlinked =>
           btBoards'[d].channel = btPast'.asked[d]
  BY <1>1, <1>2, <1>3, <1>11, Zenon
<1> QED BY <1>4, <1>6, <1>13, <1>14, <1>15, Zenon DEF TakenBackInv

LEMMA UncreatedShown ==
  ASSUME MadeTypes, ShownInv, NEW c, NEW fails, Uncreated(c, fails)
  PROVE  ShownInv'
<1>1. /\ c.board \in DOMAIN btBoards /\ c.board # 0 /\ DOMAIN btBoards' = DOMAIN btBoards /\ c \in OfKind(btUndo.done, "create")
      /\ \A d \in DOMAIN btBoards \ {c.board} : btBoards'[d] = btBoards[d]
  BY UncreatedFacts
<1>2. /\ IsLast(c) /\ c.kind = "create" /\ btUndo' = Back(c) /\ btTasks' = btTasks /\ UndonePast
      /\ btPage' = IF c.task.from = "selector" THEN c.task.before ELSE btPage
  BY DEF Uncreated
<1>3. btPast'.redone = btPast.redone /\ (~btPast'.overtaken => ~btPast.overtaken /\ btTasks = <<>>)
  BY <1>2 DEF UndonePast
<1> SUFFICES ASSUME ~btPast.redone, ~btPast.overtaken, btTasks = <<>>  PROVE ShownInv'
  BY <1>3 DEF ShownInv
<1>4. OfKind(btUndo.done, "create") = OfKind(btUndo'.done, "create") \cup {c}
  BY UncreatedKinds
<1>5. SeenBoards' = {btPage'} \cup {x.task.before : x \in OfKind(btUndo'.done, "create")}
  BY <1>2 DEF SeenBoards
<1>6. SeenBoards' \subseteq SeenBoards
  BY <1>1, <1>2, <1>4, <1>5 DEF SeenBoards
<1>7. MadeBefore(btUndo.done)
  BY Zenon DEF ShownInv
<1>8. /\ DOMAIN btUndo.done = 1 .. Len(btUndo.done) /\ Len(btUndo.done) \in Nat
      /\ Len(btUndo.done) \in DOMAIN btUndo.done /\ btUndo.done[Len(btUndo.done)] = c
  BY <1>2, LastCommand, UndoOf
<1>9. \A x \in OfKind(btUndo.done, "create") : x.task.before # c.board
  <2> SUFFICES ASSUME NEW x \in OfKind(btUndo.done, "create"), x.task.before = c.board  PROVE FALSE
    OBVIOUS
  <2>1. PICK j \in DOMAIN btUndo.done : btUndo.done[j] = x /\ btUndo.done[j].kind = "create"
    BY DEF OfKind
  <2>2. Len(btUndo.done) < j
    BY <1>1, <1>2, <1>7, <1>8, <2>1 DEF MadeBefore
  <2> QED BY <1>8, <2>1, <2>2
<1>10. btPage' # c.board
  <2>1. CASE c.task.from = "selector"
    BY <1>1, <1>2, <1>9, <2>1
  <2>2. CASE c.task.from # "selector"
    <3>1. btPage \in SeenBoards
      BY DEF SeenBoards
    <3>2. btPage # c.board
      BY <1>1, <2>2, <3>1, Zenon DEF ShownInv
    <3> QED BY <1>2, <2>2, <3>2
  <2> QED BY <2>1, <2>2
<1>11. c.board \notin SeenBoards'
  BY <1>4, <1>5, <1>9, <1>10
<1>12. ASSUME NEW p \in SeenBoards' \ {0}
       PROVE  btBoards'[p].alive /\ \A x \in OfKind(btUndo'.done, "create") : x.board = p => x.task.from = "selector"
  <2>1. btBoards[p].alive /\ \A x \in OfKind(btUndo.done, "create") : x.board = p => x.task.from = "selector"
    BY <1>6, <1>12, Zenon DEF ShownInv
  <2>2. p \in DOMAIN btBoards
    <3>1. \A x \in OfKind(btUndo.done, "create") : x.task.before \in 0 .. Len(btBoards)
      BY UndoOf, LinkCommandOf
    <3>2. btPage \in 0 .. Len(btBoards) /\ DOMAIN btBoards = 1 .. Len(btBoards) /\ Len(btBoards) \in Nat
      BY DEF MadeTypes
    <3>3. btPage' \in 0 .. Len(btBoards)
      BY <1>1, <1>2, <3>1, <3>2
    <3> QED BY <1>4, <1>5, <1>12, <3>1, <3>2, <3>3
  <2>3. btBoards'[p] = btBoards[p]
    BY <1>1, <1>11, <1>12, <2>2
  <2>4. btBoards'[p].alive
    BY <2>1, <2>3, Zenon
  <2> QED BY <1>4, <2>1, <2>4
<1>13. MadeBefore(btUndo'.done)
  BY <1>2, <1>7, BackBefore
<1> QED BY <1>12, <1>13, Zenon DEF ShownInv

----------------------------------------------------------------------------
\* A link is undone: the board has no channel.
Unlinked(c) ==
  /\ IsLast(c) /\ c.kind = "link" /\ btUndo' = Back(c) /\ UndonePast
  /\ btPast'.unlinked = btPast.unlinked \cup {c.board}
  /\ btBoards' = [btBoards EXCEPT ![c.board].channel = IF c.channel = "" THEN @ ELSE ""]
  /\ btTasks' = btTasks /\ btPage' = btPage

LEMMA UnlinkedFacts ==
  ASSUME MadeTypes, LinkInv, NEW c, Unlinked(c)
  PROVE  /\ c.board \in DOMAIN btBoards /\ c.board # 0 /\ c.channel = btPast.asked[c.board]
         /\ btBoards' \in Seq(BtBoardRecs) /\ Len(btBoards') = Len(btBoards) /\ DOMAIN btBoards' = DOMAIN btBoards
         /\ ~HasChannel(btBoards'[c.board]) /\ \A d \in DOMAIN btBoards \ {c.board} : btBoards'[d] = btBoards[d]
         /\ \A d \in DOMAIN btBoards : btBoards'[d].of = btBoards[d].of /\ (btBoards'[d].alive <=> btBoards[d].alive)
         /\ OneMore(btUndo.done, btUndo'.done, c) /\ OneMore(btUndo'.undone, btUndo.undone, c)
         /\ c \in OfKind(btUndo.done, "link")
<1>1. /\ IsLast(c) /\ c.kind = "link" /\ btUndo' = Back(c)
      /\ btBoards' = [btBoards EXCEPT ![c.board].channel = IF c.channel = "" THEN btBoards[c.board].channel ELSE ""]
  BY DEF Unlinked
<1>2. c \in OfKind(btUndo.done, "link")
  BY <1>1, LastCommand
<1>3. c.channel = btPast.asked[c.board] /\ btBoards[c.board].channel = c.channel
  BY <1>2, Zenon DEF LinkInv
<1>4. c.board \in 1 .. Len(btBoards)
  BY <1>2, UndoOf, LinkCommandOf
<1>5. c.board \in DOMAIN btBoards /\ c.board # 0
  BY <1>4 DEF MadeTypes
<1>6. btBoards' = [btBoards EXCEPT ![c.board].channel = ""]
  <2>1. (IF c.channel = "" THEN btBoards[c.board].channel ELSE "") = ""
    BY <1>3, Zenon
  <2> QED BY <1>1, <2>1, Zenon
<1>7. "" \in BtPlaces
  BY NamesApart
<1>8. /\ btBoards' \in Seq(BtBoardRecs) /\ Len(btBoards') = Len(btBoards) /\ DOMAIN btBoards' = DOMAIN btBoards
      /\ btBoards'[c.board].channel = "" /\ \A d \in DOMAIN btBoards \ {c.board} : btBoards'[d] = btBoards[d]
      /\ \A d \in DOMAIN btBoards : btBoards'[d].of = btBoards[d].of /\ (btBoards'[d].alive <=> btBoards[d].alive)
  BY <1>5, <1>6, <1>7, ChannelPatched, Zenon
<1>9. ~HasChannel(btBoards'[c.board])
  BY <1>8, Zenon DEF HasChannel
<1>10. OneMore(btUndo.done, btUndo'.done, c) /\ OneMore(btUndo'.undone, btUndo.undone, c)
  BY <1>1, BackFacts
<1> QED BY <1>2, <1>3, <1>5, <1>8, <1>9, <1>10, Zenon

LEMMA UnlinkedKinds ==
  ASSUME MadeTypes, LinkInv, NEW c, Unlinked(c)
  PROVE  /\ OfKind(btUndo.done, "link") = OfKind(btUndo'.done, "link") \cup {c} /\ OncePer(btUndo'.done, "link")
         /\ \A x \in OfKind(btUndo'.done, "link") : x.board # c.board
         /\ OfKind(btUndo'.undone, "link") = OfKind(btUndo.undone, "link") \cup {c} /\ OncePer(btUndo'.undone, "link")
         /\ OfKind(btUndo'.done, "create") = OfKind(btUndo.done, "create") /\ (OncePer(btUndo.done, "create") => OncePer(btUndo'.done, "create"))
<1>1. /\ OneMore(btUndo.done, btUndo'.done, c) /\ OneMore(btUndo'.undone, btUndo.undone, c) /\ c.board # 0
      /\ c \in OfKind(btUndo.done, "link")
  BY UnlinkedFacts
<1>2. c.kind = "link" /\ c.kind # "create"
  BY DEF Unlinked
<1>3. OncePer(btUndo.done, "link") /\ OncePer(btUndo.undone, "link") /\ LinkedBy(btUndo.done) \cap LinkedBy(btUndo.undone) = {}
  BY Zenon DEF LinkInv
<1>4. \A x \in OfKind(btUndo.undone, "link") : x.board # c.board
  BY <1>1, <1>3 DEF LinkedBy
<1>5. /\ OfKind(btUndo.done, "link") = OfKind(btUndo'.done, "link") \cup {c} /\ OncePer(btUndo'.done, "link")
      /\ \A x \in OfKind(btUndo'.done, "link") : x.board # c.board
  BY <1>1, <1>2, <1>3, KindsOfOneMore
<1>6. OfKind(btUndo'.undone, "link") = OfKind(btUndo.undone, "link") \cup {c} /\ OncePer(btUndo'.undone, "link")
  BY <1>1, <1>2, <1>3, <1>4, KindsOfOneMore
<1>7. OfKind(btUndo'.done, "create") = OfKind(btUndo.done, "create") /\ (OncePer(btUndo.done, "create") => OncePer(btUndo'.done, "create"))
  BY <1>1, <1>2, KindsOfOneMore
<1> QED BY <1>5, <1>6, <1>7

LEMMA UnlinkedKeeps ==
  ASSUME MadeTypes, LinkInv, UndoRemoves, ChosenInv, NEW c, Unlinked(c)
  PROVE  MadeTypes' /\ LinkInv' /\ UndoRemoves' /\ ChosenInv'
<1>1. /\ c.board \in DOMAIN btBoards /\ c.board # 0 /\ c.channel = btPast.asked[c.board]
      /\ btBoards' \in Seq(BtBoardRecs) /\ Len(btBoards') = Len(btBoards) /\ DOMAIN btBoards' = DOMAIN btBoards
      /\ ~HasChannel(btBoards'[c.board]) /\ \A d \in DOMAIN btBoards \ {c.board} : btBoards'[d] = btBoards[d]
      /\ c \in OfKind(btUndo.done, "link")
  BY UnlinkedFacts
<1>2. \A d \in DOMAIN btBoards : btBoards'[d].of = btBoards[d].of /\ (btBoards'[d].alive <=> btBoards[d].alive)
  BY UnlinkedFacts, Zenon
<1>3. /\ IsLast(c) /\ btUndo' = Back(c) /\ btTasks' = btTasks /\ btPage' = btPage /\ UndonePast
      /\ btPast'.unlinked = btPast.unlinked \cup {c.board}
  BY DEF Unlinked
<1>4. /\ btPast' \in BtPasts /\ btPast'.asked = btPast.asked /\ btPast'.channels = btPast.channels
      /\ btPast'.redone = btPast.redone /\ btPast'.lost = btPast.lost /\ btPast.unlisted \subseteq btPast'.unlisted
  BY <1>3 DEF UndonePast
<1>5. btUndo' \in BtUndos /\ KnownAll(Len(btBoards), btUndo'.done) /\ KnownAll(Len(btBoards), btUndo'.undone)
  BY <1>3, BackFacts
<1>6. /\ OfKind(btUndo.done, "link") = OfKind(btUndo'.done, "link") \cup {c} /\ OncePer(btUndo'.done, "link")
      /\ \A x \in OfKind(btUndo'.done, "link") : x.board # c.board
      /\ OfKind(btUndo'.undone, "link") = OfKind(btUndo.undone, "link") \cup {c} /\ OncePer(btUndo'.undone, "link")
      /\ OfKind(btUndo'.done, "create") = OfKind(btUndo.done, "create")
  BY UnlinkedKinds
<1>7. MadeTypes'
  <2>1. btPast.unlinked \subseteq 1 .. Len(btBoards) /\ btPage \in 0 .. Len(btBoards) /\ DOMAIN btBoards = 1 .. Len(btBoards)
    BY DEF MadeTypes
  <2>2. btPast'.unlinked \subseteq 1 .. Len(btBoards)
    BY <1>1, <1>3, <2>1
  <2> QED BY <1>1, <1>3, <1>4, <1>5, <2>1, <2>2, UndoTypes
<1>8. LinkInv'
  <2>1. TasksKept
    BY <1>3, <1>4, SameKeepsTasks
  <2>2. \A d \in DOMAIN btBoards' : HasChannel(btBoards'[d]) => btBoards'[d].channel = btPast'.asked[d]
    <3>1. \A d \in DOMAIN btBoards : HasChannel(btBoards[d]) => btBoards[d].channel = btPast.asked[d]
      BY Zenon DEF LinkInv, HasChannel
    <3> QED BY <1>1, <1>4, <3>1
  <2>3. \A x \in OfKind(btUndo'.done, "link") : x.channel = btPast'.asked[x.board] /\ btBoards'[x.board].channel = x.channel
    <3>1. \A x \in OfKind(btUndo.done, "link") : x.channel = btPast.asked[x.board] /\ btBoards[x.board].channel = x.channel
      BY Zenon DEF LinkInv
    <3>2. \A x \in OfKind(btUndo.done, "link") : x.board \in DOMAIN btBoards
      <4>1. DOMAIN btBoards = 1 .. Len(btBoards)
        BY DEF MadeTypes
      <4> QED BY <4>1, UndoOf, LinkCommandOf
    <3> QED BY <1>1, <1>4, <1>6, <3>1, <3>2
  <2>4. \A x \in OfKind(btUndo'.undone, "link") : x.channel = btPast'.asked[x.board]
    <3>1. \A x \in OfKind(btUndo.undone, "link") : x.channel = btPast.asked[x.board]
      BY Zenon DEF LinkInv
    <3> QED BY <1>1, <1>4, <1>6, <3>1
  <2>5. /\ LinkedBy(btUndo.done) = LinkedBy(btUndo'.done) \cup {c.board} /\ c.board \notin LinkedBy(btUndo'.done)
        /\ LinkedBy(btUndo'.undone) = LinkedBy(btUndo.undone) \cup {c.board}
    BY <1>6 DEF LinkedBy
  <2>6. LinkedBy(btUndo.done) \cap LinkedBy(btUndo.undone) = {}
        /\ UnderWay \cap (LinkedBy(btUndo.done) \cup LinkedBy(btUndo.undone) \cup btPast.unlinked) = {}
    BY Zenon DEF LinkInv
  <2>7. LinkedBy(btUndo'.done) \cap LinkedBy(btUndo'.undone) = {}
    BY <2>5, <2>6
  <2>8. UnderWay' \cap (LinkedBy(btUndo'.done) \cup LinkedBy(btUndo'.undone) \cup btPast'.unlinked) = {}
    BY <1>3, <2>1, <2>5, <2>6 DEF TasksKept
  <2>9. \A d \in DOMAIN btBoards' : btBoards'[d].channel # "" => btBoards'[d].channel = btPast'.asked[d]
    BY <2>2, Zenon DEF HasChannel
  <2> QED BY <1>6, <2>1, <2>3, <2>4, <2>7, <2>8, <2>9, Zenon DEF LinkInv, TasksKept
<1>9. UndoRemoves'
  <2>1. \A d \in DOMAIN btBoards :
          btBoards[d].alive /\ d \notin btPast.unlisted => \E x \in OfKind(btUndo.done, "create") : x.board = d
    BY UndoRemovesIs
  <2>2. \A d : d \notin btPast'.unlisted => d \notin btPast.unlisted
    BY <1>4
  <2> QED BY <1>1, <1>2, <1>6, <2>1, <2>2, UndoRemovesNext, Zenon
<1>10. ChosenInv'
  <2>1. \A d \in DOMAIN btBoards : btBoards'[d].of = btBoards[d].of
    BY <1>2, Zenon
  <2> QED BY <1>1, <1>3, <1>4, <2>1, ChosenSame
<1> QED BY <1>7, <1>8, <1>9, <1>10

LEMMA UnlinkedTakenBack ==
  ASSUME MadeTypes, LinkInv, TakenBackInv, NEW c, Unlinked(c)
  PROVE  TakenBackInv'
<1>1. /\ c.board \in DOMAIN btBoards /\ DOMAIN btBoards' = DOMAIN btBoards /\ ~HasChannel(btBoards'[c.board])
      /\ \A d \in DOMAIN btBoards \ {c.board} : btBoards'[d] = btBoards[d]
  BY UnlinkedFacts
<1>2. \A d \in DOMAIN btBoards : btBoards'[d].alive <=> btBoards[d].alive
  BY UnlinkedFacts, Zenon
<1>3. /\ IsLast(c) /\ btUndo' = Back(c) /\ btTasks' = btTasks /\ UndonePast
      /\ btPast'.unlinked = btPast.unlinked \cup {c.board}
  BY DEF Unlinked
<1>4. btPast'.asked = btPast.asked /\ btPast'.redone = btPast.redone /\ btPast'.lost = btPast.lost
  BY <1>3 DEF UndonePast
<1> SUFFICES ASSUME ~btPast.redone  PROVE TakenBackInv'
  BY <1>4 DEF TakenBackInv
<1>5. OfKind(btUndo'.done, "create") = OfKind(btUndo.done, "create") /\ OncePer(btUndo'.done, "create")
  <2>1. OncePer(btUndo.done, "create")
    BY Zenon DEF TakenBackInv
  <2> QED BY <2>1, UnlinkedKinds
<1>6. \A x \in OfKind(btUndo'.done, "create") : x.board # 0 => btBoards'[x.board].alive
  <2>1. \A x \in OfKind(btUndo.done, "create") : x.board # 0 => btBoards[x.board].alive
    BY Zenon DEF TakenBackInv
  <2>2. \A x \in OfKind(btUndo.done, "create") : x.board # 0 => x.board \in DOMAIN btBoards
    <3>1. DOMAIN btBoards = 1 .. Len(btBoards)
      BY DEF MadeTypes
    <3> QED BY <3>1, UndoOf, LinkCommandOf
  <2> QED BY <1>2, <1>5, <2>1, <2>2, Zenon
<1>7. \A d \in DOMAIN btBoards : HasChannel(btBoards[d]) => LinkIsLater(btUndo.done, d)
  BY <1>3, Zenon DEF TakenBackInv, HasChannel, IsLast
<1>8. ASSUME NEW d \in DOMAIN btBoards, ~btBoards'[d].alive \/ d \in btPast'.unlinked  PROVE ~HasChannel(btBoards'[d])
  <2>1. CASE d = c.board
    BY <1>1, <2>1, Zenon
  <2>2. CASE d # c.board
    <3>1. btBoards'[d] = btBoards[d]
      BY <1>1, <2>2
    <3>2. d \in btPast'.unlinked => d \in btPast.unlinked
      BY <1>3, <2>2
    <3>3. ~btBoards[d].alive \/ d \in btPast.unlinked
      BY <1>2, <1>8, <3>2, Zenon
    <3>4. ~HasChannel(btBoards[d])
      BY <3>3, Zenon DEF TakenBackInv, HasChannel
    <3> QED BY <3>1, <3>4, Zenon
  <2> QED BY <2>1, <2>2
<1>9. ASSUME NEW d \in DOMAIN btBoards, d \notin UnderWay', btPast.asked[d] \notin btPast.lost, btBoards'[d].alive, d \notin btPast'.unlinked
      PROVE  btBoards'[d].channel = btPast.asked[d]
  <2>1. UnderWay' = UnderWay
    BY <1>3 DEF UnderWay
  <2>2. d # c.board /\ d \notin btPast.unlinked
    BY <1>3, <1>9
  <2>3. btBoards'[d] = btBoards[d]
    BY <1>1, <2>2
  <2>4. btBoards[d].alive
    BY <1>2, <1>9, Zenon
  <2>5. btBoards[d].channel = btPast.asked[d]
    BY <1>9, <2>1, <2>2, <2>4, Zenon DEF TakenBackInv
  <2> QED BY <2>3, <2>5
<1>10. ASSUME NEW d \in DOMAIN btBoards, HasChannel(btBoards'[d])  PROVE LinkIsLater(btUndo'.done, d)
  <2>1. d # c.board
    BY <1>1, <1>10, Zenon
  <2>2. LinkIsLater(btUndo.done, d)
    BY <1>1, <1>7, <1>10, <2>1
  <2> QED BY <1>3, <2>1, <2>2, BackLater
<1>11. \A d \in DOMAIN btBoards' : ~btBoards'[d].alive \/ d \in btPast'.unlinked => btBoards'[d].channel = ""
  BY <1>1, <1>8, Zenon DEF HasChannel
<1>12. ~btUndo'.stuck => \A d \in DOMAIN btBoards' : btBoards'[d].channel # "" => LinkIsLater(btUndo'.done, d)
  BY <1>1, <1>10, Zenon DEF HasChannel
<1>13. \A d \in DOMAIN btBoards' :
         d \notin UnderWay' /\ btPast'.asked[d] \notin btPast'.lost /\ btBoards'[d].alive /\ d \notin btPast'.unlinked =>
           btBoards'[d].channel = btPast'.asked[d]
  BY <1>1, <1>4, <1>9, Zenon
<1> QED BY <1>5, <1>6, <1>11, <1>12, <1>13, Zenon DEF TakenBackInv

LEMMA UnlinkedShown ==
  ASSUME MadeTypes, LinkInv, ShownInv, NEW c, Unlinked(c)
  PROVE  ShownInv'
<1>1. \A d \in DOMAIN btBoards : btBoards'[d].alive <=> btBoards[d].alive
  BY UnlinkedFacts, Zenon
<1>2. IsLast(c) /\ btUndo' = Back(c) /\ btTasks' = btTasks /\ UndonePast /\ btPage' = btPage
  BY DEF Unlinked
<1>3. btPast'.redone = btPast.redone /\ (~btPast'.overtaken => ~btPast.overtaken)
  BY <1>2 DEF UndonePast
<1> SUFFICES ASSUME ~btPast.redone, ~btPast.overtaken  PROVE ShownInv'
  BY <1>3 DEF ShownInv
<1>4. OfKind(btUndo'.done, "create") = OfKind(btUndo.done, "create")
  BY UnlinkedKinds
<1>5. SeenBoards' = SeenBoards
  BY <1>2, <1>4 DEF SeenBoards
<1>6. SeenBoards \subseteq 0 .. Len(btBoards) /\ DOMAIN btBoards = 1 .. Len(btBoards) /\ Len(btBoards) \in Nat
  <2>1. \A x \in OfKind(btUndo.done, "create") : x.task.before \in 0 .. Len(btBoards)
    BY UndoOf, LinkCommandOf
  <2>2. \A j \in DOMAIN btTasks : btTasks[j].before \in 0 .. Len(btBoards)
    BY TaskOf
  <2>3. btPage \in 0 .. Len(btBoards) /\ DOMAIN btBoards = 1 .. Len(btBoards) /\ Len(btBoards) \in Nat
    BY DEF MadeTypes
  <2> QED BY <2>1, <2>2, <2>3 DEF SeenBoards
<1>7. ASSUME NEW p \in SeenBoards \ {0}
      PROVE  btBoards'[p].alive /\ \A x \in OfKind(btUndo.done, "create") : x.board = p => x.task.from = "selector"
  <2>1. p \in DOMAIN btBoards
    BY <1>6, <1>7
  <2>2. btBoards[p].alive /\ \A x \in OfKind(btUndo.done, "create") : x.board = p => x.task.from = "selector"
    BY <1>7, Zenon DEF ShownInv
  <2> QED BY <1>1, <2>1, <2>2, Zenon
<1>8. MadeBefore(btUndo'.done)
  <2>1. MadeBefore(btUndo.done)
    BY Zenon DEF ShownInv
  <2> QED BY <1>2, <2>1, BackBefore
<1> QED BY <1>4, <1>5, <1>7, <1>8, Zenon DEF ShownInv

----------------------------------------------------------------------------
LEMMA UndoKeeps ==
  ASSUME MadeInv, UndoCommand
  PROVE  MadeInv'
<1> DEFINE c == Last(btUndo.done)
<1>1. PICK fails \in BOOLEAN :
        /\ Undone(c, fails)
        /\ btPast' = [btPast EXCEPT !.clicks = @ + 1, !.faults = IF fails THEN @ + 1 ELSE @,
                        !.overtaken = @ \/ btTasks # <<>>,
                        !.unlisted = IF fails /\ c.kind = "create" THEN @ \cup {c.board} ELSE @,
                        !.unlinked = IF c.kind = "link" /\ ~fails THEN @ \cup {c.board} ELSE @]
  BY Zenon DEF UndoCommand
<1>2. btTasks' = btTasks /\ btUndo.done # <<>> /\ ~btUndo.stuck
  BY DEF UndoCommand
<1>3. MadeTypes
  BY DEF MadeInv
<1>4. IsLast(c)
  BY <1>2 DEF IsLast
<1>5. /\ c \in BtCommands /\ Known(Len(btBoards), c) /\ c \in OfKind(btUndo.done, c.kind) /\ c.kind \in {"create", "link", "delete"}
      /\ c.board \in 0 .. Len(btBoards)
  BY <1>3, <1>4, LastCommand
<1> HIDE DEF c
<1>6. /\ UndonePast /\ (fails /\ c.kind = "create" => c.board \in btPast'.unlisted)
      /\ btPast'.unlinked = IF c.kind = "link" /\ ~fails THEN btPast.unlinked \cup {c.board} ELSE btPast.unlinked
  BY <1>1, <1>3, <1>5, PastIsUndone, Zenon
<1>7. /\ btPast' \in BtPasts /\ btPast'.asked = btPast.asked /\ btPast'.channels = btPast.channels
      /\ btPast.unlisted \subseteq btPast'.unlisted
  BY <1>6 DEF UndonePast
<1>8. btPage \in 0 .. Len(btBoards) /\ Len(btBoards) \in Nat /\ btPage \in SeenBoards
  BY <1>3 DEF MadeTypes, SeenBoards
<1>9. CASE c.kind = "create"
  <2>1. /\ btPage' = IF c.task.from = "selector" THEN c.task.before ELSE btPage
        /\ IF c.board = 0 THEN Hang /\ UNCHANGED btBoards
           ELSE btUndo' = Back(c) /\ btBoards' = [btBoards EXCEPT ![c.board].alive = fails]
    BY <1>1, <1>9 DEF Undone, BeforeUndo, ShowMade
  <2>2. btPast'.unlinked = btPast.unlinked
    BY <1>6, <1>9
  <2>3. CASE c.board = 0
    <3>1. c.task.before \in 0 .. Len(btBoards) /\ c.task.before \in SeenBoards
      BY <1>5, <1>9 DEF Known, SeenBoards
    <3>2. btPage' \in 0 .. Len(btBoards) /\ btPage' \in SeenBoards
      BY <1>8, <2>1, <3>1
    <3>3. Hung
      BY <1>2, <1>7, <2>1, <2>2, <2>3, <3>2 DEF Hung, Hang
    <3> QED BY <1>6, <3>2, <3>3, HungUndo
  <2>4. CASE c.board # 0
    <3>1. btUndo' = Back(c) /\ btBoards' = [btBoards EXCEPT ![c.board].alive = fails]
      BY <2>1, <2>4, Zenon
    <3>2. fails => c.board \in btPast'.unlisted
      BY <1>6, <1>9, Zenon
    <3>3. Uncreated(c, fails)
      BY <1>2, <1>4, <1>6, <1>9, <2>1, <2>2, <2>4, <3>1, <3>2, Zenon DEF Uncreated
    <3> QED BY <3>3, UncreatedKeeps, UncreatedTakenBack, UncreatedShown DEF MadeInv
  <2> QED BY <2>3, <2>4
<1>10. CASE c.kind = "link"
  <2>1. /\ btPage' = btPage
        /\ IF fails THEN Hang /\ UNCHANGED btBoards
           ELSE btUndo' = Back(c) /\ btBoards' = [btBoards EXCEPT ![c.board].channel = IF c.channel = "" THEN @ ELSE ""]
    BY <1>1, <1>10 DEF Undone
  <2>2. CASE fails
    <3>1. btPast'.unlinked = btPast.unlinked
      BY <1>6, <2>2, Zenon
    <3>2. Hung
      BY <1>2, <1>7, <1>8, <2>1, <2>2, <3>1 DEF Hung, Hang
    <3> QED BY <1>6, <1>8, <2>1, <3>2, HungUndo
  <2>3. CASE ~fails
    <3>1. btPast'.unlinked = btPast.unlinked \cup {c.board}
      BY <1>6, <1>10, <2>3, Zenon
    <3>2. btUndo' = Back(c) /\ btBoards' = [btBoards EXCEPT ![c.board].channel = IF c.channel = "" THEN @ ELSE ""]
      BY <2>1, <2>3, Zenon
    <3>3. Unlinked(c)
      BY <1>2, <1>4, <1>6, <1>10, <2>1, <3>1, <3>2, Zenon DEF Unlinked
    <3> QED BY <3>3, UnlinkedKeeps, UnlinkedTakenBack, UnlinkedShown DEF MadeInv
  <2> QED BY <2>2, <2>3
<1>11. CASE c.kind = "delete"
  <2>1. btUndo' = Back(c) /\ btPage' = 0 /\ btBoards' = btBoards
    BY <1>1, <1>11 DEF Undone, ShowMade
  <2>2. btPast'.unlinked = btPast.unlinked
    BY <1>6, <1>11
  <2> QED BY <1>2, <1>4, <1>6, <1>11, <2>1, <2>2, UndoneDelete
<1> QED BY <1>5, <1>9, <1>10, <1>11

----------------------------------------------------------------------------
(***************************************************************************)
(* Redo.                                                                    *)
(***************************************************************************)
RedonePast ==
  /\ btPast' \in BtPasts /\ btPast'.channels = btPast.channels /\ btPast'.redone
  /\ btPast'.unlisted = btPast.unlisted /\ btPast'.unlinked = btPast.unlinked
  /\ btPast'.asked = IF Len(btBoards') > Len(btBoards) THEN Append(btPast.asked, "") ELSE btPast.asked

LEMMA PastIsRedone ==
  ASSUME MadeTypes, NEW fails \in BOOLEAN,
         btPast' = [btPast EXCEPT !.clicks = @ + 1, !.faults = IF fails THEN @ + 1 ELSE @, !.redone = TRUE,
                        !.asked = IF Len(btBoards') > Len(btBoards) THEN Append(@, "") ELSE @]
  PROVE  RedonePast
<1> DEFINE k == btPast.clicks + 1
           f == IF fails THEN btPast.faults + 1 ELSE btPast.faults
           a == IF Len(btBoards') > Len(btBoards) THEN Append(btPast.asked, "") ELSE btPast.asked
<1>1. btPast' = [btPast EXCEPT !.clicks = k, !.faults = f, !.redone = TRUE, !.asked = a]
  OBVIOUS
<1>2. k \in Nat /\ f \in Nat
  BY PastOf
<1>3. a \in Seq(BtPlaces)
  <2>1. Append(btPast.asked, "") \in Seq(BtPlaces) /\ btPast.asked \in Seq(BtPlaces)
    BY PastOf, NamesApart, AppendedOne
  <2> QED BY <2>1, Zenon
<1>4. btPast \in BtPasts
  BY DEF MadeTypes
<1> HIDE DEF k, f, a
<1>5. /\ btPast' \in BtPasts /\ btPast'.channels = btPast.channels /\ btPast'.redone /\ btPast'.asked = a
      /\ btPast'.unlisted = btPast.unlisted /\ btPast'.unlinked = btPast.unlinked
  BY ZenonT(60), <1>1, <1>2, <1>3, <1>4 DEF BtPasts
<1> QED BY <1>5, Zenon DEF RedonePast, a

\* The first of the commands that are undone.
IsFirst(c) == btUndo.undone # <<>> /\ c = Head(btUndo.undone)

LEMMA FirstOne ==
  ASSUME MadeTypes, NEW c, IsFirst(c)
  PROVE  /\ c \in BtCommands /\ Known(Len(btBoards), c) /\ c \in OfKind(btUndo.undone, c.kind)
         /\ c.kind \in {"create", "link", "delete"} /\ c.board \in 0 .. Len(btBoards)
<1>1. btUndo.undone \in Seq(BtCommands) /\ KnownAll(Len(btBoards), btUndo.undone) /\ btUndo.undone # <<>> /\ c = Head(btUndo.undone)
  BY UndoOf DEF IsFirst
<1>2. 1 \in DOMAIN btUndo.undone /\ btUndo.undone[1] = c /\ c \in BtCommands
  <2>1. /\ Len(btUndo.undone) \in Nat \ {0} /\ DOMAIN btUndo.undone = 1 .. Len(btUndo.undone)
        /\ Head(btUndo.undone) = btUndo.undone[1] /\ Head(btUndo.undone) \in BtCommands
    BY <1>1, TailOf, Zenon
  <2> QED BY <1>1, <2>1
<1>3. Known(Len(btBoards), c)
  BY <1>1, <1>2 DEF KnownAll
<1>4. c.kind \in {"create", "link", "delete"}
  BY <1>2, CommandOf
<1>5. c \in OfKind(btUndo.undone, c.kind)
  BY <1>2 DEF OfKind
<1> QED BY <1>2, <1>3, <1>4, <1>5 DEF Known

LEMMA ForwardFacts ==
  ASSUME MadeTypes, NEW c, IsFirst(c), NEW x \in BtCommands, btUndo' = Forward(x),
         NEW n \in Nat, Len(btBoards) <= n, Known(n, x)
  PROVE  /\ btUndo' \in BtUndos /\ OneMore(btUndo'.done, btUndo.done, x) /\ OneMore(btUndo.undone, btUndo'.undone, c)
         /\ KnownAll(n, btUndo'.done) /\ KnownAll(n, btUndo'.undone)
<1> DEFINE d == Append(btUndo.done, x)
           u == Tail(btUndo.undone)
<1>1. btUndo.done \in Seq(BtCommands) /\ btUndo.undone \in Seq(BtCommands) /\ btUndo.undone # <<>> /\ c = Head(btUndo.undone)
  BY UndoOf DEF IsFirst
<1>2. KnownAll(n, btUndo.done) /\ KnownAll(n, btUndo.undone)
  BY UndoOf, KnownLater
<1>3. d \in Seq(BtCommands) /\ u \in Seq(BtCommands)
  BY <1>1, BtAppended, TailOf
<1>4. OneMore(d, btUndo.done, x) /\ OneMore(btUndo.undone, u, c)
  BY <1>1, OneMoreAppended, OneMoreThanTail
<1>5. btUndo' = [btUndo EXCEPT !.undone = u, !.done = d] /\ btUndo \in BtUndos
  BY DEF Forward, MadeTypes
<1> HIDE DEF d, u
<1>6. btUndo' \in BtUndos /\ btUndo'.done = d /\ btUndo'.undone = u
  BY <1>3, <1>5 DEF BtUndos
<1>7. KnownAll(n, d) /\ KnownAll(n, u)
  BY <1>2, <1>4, KnownMore
<1> QED BY <1>4, <1>6, <1>7

LEMMA RemadeIs ==
  ASSUME NEW c \in BtCommands, c.kind = "create", NEW id \in Nat
  PROVE  /\ Remade(c, id) \in BtCommands /\ Remade(c, id).kind = "create" /\ Remade(c, id).board = id
         /\ Remade(c, id).task = c.task
<1> DEFINE C == [kind : {"create"}, board : Nat, of : BtSources, channel : {""}, task : BtTaskRecs]
<1>1. c \in C
  BY DEF BtCommands
<1>2. /\ Remade(c, id) \in C /\ Remade(c, id).kind = "create" /\ Remade(c, id).board = id
      /\ Remade(c, id).task = c.task
  BY <1>1 DEF Remade
<1> QED BY <1>2 DEF BtCommands

\* After a redo, the less is claimed.
LEMMA RedoneLater ==
  ASSUME MadeTypes', LinkInv', UndoRemoves', RedonePast
  PROVE  MadeInv'
BY DEF RedonePast, MadeInv, ChosenInv, TakenBackInv, ShownInv

\* A command is redone that changes no board.
LEMMA ForwardSame ==
  ASSUME MadeTypes, LinkInv, UndoRemoves, NEW c, IsFirst(c), NEW x \in BtCommands, btUndo' = Forward(x), Known(Len(btBoards), x),
         c.kind # "link", x.kind # "link", UNCHANGED <<btBoards, btTasks, btPage>>, RedonePast
  PROVE  MadeTypes' /\ LinkInv' /\ UndoRemoves'
<1>1. /\ btPast' \in BtPasts /\ btPast'.asked = btPast.asked /\ btPast'.channels = btPast.channels
      /\ btPast'.unlisted = btPast.unlisted /\ btPast'.unlinked = btPast.unlinked
  <2>1. ~(Len(btBoards') > Len(btBoards))
    BY DEF MadeTypes
  <2> QED BY <2>1, Zenon DEF RedonePast
<1>2. Len(btBoards) \in Nat /\ DOMAIN btBoards = 1 .. Len(btBoards)
  BY DEF MadeTypes
<1>3. /\ btUndo' \in BtUndos /\ OneMore(btUndo'.done, btUndo.done, x) /\ OneMore(btUndo.undone, btUndo'.undone, c)
      /\ KnownAll(Len(btBoards), btUndo'.done) /\ KnownAll(Len(btBoards), btUndo'.undone)
  <2>1. Len(btBoards) <= Len(btBoards)
    BY <1>2
  <2> QED BY <1>2, <2>1, ForwardFacts
<1>4. MadeTypes'
  <2>1. /\ btBoards \in Seq(BtBoardRecs) /\ btPage \in 0 .. Len(btBoards)
        /\ btPast.unlinked \subseteq 1 .. Len(btBoards)
    BY DEF MadeTypes
  <2> QED BY <1>1, <1>3, <2>1, UndoTypes
<1>5. LinkInv'
  <2>1. TasksKept
    BY <1>1, SameKeepsTasks
  <2>2. \A y \in OfKind(btUndo.done, "link") : y.board \in DOMAIN btBoards
    BY <1>2, UndoOf, LinkCommandOf
  <2>3. OncePer(btUndo.done, "link") /\ OncePer(btUndo.undone, "link")
    BY Zenon DEF LinkInv
  <2>4. OfKind(btUndo'.done, "link") = OfKind(btUndo.done, "link") /\ OncePer(btUndo'.done, "link")
    BY <1>3, <2>3, KindsOfOneMore
  <2>5. OfKind(btUndo'.undone, "link") = OfKind(btUndo.undone, "link") /\ OncePer(btUndo'.undone, "link")
    BY <1>3, <2>3, KindsOfOneMore
  <2> QED BY <1>1, <2>1, <2>2, <2>4, <2>5, LinksSame
<1>6. UndoRemoves'
  <2>1. OfKind(btUndo.done, "create") \subseteq OfKind(btUndo'.done, "create")
    BY <1>3, KindsOfOneMore
  <2> QED BY <1>1, <2>1, UndoRemovesIs, UndoRemovesNext
<1> QED BY <1>4, <1>5, <1>6

----------------------------------------------------------------------------
\* A creation is redone with another board.
Remakes(c, x, id) ==
  /\ IsFirst(c) /\ c.kind = "create" /\ id = Len(btBoards) + 1
  /\ x \in BtCommands /\ x.kind = "create" /\ x.board = id /\ Known(id, x)
  /\ btUndo' = Forward(x) /\ btTasks' = btTasks /\ btPage' \in {btPage, id} /\ RedonePast
  /\ btBoards' \in Seq(BtBoardRecs) /\ Len(btBoards') = id /\ DOMAIN btBoards' = 1 .. id /\ DOMAIN btBoards = 1 .. Len(btBoards)
  /\ ~HasChannel(btBoards'[id]) /\ \A d \in DOMAIN btBoards : btBoards'[d] = btBoards[d]

LEMMA RemakesFacts ==
  ASSUME MadeTypes, NEW c, NEW x, NEW id, Remakes(c, x, id)
  PROVE  /\ Len(btBoards) \in Nat /\ id = Len(btBoards) + 1
         /\ btPast' \in BtPasts /\ btPast'.channels = btPast.channels
         /\ btPast'.unlisted = btPast.unlisted /\ btPast'.unlinked = btPast.unlinked
         /\ Len(btPast'.asked) = id /\ \A d \in DOMAIN btBoards : btPast'.asked[d] = btPast.asked[d]
         /\ btUndo' \in BtUndos /\ OneMore(btUndo'.done, btUndo.done, x) /\ OneMore(btUndo.undone, btUndo'.undone, c)
         /\ KnownAll(id, btUndo'.done) /\ KnownAll(id, btUndo'.undone)
<1>1. Len(btBoards) \in Nat /\ id = Len(btBoards) + 1 /\ Len(btBoards') = id
  BY DEF MadeTypes, Remakes
<1>2. Len(btBoards') > Len(btBoards) /\ id \in Nat /\ Len(btBoards) <= id
  BY <1>1
<1>3. /\ btPast' \in BtPasts /\ btPast'.channels = btPast.channels
      /\ btPast'.unlisted = btPast.unlisted /\ btPast'.unlinked = btPast.unlinked
      /\ btPast'.asked = Append(btPast.asked, "")
  BY <1>2, Zenon DEF Remakes, RedonePast
<1>4. Len(btPast'.asked) = id /\ \A d \in DOMAIN btBoards : btPast'.asked[d] = btPast.asked[d]
  <2>1. "" \in BtPlaces
    BY NamesApart
  <2> QED BY <1>1, <1>3, <2>1, AskedAppended, Zenon
<1>5. IsFirst(c) /\ x \in BtCommands /\ btUndo' = Forward(x) /\ Known(id, x)
  BY DEF Remakes
<1>6. /\ btUndo' \in BtUndos /\ OneMore(btUndo'.done, btUndo.done, x) /\ OneMore(btUndo.undone, btUndo'.undone, c)
      /\ KnownAll(id, btUndo'.done) /\ KnownAll(id, btUndo'.undone)
  BY <1>2, <1>5, ForwardFacts
<1> QED BY <1>1, <1>3, <1>4, <1>6

LEMMA RemakesKeeps ==
  ASSUME MadeTypes, LinkInv, UndoRemoves, NEW c, NEW x, NEW id, Remakes(c, x, id)
  PROVE  MadeTypes' /\ LinkInv' /\ UndoRemoves'
<1> DEFINE n == Len(btBoards)
<1>1. /\ n \in Nat /\ id = n + 1
      /\ btPast' \in BtPasts /\ btPast'.channels = btPast.channels
      /\ btPast'.unlisted = btPast.unlisted /\ btPast'.unlinked = btPast.unlinked
      /\ Len(btPast'.asked) = id /\ \A d \in DOMAIN btBoards : btPast'.asked[d] = btPast.asked[d]
      /\ btUndo' \in BtUndos /\ OneMore(btUndo'.done, btUndo.done, x) /\ OneMore(btUndo.undone, btUndo'.undone, c)
      /\ KnownAll(id, btUndo'.done) /\ KnownAll(id, btUndo'.undone)
  BY RemakesFacts
<1>2. /\ c.kind = "create" /\ x.kind = "create" /\ x.board = id /\ btTasks' = btTasks /\ btPage' \in {btPage, id}
      /\ btBoards' \in Seq(BtBoardRecs) /\ Len(btBoards') = id /\ DOMAIN btBoards' = 1 .. id /\ DOMAIN btBoards = 1 .. n
      /\ ~HasChannel(btBoards'[id]) /\ \A d \in DOMAIN btBoards : btBoards'[d] = btBoards[d]
  BY DEF Remakes
<1>3. \A j \in DOMAIN btTasks : btTasks[j].board \in 0 .. n /\ btTasks[j].before \in 0 .. n
  BY TaskOf
<1>4. btPast.unlinked \subseteq 1 .. n /\ Len(btPast.channels) \in 0 .. Len(BtNew) /\ btPage \in 0 .. n /\ btTasks \in Seq(BtTaskRecs)
  BY DEF MadeTypes
<1>5. /\ \A y \in OfKind(btUndo.done, "link") : y.board \in 1 .. n
      /\ \A y \in OfKind(btUndo.undone, "link") : y.board \in 1 .. n
  BY UndoOf, LinkCommandOf
<1> HIDE DEF n
<1>6. MadeTypes'
  <2>1. btPage' \in 0 .. id /\ btPast'.unlinked \subseteq 1 .. id
    BY <1>1, <1>2, <1>4
  <2>2. \A j \in DOMAIN btTasks : TaskKnown(id, btTasks[j])
    BY <1>1, <1>3 DEF TaskKnown
  <2> QED BY <1>1, <1>2, <1>4, <2>1, <2>2 DEF MadeTypes
<1>7. OncePer(btUndo.done, "link") /\ OncePer(btUndo.undone, "link")
  BY Zenon DEF LinkInv
<1>8. OfKind(btUndo'.done, "link") = OfKind(btUndo.done, "link") /\ OncePer(btUndo'.done, "link")
  BY <1>1, <1>2, <1>7, KindsOfOneMore
<1>9. OfKind(btUndo'.undone, "link") = OfKind(btUndo.undone, "link") /\ OncePer(btUndo'.undone, "link")
  BY <1>1, <1>2, <1>7, KindsOfOneMore
<1>10. \A d \in DOMAIN btBoards' : HasChannel(btBoards'[d]) => btBoards'[d].channel = btPast'.asked[d]
  <2>1. \A d \in DOMAIN btBoards : HasChannel(btBoards[d]) => btBoards[d].channel = btPast.asked[d]
    BY Zenon DEF LinkInv, HasChannel
  <2> QED BY <1>1, <1>2, <2>1
<1>11. \A y \in OfKind(btUndo'.done, "link") : y.channel = btPast'.asked[y.board] /\ btBoards'[y.board].channel = y.channel
  <2>1. \A y \in OfKind(btUndo.done, "link") : y.channel = btPast.asked[y.board] /\ btBoards[y.board].channel = y.channel
    BY Zenon DEF LinkInv
  <2> QED BY <1>1, <1>2, <1>5, <1>8, <2>1
<1>12. \A y \in OfKind(btUndo'.undone, "link") : y.channel = btPast'.asked[y.board]
  <2>1. \A y \in OfKind(btUndo.undone, "link") : y.channel = btPast.asked[y.board]
    BY Zenon DEF LinkInv
  <2> QED BY <1>1, <1>2, <1>5, <1>9, <2>1
<1>13. \A j \in DOMAIN btTasks' : btTasks'[j].board # 0 => btPast'.asked[btTasks'[j].board] = btTasks'[j].channel
  <2>1. \A j \in DOMAIN btTasks : btTasks[j].board # 0 => btPast.asked[btTasks[j].board] = btTasks[j].channel
    BY Zenon DEF LinkInv
  <2>2. \A j \in DOMAIN btTasks : btTasks[j].board # 0 => btTasks[j].board \in DOMAIN btBoards
    BY <1>1, <1>2, <1>3
  <2> QED BY <1>1, <1>2, <2>1, <2>2
<1>14. \A j, k \in DOMAIN btTasks' : btTasks'[j].board # 0 /\ btTasks'[j].board = btTasks'[k].board => j = k
  BY <1>2, Zenon DEF LinkInv
<1>15. LinkedBy(btUndo'.done) = LinkedBy(btUndo.done) /\ LinkedBy(btUndo'.undone) = LinkedBy(btUndo.undone) /\ UnderWay' = UnderWay
  BY <1>2, <1>8, <1>9 DEF LinkedBy, UnderWay
<1>16. /\ LinkedBy(btUndo'.done) \cap LinkedBy(btUndo'.undone) = {}
       /\ UnderWay' \cap (LinkedBy(btUndo'.done) \cup LinkedBy(btUndo'.undone) \cup btPast'.unlinked) = {}
  <2>1. /\ LinkedBy(btUndo.done) \cap LinkedBy(btUndo.undone) = {}
        /\ UnderWay \cap (LinkedBy(btUndo.done) \cup LinkedBy(btUndo.undone) \cup btPast.unlinked) = {}
    BY Zenon DEF LinkInv
  <2> QED BY <1>1, <1>15, <2>1
<1>17. \A d \in DOMAIN btBoards' : btBoards'[d].channel # "" => btBoards'[d].channel = btPast'.asked[d]
  BY <1>10, Zenon DEF HasChannel
<1>18. LinkInv'
  BY <1>8, <1>9, <1>11, <1>12, <1>13, <1>14, <1>16, <1>17, Zenon DEF LinkInv
<1>19. UndoRemoves'
  <2>1. OfKind(btUndo'.done, "create") = OfKind(btUndo.done, "create") \cup {x}
    BY <1>1, <1>2, KindsOfOneMore
  <2>2. \A d \in DOMAIN btBoards :
          btBoards[d].alive /\ d \notin btPast.unlisted => \E y \in OfKind(btUndo.done, "create") : y.board = d
    BY UndoRemovesIs
  <2>3. DOMAIN btBoards' = DOMAIN btBoards \cup {id}
    BY <1>1, <1>2
  <2> QED BY <1>1, <1>2, <2>1, <2>2, <2>3, UndoRemovesNext
<1> QED BY <1>6, <1>18, <1>19

----------------------------------------------------------------------------
\* A link is redone.
Relinked(c) ==
  /\ IsFirst(c) /\ c.kind = "link" /\ btUndo' = Forward(c) /\ btTasks' = btTasks /\ btPage' = btPage /\ RedonePast
  /\ btBoards' = [btBoards EXCEPT ![c.board].channel = c.channel]

LEMMA RelinkedKeeps ==
  ASSUME MadeTypes, LinkInv, UndoRemoves, NEW c, Relinked(c)
  PROVE  MadeTypes' /\ LinkInv' /\ UndoRemoves'
<1>1. /\ IsFirst(c) /\ c.kind = "link" /\ btUndo' = Forward(c) /\ btTasks' = btTasks /\ btPage' = btPage
      /\ btBoards' = [btBoards EXCEPT ![c.board].channel = c.channel]
  BY DEF Relinked
<1>2. c \in BtCommands /\ Known(Len(btBoards), c) /\ c \in OfKind(btUndo.undone, "link")
  BY <1>1, FirstOne
<1>3. c.board \in 1 .. Len(btBoards) /\ c.channel \in BtPlaces /\ c.board # 0 /\ c.board \in DOMAIN btBoards
      /\ DOMAIN btBoards = 1 .. Len(btBoards) /\ Len(btBoards) \in Nat
  <2>1. c.board \in 1 .. Len(btBoards) /\ c.channel \in BtPlaces
    BY <1>2, UndoOf, LinkCommandOf
  <2>2. DOMAIN btBoards = 1 .. Len(btBoards) /\ Len(btBoards) \in Nat
    BY DEF MadeTypes
  <2> QED BY <2>1, <2>2
<1>4. /\ btBoards' \in Seq(BtBoardRecs) /\ Len(btBoards') = Len(btBoards) /\ DOMAIN btBoards' = DOMAIN btBoards
      /\ btBoards'[c.board].channel = c.channel /\ \A d \in DOMAIN btBoards \ {c.board} : btBoards'[d] = btBoards[d]
      /\ \A d \in DOMAIN btBoards : btBoards'[d].of = btBoards[d].of /\ (btBoards'[d].alive <=> btBoards[d].alive)
  BY <1>1, <1>3, ChannelPatched, Zenon
<1>5. /\ btPast' \in BtPasts /\ btPast'.asked = btPast.asked /\ btPast'.channels = btPast.channels
      /\ btPast'.unlisted = btPast.unlisted /\ btPast'.unlinked = btPast.unlinked
  <2>1. ~(Len(btBoards') > Len(btBoards))
    BY <1>3, <1>4
  <2>2. RedonePast
    BY Zenon DEF Relinked
  <2> QED BY <2>1, <2>2, Zenon DEF RedonePast
<1>6. /\ btUndo' \in BtUndos /\ OneMore(btUndo'.done, btUndo.done, c) /\ OneMore(btUndo.undone, btUndo'.undone, c)
      /\ KnownAll(Len(btBoards), btUndo'.done) /\ KnownAll(Len(btBoards), btUndo'.undone)
  <2>1. Len(btBoards) <= Len(btBoards)
    BY <1>3
  <2> QED BY <1>1, <1>2, <1>3, <2>1, ForwardFacts
<1>7. MadeTypes'
  <2>1. btPage \in 0 .. Len(btBoards) /\ btPast.unlinked \subseteq 1 .. Len(btBoards)
    BY DEF MadeTypes
  <2>2. btBoards' \in Seq(BtBoardRecs) /\ Len(btBoards') = Len(btBoards)
    BY <1>4, Zenon
  <2> QED BY <1>1, <1>5, <1>6, <2>1, <2>2, UndoTypes
<1>8. /\ OncePer(btUndo.done, "link") /\ OncePer(btUndo.undone, "link") /\ LinkedBy(btUndo.done) \cap LinkedBy(btUndo.undone) = {}
      /\ UnderWay \cap (LinkedBy(btUndo.done) \cup LinkedBy(btUndo.undone) \cup btPast.unlinked) = {}
  BY Zenon DEF LinkInv
<1>9. \A y \in OfKind(btUndo.done, "link") : y.board # c.board /\ y.board \in DOMAIN btBoards
  <2>1. \A y \in OfKind(btUndo.done, "link") : y.board \in DOMAIN btBoards
    BY <1>3, UndoOf, LinkCommandOf
  <2> QED BY <1>2, <1>8, <2>1 DEF LinkedBy
<1>10. OfKind(btUndo'.done, "link") = OfKind(btUndo.done, "link") \cup {c} /\ OncePer(btUndo'.done, "link")
  BY <1>1, <1>6, <1>8, <1>9, KindsOfOneMore
<1>11. /\ OfKind(btUndo.undone, "link") = OfKind(btUndo'.undone, "link") \cup {c} /\ OncePer(btUndo'.undone, "link")
       /\ \A y \in OfKind(btUndo'.undone, "link") : y.board # c.board
  BY <1>1, <1>3, <1>6, <1>8, KindsOfOneMore
<1>12. c.channel = btPast.asked[c.board]
  BY <1>2, Zenon DEF LinkInv
<1>13. \A d \in DOMAIN btBoards' : HasChannel(btBoards'[d]) => btBoards'[d].channel = btPast'.asked[d]
  <2>1. \A d \in DOMAIN btBoards : HasChannel(btBoards[d]) => btBoards[d].channel = btPast.asked[d]
    BY Zenon DEF LinkInv, HasChannel
  <2>2. DOMAIN btBoards' = DOMAIN btBoards /\ btBoards'[c.board].channel = c.channel
        /\ \A d \in DOMAIN btBoards \ {c.board} : btBoards'[d] = btBoards[d]
    BY <1>4, Zenon
  <2> QED BY <1>5, <1>12, <2>1, <2>2
<1>14. \A y \in OfKind(btUndo'.done, "link") : y.channel = btPast'.asked[y.board] /\ btBoards'[y.board].channel = y.channel
  <2>1. \A y \in OfKind(btUndo.done, "link") : y.channel = btPast.asked[y.board] /\ btBoards[y.board].channel = y.channel
    BY Zenon DEF LinkInv
  <2>2. btBoards'[c.board].channel = c.channel /\ \A d \in DOMAIN btBoards \ {c.board} : btBoards'[d] = btBoards[d]
    BY <1>4, Zenon
  <2> QED BY <1>5, <1>9, <1>10, <1>12, <2>1, <2>2
<1>15. \A y \in OfKind(btUndo'.undone, "link") : y.channel = btPast'.asked[y.board]
  <2>1. \A y \in OfKind(btUndo.undone, "link") : y.channel = btPast.asked[y.board]
    BY Zenon DEF LinkInv
  <2> QED BY <1>5, <1>11, <2>1
<1>16. TasksKept
  BY <1>1, <1>5, SameKeepsTasks
<1>17. /\ LinkedBy(btUndo'.done) = LinkedBy(btUndo.done) \cup {c.board}
       /\ LinkedBy(btUndo.undone) = LinkedBy(btUndo'.undone) \cup {c.board} /\ c.board \notin LinkedBy(btUndo'.undone)
  BY <1>10, <1>11 DEF LinkedBy
<1>18. LinkedBy(btUndo'.done) \cap LinkedBy(btUndo'.undone) = {}
  BY <1>8, <1>17
<1>19. UnderWay' \cap (LinkedBy(btUndo'.done) \cup LinkedBy(btUndo'.undone) \cup btPast'.unlinked) = {}
  BY <1>5, <1>8, <1>16, <1>17 DEF TasksKept
<1>20. \A d \in DOMAIN btBoards' : btBoards'[d].channel # "" => btBoards'[d].channel = btPast'.asked[d]
  BY <1>13, Zenon DEF HasChannel
<1>21. LinkInv'
  BY <1>10, <1>11, <1>14, <1>15, <1>16, <1>18, <1>19, <1>20, Zenon DEF LinkInv, TasksKept
<1>22. UndoRemoves'
  <2>1. \A d \in DOMAIN btBoards :
          btBoards[d].alive /\ d \notin btPast.unlisted => \E y \in OfKind(btUndo.done, "create") : y.board = d
    BY UndoRemovesIs
  <2>2. OfKind(btUndo'.done, "create") = OfKind(btUndo.done, "create")
    BY <1>1, <1>6, KindsOfOneMore
  <2> QED BY <1>4, <1>5, <2>1, <2>2, UndoRemovesNext, Zenon
<1> QED BY <1>7, <1>21, <1>22

LEMMA RedoKeeps ==
  ASSUME BtTypes, MadeInv, RedoCommand
  PROVE  MadeInv'
<1> DEFINE c  == Head(btUndo.undone)
           id == Len(btBoards) + 1
<1>1. PICK fails \in BOOLEAN :
        /\ Redone(c, fails)
        /\ btPast' = [btPast EXCEPT !.clicks = @ + 1, !.faults = IF fails THEN @ + 1 ELSE @, !.redone = TRUE,
                        !.asked = IF Len(btBoards') > Len(btBoards) THEN Append(@, "") ELSE @]
  BY Zenon DEF RedoCommand
<1>2. btTasks' = btTasks /\ IsFirst(c)
  BY DEF RedoCommand, IsFirst
<1>3. MadeTypes /\ LinkInv /\ UndoRemoves
  BY DEF MadeInv
<1>4. /\ c \in BtCommands /\ Known(Len(btBoards), c) /\ c \in OfKind(btUndo.undone, c.kind) /\ c.kind \in {"create", "link", "delete"}
      /\ c.board \in 0 .. Len(btBoards)
  BY <1>2, <1>3, FirstOne
<1> HIDE DEF c
<1>5. RedonePast
  BY <1>1, <1>3, PastIsRedone
<1>6. Len(btBoards) \in Nat /\ btPage \in 0 .. Len(btBoards) /\ id \in Nat
  BY <1>3 DEF MadeTypes
<1>7. CASE Hang /\ UNCHANGED <<btBoards, btPage>>
  <2>1. /\ btPast' \in BtPasts /\ btPast'.asked = btPast.asked /\ btPast'.channels = btPast.channels
        /\ btPast'.unlisted = btPast.unlisted /\ btPast'.unlinked = btPast.unlinked
    <3>1. ~(Len(btBoards') > Len(btBoards))
      BY <1>6, <1>7
    <3> QED BY <1>5, <3>1, Zenon DEF RedonePast
  <2>2. Hung
    BY <1>2, <1>6, <1>7, <2>1 DEF Hung, Hang
  <2> QED BY <1>3, <1>5, <2>2, HungKeeps, RedoneLater
<1>8. CASE c.kind = "create" /\ btUndo' = Forward(Remade(c, 0)) /\ UNCHANGED <<btBoards, btPage>>
  <2> DEFINE x == Remade(c, 0)
  <2>1. x \in BtCommands /\ x.kind = "create" /\ x.board = 0 /\ x.task = c.task
    BY <1>4, <1>8, RemadeIs
  <2>2. btUndo' = Forward(x)
    BY <1>8
  <2> HIDE DEF x
  <2>3. Known(Len(btBoards), x)
    BY <1>4, <1>6, <1>8, <2>1 DEF Known
  <2>4. c.kind # "link" /\ x.kind # "link"
    BY <1>8, <2>1
  <2> QED BY <1>2, <1>3, <1>5, <1>8, <2>1, <2>2, <2>3, <2>4, ForwardSame, RedoneLater
<1>9. CASE /\ c.kind = "create" /\ btUndo' = Forward(Remade(c, id)) /\ btPage' \in {btPage, id}
           /\ btBoards' = Append(btBoards, [of |-> c.of, channel |-> "", alive |-> TRUE])
  <2> DEFINE x == Remade(c, id)
             b == [of |-> c.of, channel |-> "", alive |-> TRUE]
  <2>1. x \in BtCommands /\ x.kind = "create" /\ x.board = id /\ x.task = c.task
    BY <1>4, <1>6, <1>9, RemadeIs
  <2>2. btUndo' = Forward(x) /\ btBoards' = Append(btBoards, b)
    BY <1>9
  <2>3. c.of \in BtSources
    <3>1. \A y \in BtCommands : y.kind = "create" => y.of \in BtSources
      BY DEF BtCommands
    <3> QED BY <1>4, <1>9, <3>1
  <2>4. b \in BtBoardRecs /\ ~HasChannel(b)
    BY <2>3, NewBoard
  <2> HIDE DEF x, b
  <2>5. Known(id, x)
    <3>1. c.task.before \in 0 .. Len(btBoards)
      BY <1>4, <1>9 DEF Known
    <3>2. c.task.before \in 0 .. id /\ id \in 0 .. id
      BY <1>6, <3>1
    <3> HIDE DEF id
    <3> QED BY <2>1, <3>2 DEF Known
  <2>6. /\ btBoards' \in Seq(BtBoardRecs) /\ Len(btBoards') = id /\ DOMAIN btBoards' = 1 .. id /\ DOMAIN btBoards = 1 .. Len(btBoards)
        /\ btBoards'[id] = b /\ \A d \in DOMAIN btBoards : btBoards'[d] = btBoards[d]
    BY <1>3, <2>2, <2>4, BoardAppended
  <2> HIDE DEF id
  <2>7. Remakes(c, x, id)
    <3>1. id = Len(btBoards) + 1
      BY DEF id
    <3>2. ~HasChannel(btBoards'[id])
      BY <2>4, <2>6, Zenon
    <3> QED BY <1>2, <1>5, <1>9, <2>1, <2>2, <2>5, <2>6, <3>1, <3>2, Zenon DEF Remakes
  <2> QED BY <1>3, <1>5, <2>7, RemakesKeeps, RedoneLater
<1>10. CASE /\ c.kind = "link" /\ btUndo' = Forward(c) /\ btBoards' = [btBoards EXCEPT ![c.board].channel = c.channel]
            /\ btPage' = btPage
  <2>1. Relinked(c)
    BY <1>2, <1>5, <1>10, Zenon DEF Relinked
  <2> QED BY <1>3, <1>5, <2>1, RelinkedKeeps, RedoneLater
<1>11. CASE c.kind = "delete" /\ btUndo' = Forward(c) /\ UNCHANGED <<btBoards, btPage>>
  <2>1. c.kind # "link"
    BY <1>11
  <2> QED BY <1>2, <1>3, <1>4, <1>5, <1>11, <2>1, ForwardSame, RedoneLater
<1>12. \/ Hang /\ UNCHANGED <<btBoards, btPage>>
       \/ c.kind = "create" /\ btUndo' = Forward(Remade(c, 0)) /\ UNCHANGED <<btBoards, btPage>>
       \/ /\ c.kind = "create" /\ btUndo' = Forward(Remade(c, id)) /\ btPage' \in {btPage, id}
          /\ btBoards' = Append(btBoards, [of |-> c.of, channel |-> "", alive |-> TRUE])
       \/ /\ c.kind = "link" /\ btUndo' = Forward(c) /\ btBoards' = [btBoards EXCEPT ![c.board].channel = c.channel]
          /\ btPage' = btPage
       \/ c.kind = "delete" /\ btUndo' = Forward(c) /\ UNCHANGED <<btBoards, btPage>>
  BY <1>1, Zenon DEF Redone, ShowMade
<1> QED BY <1>7, <1>8, <1>9, <1>10, <1>11, <1>12

----------------------------------------------------------------------------
(***************************************************************************)
(* What is shown, in the steps that make or take back.                      *)
(***************************************************************************)
LEMMA KeptUi ==
  ASSUME UiTypes, PreviewInv, UNCHANGED <<btModal, btGlobal>>, btTeam' \in SUBSET ToSet(BtTeam),
         (\E id : ShowMade(id)) \/ UNCHANGED <<btSelector, btReqs>>
  PROVE  UiTypes' /\ PreviewInv'
<1>1. btGlobal' \in SUBSET ToSet(BtGlobal) /\ btModal' \in BtModals
  BY DEF UiTypes
<1>2. CASE \E id : ShowMade(id)
  BY <1>1, <1>2, ShownUi
<1>3. CASE UNCHANGED <<btSelector, btReqs>>
  BY <1>1, <1>3, SameUi
<1> QED BY <1>2, <1>3

LEMMA LookedUi ==
  ASSUME UiTypes, PreviewInv, CloseSelector \/ EditTemplate \/ HandleUseTemplate \/ LinkBoardTo \/ OnBoardTemplateDelete
  PROVE  UiTypes' /\ PreviewInv'
<1>1. btTeam \in SUBSET ToSet(BtTeam) /\ btGlobal \in SUBSET ToSet(BtGlobal)
  BY DEF UiTypes
<1>2. CASE CloseSelector
  <2>1. /\ btSelector' = [btSelector EXCEPT !.open = FALSE] /\ btReqs' = Unsubscribed(btReqs)
        /\ UNCHANGED <<btTeam, btGlobal, btModal>>
    BY <1>2 DEF CloseSelector
  <2> QED BY <1>1, <2>1, ShownUi
<1>3. CASE EditTemplate
  <2>1. ShowMade(0) /\ UNCHANGED <<btTeam, btGlobal, btModal>>
    BY <1>3 DEF EditTemplate
  <2> QED BY <1>1, <2>1, KeptUi
<1>4. CASE HandleUseTemplate \/ LinkBoardTo
  <2>1. UNCHANGED <<btTeam, btGlobal, btModal, btSelector, btReqs>>
    BY <1>4 DEF HandleUseTemplate, LinkBoardTo
  <2> QED BY <1>1, <2>1, KeptUi
<1>5. CASE OnBoardTemplateDelete
  <2>1. UNCHANGED <<btGlobal, btModal, btSelector, btReqs>> /\ btTeam' \subseteq btTeam
    BY <1>5 DEF OnBoardTemplateDelete
  <2> QED BY <1>1, <2>1, KeptUi
<1> QED BY <1>2, <1>3, <1>4, <1>5

LEMMA CreateUi ==
  ASSUME UiTypes, PreviewInv, CreateBoard
  PROVE  UiTypes' /\ PreviewInv'
<1>1. UNCHANGED <<btTeam, btGlobal, btModal>> /\ btTeam \in SUBSET ToSet(BtTeam)
  BY DEF CreateBoard, UiTypes
<1>2. PICK i \in DOMAIN btTasks : IF btTasks[i].of = Empty THEN AddEmptyBoard(i) ELSE DuplicateBoard(i)
  BY Zenon DEF CreateBoard
<1>3. Make(i) \/ MakeNothing(i)
  BY <1>2, Zenon DEF AddEmptyBoard, DuplicateBoard
<1>4. (\E id : ShowMade(id)) \/ UNCHANGED <<btSelector, btReqs>>
  <2>1. CASE Make(i)
    <3>1. ShowMade(Len(btBoards) + 1) \/ UNCHANGED <<btSelector, btReqs>>
      BY <2>1 DEF Make
    <3> QED BY <3>1
  <2>2. CASE MakeNothing(i)
    BY <2>2 DEF MakeNothing
  <2> QED BY <1>3, <2>1, <2>2
<1> QED BY <1>1, <1>4, KeptUi

LEMMA UndoUi ==
  ASSUME BtTypes, PreviewInv, UndoCommand
  PROVE  UiTypes' /\ PreviewInv'
<1> DEFINE c == Last(btUndo.done)
<1>1. PICK fails \in BOOLEAN : Undone(c, fails)
  BY Zenon DEF UndoCommand
<1>2. UNCHANGED <<btGlobal, btModal>> /\ IsLast(c) /\ btTeam \in SUBSET ToSet(BtTeam) /\ UiTypes /\ MadeTypes
  BY DEF UndoCommand, IsLast, BtTypes, UiTypes
<1>3. c \in BtCommands
  BY <1>2, LastCommand
<1> HIDE DEF c
<1>4. c.kind = "delete" => c.of \in ToSet(BtTeam)
  <2>1. \A x \in BtCommands : x.kind = "delete" => x.of \in ToSet(BtTeam)
    BY DEF BtCommands
  <2> QED BY <1>3, <2>1
<1>5. (\E id : ShowMade(id)) \/ UNCHANGED <<btSelector, btReqs>>
  <2>1. \/ ShowMade(c.task.before) \/ ShowMade(0) \/ UNCHANGED <<btSelector, btReqs>>
    BY <1>1 DEF Undone, BeforeUndo
  <2> QED BY <2>1
<1>6. btTeam' \in SUBSET ToSet(BtTeam)
  <2>1. btTeam' = btTeam \/ (c.kind = "delete" /\ btTeam' = btTeam \cup {c.of})
    BY <1>1, Zenon DEF Undone
  <2> QED BY <1>2, <1>4, <2>1
<1> QED BY <1>2, <1>5, <1>6, KeptUi

LEMMA RedoUi ==
  ASSUME BtTypes, PreviewInv, RedoCommand
  PROVE  UiTypes' /\ PreviewInv'
<1> DEFINE c == Head(btUndo.undone)
<1>1. PICK fails \in BOOLEAN : Redone(c, fails)
  BY Zenon DEF RedoCommand
<1>2. UNCHANGED <<btGlobal, btModal>> /\ btTeam \in SUBSET ToSet(BtTeam) /\ UiTypes
  BY DEF RedoCommand, BtTypes, UiTypes
<1> HIDE DEF c
<1>3. (\E id : ShowMade(id)) \/ UNCHANGED <<btSelector, btReqs>>
  <2>1. ShowMade(Len(btBoards) + 1) \/ UNCHANGED <<btSelector, btReqs>>
    BY <1>1, Zenon DEF Redone
  <2> QED BY <2>1
<1>4. btTeam' \in SUBSET ToSet(BtTeam)
  <2>1. btTeam' = btTeam \/ btTeam' = btTeam \ {c.of}
    BY <1>1, Zenon DEF Redone
  <2> QED BY <1>2, <2>1
<1> QED BY <1>2, <1>3, <1>4, KeptUi

----------------------------------------------------------------------------
BtInv == UiTypes /\ PreviewInv /\ MadeInv

LEMMA TemplatesInit ==
  ASSUME BtInit
  PROVE  BtInv
<1>1. btBoards = <<>> /\ btReqs = <<>> /\ btPage = 0 /\ btTasks = <<>> /\ btTeam = ToSet(BtTeam) /\ btGlobal = {}
  BY DEF BtInit
<1>2. btSelector \in BtSelectors /\ ~btSelector.open
  BY NamesApart DEF BtInit, BtSelectors
<1>3. btModal \in BtModals
  <2>1. btModal \in BtChoices /\ ~btModal.add
    BY DEF BtInit, NoModal, BtChoices
  <2> QED BY <2>1, Zenon DEF BtModals
<1>4. DOMAIN btBoards = {} /\ DOMAIN btReqs = {} /\ DOMAIN btTasks = {} /\ Len(btBoards) = 0
      /\ btBoards \in Seq(BtBoardRecs) /\ btReqs \in Seq(BtReqRecs) /\ btTasks \in Seq(BtTaskRecs)
  BY <1>1, OneOrNone
<1>5. UiTypes
  BY <1>1, <1>2, <1>3, <1>4 DEF UiTypes
<1>6. PreviewInv
  BY <1>2, <1>4 DEF PreviewInv, PreviewOfActive
<1>7. btUndo.done = <<>> /\ btUndo.undone = <<>> /\ btUndo \in BtUndos
  <2>1. btUndo = [done |-> <<>>, undone |-> <<>>, stuck |-> FALSE]
    BY DEF BtInit
  <2>2. <<>> \in Seq(BtCommands)
    BY OneOrNone
  <2> QED BY <2>1, <2>2, Zenon DEF BtUndos
<1>8. /\ btPast \in BtPasts /\ btPast.asked = <<>> /\ btPast.channels = <<>> /\ btPast.unlinked = {}
  <2>1. btPast = [clicks |-> 0, faults |-> 0, asked |-> <<>>, channels |-> <<>>, redone |-> FALSE,
                  overtaken |-> FALSE, lost |-> {}, unlisted |-> {}, unlinked |-> {}]
    BY DEF BtInit
  <2>2. <<>> \in Seq(BtPlaces) /\ <<>> \in Seq(BtSources \cup {NotAsked}) /\ 0 \in Nat
    BY OneOrNone
  <2>3. {} \in SUBSET BtPlaces /\ {} \in SUBSET Nat
    OBVIOUS
  <2> QED BY <2>1, <2>2, <2>3 DEF BtPasts
<1>9. Len(btPast.asked) = 0 /\ Len(btPast.channels) = 0 /\ DOMAIN btPast.channels = {}
  BY <1>8
<1>10. DOMAIN btUndo.done = {} /\ DOMAIN btUndo.undone = {}
  BY <1>7
<1>11. MadeTypes
  <2>1. Len(BtNew) \in Nat
    BY NewPlaces
  <2>2. KnownAll(0, btUndo.done) /\ KnownAll(0, btUndo.undone)
    BY <1>10 DEF KnownAll
  <2>3. btPage \in 0 .. Len(btBoards) /\ Len(btPast.channels) \in 0 .. Len(BtNew) /\ btPast.unlinked \subseteq 1 .. Len(btBoards)
    BY <1>1, <1>4, <1>8, <1>9, <2>1
  <2> QED BY <1>4, <1>7, <1>8, <1>9, <2>2, <2>3, Zenon DEF MadeTypes
<1>12. /\ OfKind(btUndo.done, "link") = {} /\ OncePer(btUndo.done, "link") /\ OfKind(btUndo.undone, "link") = {}
       /\ OncePer(btUndo.undone, "link") /\ OfKind(btUndo.done, "create") = {} /\ OncePer(btUndo.done, "create")
  BY <1>7, NoneOfThem
<1>13. LinkedBy(btUndo.done) = {} /\ LinkedBy(btUndo.undone) = {} /\ UnderWay = {}
  BY <1>4, <1>12 DEF LinkedBy, UnderWay
<1>14. LinkInv
  BY <1>4, <1>12, <1>13 DEF LinkInv
<1>15. UndoRemoves
  BY <1>4 DEF UndoRemoves
<1>16. ChosenInv
  BY <1>4, <1>9 DEF ChosenInv, NewFor, MadeFor
<1>17. TakenBackInv
  BY <1>4, <1>12 DEF TakenBackInv
<1>18. ShownInv
  <2>1. SeenBoards = {0}
    BY <1>1, <1>4, <1>12 DEF SeenBoards
  <2> QED BY <1>10, <2>1 DEF ShownInv, MadeBefore
<1> QED BY <1>5, <1>6, <1>11, <1>14, <1>15, <1>16, <1>17, <1>18 DEF BtInv, MadeInv

LEMMA TemplatesStep ==
  ASSUME BtInv, BtNext
  PROVE  BtInv'
<1>1. BtTypes /\ UiTypes /\ MadeTypes /\ PreviewInv /\ MadeInv
  BY DEF BtInv, MadeInv, BtTypes
<1>2. UiTypes' /\ PreviewInv'
  BY <1>1, OpenUi, SelectUi, LookedUi, ArrivePreviewUi, ArriveGlobalUi, CreateUi, OpenDialogUi, DialogUi, UndoUi, RedoUi DEF BtNext
<1>3. MadeInv'
  <2>1. CASE \/ OpenSelector \/ Select \/ CloseSelector \/ EditTemplate \/ ArrivePreview \/ ArriveGlobal
             \/ OpenChannelDialog \/ CancelDialog \/ ShowNewBoardTemplateSelector \/ ChooseTemplate
    BY <1>1, <2>1, LookedPasses, PassedKeeps
  <2>2. CASE OnBoardTemplateDelete
    BY <1>1, <2>2, DeletedPasses, PassedKeeps
  <2>3. CASE HandleUseTemplate
    BY <1>1, <2>3, UsedKeeps
  <2>4. CASE CreateBoard
    BY <1>1, <2>4, CreateKeeps
  <2>5. CASE LinkBoardTo
    BY <1>1, <2>5, LinkKeeps
  <2>6. CASE AddBoardToChannel
    BY <1>1, <2>6, AddedKeeps
  <2>7. CASE UndoCommand
    BY <1>1, <2>7, UndoKeeps
  <2>8. CASE RedoCommand
    BY <1>1, <2>8, RedoKeeps
  <2> QED BY <2>1, <2>2, <2>3, <2>4, <2>5, <2>6, <2>7, <2>8 DEF BtNext
<1> QED BY <1>2, <1>3 DEF BtInv

LEMMA TemplatesStill ==
  ASSUME BtInv, UNCHANGED btVars
  PROVE  BtInv'
<1>1. /\ btBoards' = btBoards /\ btTeam' = btTeam /\ btGlobal' = btGlobal /\ btSelector' = btSelector /\ btReqs' = btReqs
      /\ btPage' = btPage /\ btTasks' = btTasks /\ btUndo' = btUndo /\ btModal' = btModal /\ btPast' = btPast
  BY DEF btVars
<1>2. UiTypes' /\ PreviewInv'
  BY <1>1, KeptUi DEF BtInv, UiTypes
<1>3. MadeTypes
  BY DEF BtInv, MadeInv
<1>4. Passed
  <2>1. OldPast /\ btPast'.lost = btPast.lost
    BY <1>1, <1>3, Ticked
  <2> QED BY <1>1, <2>1 DEF Passed
<1>5. MadeInv'
  BY <1>4, PassedKeeps DEF BtInv
<1> QED BY <1>2, <1>5 DEF BtInv

----------------------------------------------------------------------------
LEMMA ChannelHasBoard ==
  ASSUME MadeInv, btTasks = <<>>, ~btPast.redone, NEW c \in DOMAIN btPast.channels
  PROVE  LET chosen == btPast.channels[c]
             made   == {id \in DOMAIN btBoards : btBoards[id].channel = BtNew[c]}
             undone == \E id \in btPast.unlinked \cup {b \in DOMAIN btBoards : ~btBoards[b].alive} : btPast.asked[id] = BtNew[c]
         IN
         IF chosen = NotAsked \/ undone THEN made = {}
         ELSE BtNew[c] \notin btPast.lost => \E id \in made : made = {id} /\ btBoards[id].of = chosen
<1> DEFINE chosen == btPast.channels[c]
           made   == {id \in DOMAIN btBoards : btBoards[id].channel = BtNew[c]}
           gone   == btPast.unlinked \cup {b \in DOMAIN btBoards : ~btBoards[b].alive}
<1>1. MadeTypes /\ LinkInv /\ ChosenInv /\ TakenBackInv
  BY DEF MadeInv
<1>2. BtNew[c] \in ToSet(BtNew)
  <2>1. btPast.channels \in Seq(BtSources \cup {NotAsked}) /\ Len(btPast.channels) \in 0 .. Len(BtNew)
    BY <1>1, PastOf DEF MadeTypes
  <2>2. c \in DOMAIN BtNew
    BY <2>1, NewPlaces
  <2> QED BY <2>2, NewPlaces
<1>3. \A id \in made : HasChannel(btBoards[id]) /\ id \in DOMAIN btBoards /\ btPast.asked[id] = BtNew[c]
  <2> TAKE id \in made
  <2>1. id \in DOMAIN btBoards /\ btBoards[id].channel = BtNew[c]
    OBVIOUS
  <2>2. btBoards[id].channel # ""
    BY <1>2, <2>1, NamesApart, Zenon
  <2>3. btBoards[id].channel = btPast.asked[id]
    BY <1>1, <2>1, <2>2, Zenon DEF LinkInv
  <2> QED BY <2>1, <2>2, <2>3, Zenon DEF HasChannel
<1>4. /\ \A id, other \in DOMAIN btBoards :
           btPast.asked[id] \in ToSet(BtNew) /\ btPast.asked[id] = btPast.asked[other] => id = other
      /\ chosen = NotAsked => ~MadeFor(c)
      /\ \A id \in DOMAIN btBoards : btPast.asked[id] = BtNew[c] => btBoards[id].of = chosen
      /\ chosen # NotAsked /\ BtNew[c] \notin btPast.lost => NewFor(c) \/ MadeFor(c)
  BY <1>1, Zenon DEF ChosenInv
<1>5. ~NewFor(c) /\ UnderWay = {}
  <2>1. DOMAIN btTasks = {}
    BY OneOrNone, Zenon
  <2> QED BY <2>1 DEF NewFor, UnderWay
<1>6. \A id \in gone : id \in DOMAIN btBoards /\ ~HasChannel(btBoards[id])
  <2>1. DOMAIN btBoards = 1 .. Len(btBoards) /\ btPast.unlinked \subseteq 1 .. Len(btBoards)
    BY <1>1 DEF MadeTypes
  <2>2. gone \subseteq DOMAIN btBoards
    BY <2>1
  <2>3. \A id \in DOMAIN btBoards : ~btBoards[id].alive \/ id \in btPast.unlinked => ~HasChannel(btBoards[id])
    BY <1>1, Zenon DEF TakenBackInv, HasChannel
  <2> QED BY <2>2, <2>3, Zenon
<1>7. chosen = NotAsked => made = {}
  BY <1>3, <1>4 DEF MadeFor
<1>8. (\E id \in gone : btPast.asked[id] = BtNew[c]) => made = {}
  <2> SUFFICES ASSUME NEW id \in gone, btPast.asked[id] = BtNew[c], NEW other \in made
               PROVE  FALSE
    BY Zenon
  <2>1. id \in DOMAIN btBoards /\ ~HasChannel(btBoards[id])
    BY <1>6
  <2>2. HasChannel(btBoards[other]) /\ other \in DOMAIN btBoards /\ btPast.asked[other] = BtNew[c]
    BY <1>3
  <2>3. id = other
    BY <1>2, <1>4, <2>1, <2>2
  <2> QED BY <2>1, <2>2, <2>3
<1>9. ASSUME chosen # NotAsked, \A id \in gone : btPast.asked[id] # BtNew[c], BtNew[c] \notin btPast.lost
      PROVE  \E id \in made : made = {id} /\ btBoards[id].of = chosen
  <2>1. PICK id \in DOMAIN btBoards : btPast.asked[id] = BtNew[c]
    BY <1>4, <1>5, <1>9 DEF MadeFor
  <2>2. btBoards[id].alive /\ id \notin btPast.unlinked
    <3>1. id \notin gone
      BY <1>9, <2>1
    <3> QED BY <2>1, <3>1, Zenon
  <2>3. id \notin UnderWay
    BY <1>5
  <2>4. btPast.asked[id] \notin btPast.lost
    BY <1>9, <2>1
  <2>5. btBoards[id].channel = btPast.asked[id]
    BY <1>1, <2>2, <2>3, <2>4, Zenon DEF TakenBackInv
  <2>6. id \in made
    BY <2>1, <2>5
  <2>7. \A other \in made : other = id
    BY <1>2, <1>3, <1>4, <2>1
  <2>8. btBoards[id].of = chosen
    BY <1>4, <2>1
  <2> HIDE DEF made, chosen, gone
  <2> QED BY <2>6, <2>7, <2>8
<1> QED BY <1>7, <1>8, <1>9, Zenon

LEMMA TemplatesShown ==
  ASSUME BtInv
  PROVE  BtTypeOK /\ PreviewOfActive /\ BoardForChannel /\ ChannelAsked /\ UndoRemoves /\ ShownExists
<1>1. UiTypes /\ PreviewInv /\ MadeTypes /\ LinkInv /\ UndoRemoves /\ ChosenInv /\ TakenBackInv /\ ShownInv /\ MadeInv
  BY DEF BtInv, MadeInv
<1>2. BtTypeOK
  <2>1. btSelector.active \in BtTemplates \cup {""}
    BY <1>1 DEF UiTypes, BtSelectors
  <2>2. btUndo.stuck \in BOOLEAN
    BY <1>1, UndoOf
  <2>3. btPage \in 0 .. Len(btBoards) /\ Len(btPast.asked) = Len(btBoards)
    BY <1>1 DEF MadeTypes
  <2>4. btTeam \subseteq ToSet(BtTeam) /\ btGlobal \subseteq ToSet(BtGlobal)
    BY <1>1 DEF UiTypes
  <2> QED BY <2>1, <2>2, <2>3, <2>4 DEF BtTypeOK, BtTemplates
<1>3. PreviewOfActive
  BY <1>1 DEF PreviewInv
<1>4. BoardForChannel
  <2> SUFFICES ASSUME NEW id \in DOMAIN btBoards,
                      \/ btBoards[id].channel # ""
                      \/ \E i \in DOMAIN btUndo.done : btUndo.done[i].kind = "link" /\ btUndo.done[i].board = id
               PROVE  btBoards[id].channel = btPast.asked[id]
    BY Zenon DEF BoardForChannel
  <2>1. CASE btBoards[id].channel # ""
    BY <1>1, <2>1, Zenon DEF LinkInv
  <2>2. CASE \E i \in DOMAIN btUndo.done : btUndo.done[i].kind = "link" /\ btUndo.done[i].board = id
    <3>1. PICK c \in OfKind(btUndo.done, "link") : c.board = id
      BY <2>2 DEF OfKind
    <3>2. c.channel = btPast.asked[c.board] /\ btBoards[c.board].channel = c.channel
      BY <1>1, <3>1, Zenon DEF LinkInv
    <3> QED BY <3>1, <3>2
  <2> QED BY <2>1, <2>2
<1>5. ChannelAsked
  BY <1>1, ChannelHasBoard, Zenon DEF ChannelAsked
<1>6. ShownExists
  <2> SUFFICES ASSUME btPage # 0, ~btPast.redone, ~btPast.overtaken  PROVE btBoards[btPage].alive
    BY DEF ShownExists
  <2>1. btPage \in SeenBoards \ {0}
    BY DEF SeenBoards
  <2> QED BY <1>1, <2>1, Zenon DEF ShownInv
<1> QED BY <1>1, <1>2, <1>3, <1>4, <1>5, <1>6
=============================================================================
