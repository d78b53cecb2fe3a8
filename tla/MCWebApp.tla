------------------------------ MODULE MCWebApp ------------------------------
(***************************************************************************)
(* A small instance of every component of the web application.              *)
(***************************************************************************)
EXTENDS WebApp

\* Navigation: a board of two views and a board of one.
MCNaBoards == <<"b1", "b2">>
MCNaViews == "b1" :> 2 @@ "b2" :> 1

\* BoardViews: cards of two columns, with and without a title.
MCBvValues == <<"o1", "o2", "o3">>
MCBvKeys == <<"key1", "key2", "key3">>
MCBvCards ==
  <<[value |-> "o1", title |-> 2], [value |-> "o1", title |-> 1], [value |-> "o2", title |-> 0]>>

\* CardFilters: a property of every kind of value, and three cards.
MCCfTypes == <<"select", "text", "person", "checkbox", "createdBy", "createdTime", "date", "card">>
MCCfIds == [p \in ToSet(MCCfTypes) |->
  CASE p = "select" -> <<"o1", "o2">> [] p \in {"person", "createdBy"} -> <<"u1", "u2">> [] p = "card" -> <<"k1">> [] OTHER -> <<>>]
MCCfTexts == {<<>>, <<"A">>, <<"a", "b">>}
MCCfDates == {4, 8}
MCCard(title, o, t, u, by, at, from, to, k) ==
  [title |-> title, values |-> [p \in ToSet(MCCfTypes) |->
    CASE p = "select" -> [UnsetValue EXCEPT !.ids = o] [] p = "text" -> [UnsetValue EXCEPT !.text = t]
      [] p = "person" -> [UnsetValue EXCEPT !.ids = u] [] p = "createdBy" -> [UnsetValue EXCEPT !.ids = {by}]
      [] p = "createdTime" -> [UnsetValue EXCEPT !.from = at] [] p = "date" -> [UnsetValue EXCEPT !.from = from, !.to = to]
      [] p = "card" -> [UnsetValue EXCEPT !.ids = k] [] OTHER -> UnsetValue]]
MCCfCards == <<MCCard(<<"A", "b">>, {"o1"}, <<"a", "b">>, {"u1"}, "u1", 5, 4, 8, {"k1"}),
             MCCard(<<>>, {}, <<"A">>, {}, "u2", 6, 0, 0, {}),
             MCCard(<<"a">>, {"o2"}, <<>>, {"u2"}, "u1", 9, 8, 0, {})>>

\* CardDates: two clocks that change, on either side of the date line.
MCCdZone ==
  "west" :> [at |-> 754, before |-> -8, after |-> -7] @@ "east" :> [at |-> 734, before |-> 13, after |-> 12]

\* CardContents: a row of three and a content alone.
MCCcFirst == <<<<"k1", "k2", "k3">>, <<"k4">>>>
MCCcFresh == <<"k5">>

\* Sharing: a channel with and one without the other user.
MCShChannels == "c1" :> {"me", "bob"} @@ "c2" :> {"me"}

\* Calculations: three cards with numbers, without and with equal ones.
MCClValues == "number" :> {Unset, Number(125)} @@ "text" :> {Word(1)}
   @@ "checkbox" :> {Unset, Word(1)} @@ "multiSelect" :> {List(<<>>), List(<<2, 1>>)}
   @@ "date" :> {Dates(9, 3)} @@ "createdTime" :> {}
MCClFirst == <<Title :> Word(1) @@ 1 :> Number(-50) @@ 2 :> Unset @@ Created :> Instant(5),
               Title :> Unset @@ 1 :> Number(125) @@ 2 :> Number(100) @@ Created :> Instant(5),
               Title :> Number(7) @@ 1 :> Number(100) @@ 2 :> Number(100) @@ Created :> Instant(8)>>

\* ChannelBoards: one search finds both boards, one none.
MCCbMatches == "" :> CbBoards @@ "x" :> {}

\* BoardTemplates: one template of the installation, two of the team.
MCBtGlobal == <<"g1">>
MCBtTeam == <<"t1", "t2">>
MCBtNew == <<"n1", "n2">>

\* TeamLoad: two teams, of which one may be left.
MCLdTeams == <<"t1", "t2">>
=============================================================================
