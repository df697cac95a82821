---- MODULE MCSearchPage ----
(* Instances of SearchPage for TLC: two sections, the second without a page *)
(* for "a".                                                                 *)
EXTENDS SearchPage

MCTexts == {<<>>, <<"a">>, <<" ", "a", "b">>}
MCLabel == <<"l">>
MCQueries == {<<>>, <<"a">>, <<"a", "b">>, MCLabel}
MCContents == 0 :> <<"a">> @@ 1 :> <<"b">>

Row(id, children) == [id |-> id, children |-> children]
MCRows == <<0, 1>> :> <<Row(<<"a">>, 2), Row(<<"a", "b">>, 0)>>
       @@ <<1, 1>> :> <<Row(<<"b">>, 0)>>

MCEscape == "a" :> <<"a">> @@ "b" :> <<"b">> @@ "l" :> <<"l">> @@ " " :> <<"_", "2", "0">>
=============================
