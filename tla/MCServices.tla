---------------------------- MODULE MCServices ----------------------------
(***************************************************************************)
(* Small instances of the services for TLC: a site of a few pages, two     *)
(* requests, two runs of the mail.                                         *)
(***************************************************************************)
EXTENDS Services

\* "a/" is the page "a" with a slash, "a#" with a fragment; "x" is another site's, "n" a
\* private address of this one
MCKeyOf   == [h \in Hrefs |-> IF h = "a/" THEN "a" ELSE h]
MCCanonOf == [h \in Hrefs |-> CASE h = "a#" -> "a" [] h = "a/" -> "A/" [] OTHER -> h]
MCLinksOf == [h \in Hrefs |-> CASE h = "s" -> <<"a", "a/", "b", "a#", "x", "n">>
                                [] h = "a" -> <<"s", "b", "c">>
                                [] h = "b" -> <<"a", "c">>
                                [] OTHER -> <<>>]
MCChildren == [f \in Files |-> IF f = "index" THEN <<"m1", "m2">> ELSE <<>>]
MCListed   == [f \in Files |-> CASE f = "m1" -> <<"b", "a#">> [] f = "m2" -> <<"c", "b">>
                                 [] f = "std" -> <<"c">> [] OTHER -> <<>>]
MCFeedPages  == <<"b">>
MCRobotsMaps == <<"index">>
MCCommonMaps == <<"m1">>

\* whoever acts are alike: runs, requests, tasks ...
MCSymmetry == Permutations(Passes)
=============================================================================
