----------------------------- MODULE MCConversion -----------------------------
EXTENDS ConversionProperties

\* Edition 0 has a ruleset that is rejected, 1 an authors file that is, 2 stops
\* at an author it does not know, 3 reports an error in one revision, 4 and 5
\* are sound, and with 6 lib cannot be cleaned up; lib goes and comes back.
MCRepositoriesIn ==
  [e \in Editions |-> IF e = 4 THEN {"boost"} ELSE {"boost", "lib"}]
MCThrowsAt == {<<0, -1>>, <<1, 0>>, <<2, 2>>}
MCReportsAt == {<<3, 1>>}
MCUncleanable == {<<6, "lib">>}
MCWrites == {<<1, "boost">>, <<2, "boost">>, <<1, "lib">>}
MCHostsOf ==
  [r \in Repos |-> IF r = "boost" THEN <<"bitbucket", "github">> ELSE <<"bitbucket">>]
=============================================================================
