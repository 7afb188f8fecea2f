--------------------------- MODULE MCPatchInstall ---------------------------
(* Small catalogs and texts for the installer.                             *)
EXTENDS PatchInstall, TLC

Unit(id, file, type, anchor, block) ==
    [id |-> id, file |-> file, type |-> type, anchor |-> anchor,
     block |-> block, marks |-> {block[1]}, first |-> FALSE,
     needs |-> {}, before |-> {}, after |-> {}]
Pack(visible, units) ==
    [visible |-> visible, requires |-> {}, conflicts |-> {},
     supersedes |-> <<>>, all |-> {}, any |-> {}, none |-> {},
     verified |-> TRUE, units |-> units]

(* Unit 4 goes into the block of unit 1; unit 3 owns a new file.           *)
Insert == Unit(1, "f1", "after", <<"a">>, <<"m1", "x">>)
Change(text) == Unit(2, "f1", "replace", <<"b">>, <<"m2", text>>)
Own == Unit(3, "f2", "owned", <<>>, <<"z">>)
Nested == Unit(4, "f1", "before", <<"x">>, <<"m4">>)
Rival == Unit(5, "f1", "after", <<"a">>, <<"m5">>)

(* An adapter that two visible packs bring in.                             *)
Adapted == << Pack(TRUE, <<Insert>>),
              Pack(TRUE, <<Change("y"), Own>>),
              [Pack(FALSE, <<Nested>>) EXCEPT !.all = {1, 2}] >>
(* A newer catalog: a pack that replaces one, with a dependency.           *)
Renewed == << [Pack(TRUE, <<Change("y2")>>) EXCEPT !.requires = {3}],
              Pack(TRUE, <<Insert>>),
              [Pack(FALSE, <<[Rival EXCEPT !.needs = {2}]>>)
                  EXCEPT !.supersedes = <<2>>] >>
(* Units that give two results in two orders, which is refused.            *)
Ambiguous == << Pack(TRUE, <<Insert>>), Pack(TRUE, <<Rival>>) >>
(* A visible pack that excludes another one, which is refused.             *)
Contested == << Pack(TRUE, <<Insert>>),
                [Pack(TRUE, <<Change("y")>>) EXCEPT !.conflicts = {1}] >>

MCCatalogs == {Adapted, Renewed, Ambiguous, Contested}

(* f1 is patched, f2 is created by a unit, and f3 has no units.            *)
MCFiles == {"f1", "f2", "f3"}
MCHostTexts == [f1 |-> <<"a", "b">>, f2 |-> Absent, f3 |-> <<>>]
=============================================================================
