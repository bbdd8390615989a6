------------------------------ MODULE MCServer ------------------------------
(***************************************************************************)
(* Instances of Server for TLC: a primary, two client connections and a    *)
(* row of three screens, "srv", "a" and "b"; "x" is an alias.              *)
(***************************************************************************)
EXTENDS Server, TLC

CONSTANTS p1, p2, none, noDir

MCProxies == {p1, p2}
MCDirs == {"left", "right"}
MCNames == {"srv", "a", "b", "x"}
MCShortNames == {"srv", "a", "b"}
MCShortClientNames == {"a", "b"}

\* The canonical names of a file that declares the screens in declared, and x as
\* an alias of aliased ("" for none).
Canon(declared, aliased) ==
    [n \in Names |-> IF n \in declared THEN n
                       ELSE IF n = "x" THEN aliased ELSE ""]

\* A row of screens, linked both ways.
Row(row) ==
    [d \in MCDirs |->
       [n \in Names |->
          LET i == {k \in DOMAIN row : row[k] = n}
              j == {IF d = "right" THEN k + 1 ELSE k - 1 : k \in i} \cap DOMAIN row
          IN  IF j = {} THEN "" ELSE row[CHOOSE k \in j : TRUE]]]

\* Options: those in on are on, those in off are off, the rest not mentioned.
Options(on, off) ==
    [o \in OptionNames |-> IF o \in on THEN "on"
                           ELSE IF o \in off THEN "off" ELSE "absent"]

File(declared, aliased, row, on, off) ==
    [canon |-> Canon(declared, aliased), links |-> Row(row), options |-> Options(on, off)]

All == {"srv", "a", "b"}
Plain   == File(All, "a", <<"srv", "a", "b">>, {}, {})
Dropping == File({"srv", "a"}, "a", <<"a", "srv">>, {"relative", "corners"}, {"needsModifiers"})
Moved == File(All, "a", <<"b", "srv", "a">>, {}, {})
Delayed == File(All, "a", <<"srv", "a", "b">>, {"delay"}, {"disableLock"})
DelayedTapping == File(MCShortNames, "", <<"srv", "a", "b">>, {"delay", "twoTap"}, {})
\* x was an alias of a and becomes one of b, while both stay declared.
Renamed == File(All, "b", <<"srv", "a", "b">>, {}, {})

MembershipConfigs == {Plain, Dropping, Moved}
SwitchingConfigs == {DelayedTapping}
DelayedConfigs == {Delayed}
RenamingConfigs == {Plain, Renamed}

\* Bound of the switching run: at most one client is being closed at a time.
OneClosing == Cardinality(oldClients) <= 1

Connections == Permutations(MCProxies)
=============================================================================
