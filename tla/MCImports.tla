------------------------------- MODULE MCImports -------------------------------
(* Three groups, two of one admission year and one without; journals of two  *)
(* rooms and two drafts that name the same lab work with other spellings.    *)
EXTENDS Imports

MCRoomCapacity == [r \in {"r1", "r2"} |-> IF r = "r1" THEN 2 ELSE 20]
MCYearOf == [g \in Group |-> IF g = "gx" THEN None ELSE "25"]
MCGroupOrder == <<"ga", "gb", "gx">>
MCTitleOrder == <<"D0", "D1", "D2", "D3", "D5">>
MCStartCatalogue ==
  [semesters |-> [s \in {"s0"} |-> TRUE], departments |-> <<>>, laboratories |-> {}, rooms |-> <<>>,
   disciplines |-> <<[code |-> None, title |-> "D0", semester |-> "s0", centers |-> {},
                      laboratories |-> {}]>>,
   works |-> <<[title |-> <<"t0", "x">>, room |-> None, disciplines |-> {1}, minutes |-> 90,
                capacity |-> 30, centers |-> {}, laboratories |-> {}, stand |-> None]>>,
   groups |-> <<>>]

E == Cell("empty", 0)
M == Cell("meta", 0)
P == Cell("person", 0)
N(n) == Cell("number", n)
T(text) == Cell("long", text)
Times(minutes) == <<E, E, Cell("time", 0), N(minutes)>>
Sheet(group, rows) == [kind |-> "group", name |-> group, rows |-> rows]
Book(room, sheets) == [room |-> room, sheets |-> sheets]
MCCatalogSheet ==
  [kind |-> "catalog", rows |-> <<<<M>>, <<M, M, M, M>>, <<N(1), T("stand"), E, T(<<"t1", "x">>)>>,
                                  <<N(2)>>, <<N(3), E, E, T(<<"t9", "x">>)>>>>]
TwoRooms ==
  <<Book("r1", <<[kind |-> "chart"], MCCatalogSheet, [kind |-> "skipped"],
      Sheet("ga", <<<<M, M>>, <<M, E, E, T("D1")>>, <<M, M, T(<<"t2", "x">>), T(<<"t1", "x">>)>>, Times(39),
                    <<N(1), P, E>>, <<E, N(2), P>>, <<N(2), P, M>>, <<N(7), P, E, M>>>>),
      Sheet("gb", <<<<M>>, <<M, M, T("D2")>>, <<E, E, M, T(<<"t1", "y">>)>>, Times(60), <<N(4), P, E>>>>),
      Sheet("gx", <<<<M>>, <<N(1), P>>>>)>>),
    Book("r2", <<
      Sheet("ga", <<<<M, E, T("D2")>>, <<E, E, N(1), N(2)>>,
                    <<E, E, Cell("short", <<"t4", "x">>), T(<<"t1", "x">>)>>, Times(200), <<N(1), P, E>>>>)>>)>>
NoYear == <<Book("r1", <<Sheet("gx", <<<<M, M, M>>, <<E, E, E>>, <<N(1), P, E>>>>)>>)>>
NoRoom == <<Book(None, <<>>)>>
MCJournals == {[semester |-> "s1", clear |-> FALSE, books |-> TwoRooms],
               [semester |-> "s1", clear |-> TRUE, books |-> TwoRooms],
               [semester |-> "s2", clear |-> FALSE, books |-> NoYear],
               [semester |-> "s3", clear |-> TRUE, books |-> NoRoom]}

Unique(discipline, title, room) ==
  [discipline |-> discipline, title |-> title, room |-> room, capacity |-> 0, minutes |-> 45]
Link(group, discipline, title, room) ==
  [group |-> group, discipline |-> discipline, title |-> title, room |-> room]
MCDrafts ==
  <<[department |-> "K", laboratory |-> "L2", fallback |-> None,
     disciplines |-> <<[code |-> <<"K", 1>>, title |-> "D1"], [code |-> <<"K", 2>>, title |-> "D3"]>>,
     unique |-> <<Unique("D1", <<"t1", "y">>, "r1"), Unique("D3", <<"t1", "x">>, "r1"),
                  Unique("D3", <<"t3", "x">>, None)>>,
     groups |-> <<"ga">>, curriculum |-> <<[group |-> "ga", code |-> <<"K", 1>>]>>,
     links |-> <<Link("ga", "D1", <<"t1", "x">>, "r1"), Link("gb", "D3", <<"t3", "y">>, None)>>],
    [department |-> "M", laboratory |-> None, fallback |-> "L1",
     disciplines |-> <<[code |-> <<"M", 1>>, title |-> "D1"]>>,
     unique |-> <<Unique("D1", <<"t3", "z">>, None)>>,
     groups |-> <<"gx">>, curriculum |-> <<>>,
     links |-> <<Link("gx", "D1", <<"t3", "x">>, None)>>]>>

Department(code, title) == [code |-> code, title |-> title]
MCOrgFiles ==
  {[departments |-> <<Department("K", "Chemistry")>>,
    laboratories |-> <<[laboratory |-> "L2", code |-> code, title |-> "Chemistry"]>>,
    rooms |-> <<[room |-> "r1", laboratory |-> "L2"]>>,
    staff |-> <<[email |-> <<"head", 1>>, role |-> "LAB_HEAD", center |-> 1, laboratory |-> "L2"]>>] :
     code \in {"K", "K2"}}

Student(email, group) ==
  [email |-> email, hint |-> "student", role |-> "STUDENT", group |-> group, record |-> None]
StaffRow(email, role, code) ==
  [email |-> email, hint |-> "staff", role |-> role, center |-> 1, code |-> code]
DisciplineRow(code, title, center) ==
  [code |-> code, title |-> title, semester |-> "s1", center |-> center]
File(type, rows) == [type |-> type, rows |-> rows]
MCDekanatFiles ==
  {File("students", <<Student(<<"25", 1>>, "gb"), Student(<<"d", 1>>, "ga")>>),
   File("students", <<Student(None, "ga")>>),
   File("staff", <<StaffRow(<<"head", 1>>, "LAB_HEAD", <<"K", 1>>)>>),
   File("disciplines", <<DisciplineRow(None, "D0", 1), DisciplineRow(<<"M", 1>>, "D5", None)>>),
   File("curriculum", <<[group |-> "gb", code |-> <<"K", 1>>]>>),
   File("groups", <<[group |-> "gb"], [group |-> "gx"]>>),
   File("lab_bindings", <<[code |-> <<"M", 1>>, center |-> 2]>>)}

ASSUME CodesAgree
================================================================================
