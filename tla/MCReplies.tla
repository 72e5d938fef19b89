----------------------------- MODULE MCReplies -----------------------------
(* An instance of Replies for TLC. *)
EXTENDS Replies, FiniteSets

Names == {Layout(FALSE)[i][1] : i \in DOMAIN Layout(FALSE)}
DirNames == {Layout(TRUE)[i][1] : i \in DOMAIN Layout(TRUE)}
Small(S) == {b \in SUBSET S : Cardinality(b) <= 2}
Bits(b, c) == [d \in BOOLEAN |-> IF d THEN c ELSE b]

\* What entryBitmaps asks for, with unix privileges.
Asked ==
  Bits({"parent", "created", "modified", "finder", "node", "extDataLen", "utf8Name", "unix"},
       {"parent", "created", "modified", "node", "offspring", "utf8Name", "unix"})

\* Stat: any two fields of a file or of a directory, all of them, and what is
\* asked for. Enumerations: blocks short enough for two in a reply.
MCBitmaps ==
  [k \in Kinds |->
     CASE k = "stat" -> {Bits(b, {}) : b \in Small(Names)}
                        \cup {Bits({}, b) : b \in Small(DirNames)}
                        \cup {Bits(Names, DirNames), Asked}
       [] k = "enumerate" -> {Bits({"attributes", "launchLimit"}, {"offspring"}),
                              Bits({"longName"}, {"parent"}), Bits({}, {"utf8Name"})}
       [] OTHER -> {Bits({}, {})}]

MCMaxLen ==
  [k \in Kinds |-> CASE k = "stat" -> 120 [] k = "enumerate" -> 26 [] OTHER -> 24]

MCTimes == (0 - 20) .. 40
=============================================================================
