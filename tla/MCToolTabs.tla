---------------------------- MODULE MCToolTabs ----------------------------
EXTENDS ToolTabs

CONSTANTS a, b

\* A file with one profile, edited by hand: a clicker row with a key, a second
\* switch that repeats its trigger, no timer shown, and no number in any row.
Stored ==
  [visible |-> [t \in Tabs |-> IF t = "timer" THEN 0 ELSE 2],
   delay |-> [w \in Row |-> 0],
   key |-> [p \in Place |-> CASE p = <<"clicker", 1, 1>> -> a
                              [] p[1] = "keychain" /\ p[2] = 2 -> b
                              [] OTHER -> NoKey]]
NoFile == {<<>>}
SomeFile == {<<[name |-> "p", tabs |-> Stored]>>}

\* Neither holds: MCToolTabsBehind.cfg and MCToolTabsReveal.cfg give the traces
\* of the two ways in which a tool falls behind its tab.  An edit between the
\* reading of the tabs and the start of the tool:
NeverBehind == stale = {}
\* A row that is shown with a key in it:
AddedRowsAreEmpty == [][\A t \in Tabs : AddRow(t) => UNCHANGED stale]_vars
=============================================================================
