------------------------- MODULE MC_FormatChangelog -------------------------
(***************************************************************************)
(* Lists of up to 3 PRs numbered 1 or 12, with bodies that: have one entry;*)
(* have an empty category and an entry citing #12; opt out; have no       *)
(* Release Notes section; repeat an entry.  The same body under both       *)
(* numbers, and the same PR twice, are both reachable.                     *)
(***************************************************************************)
EXTENDS FormatChangelog

RN == Line("h2", "Release Notes")

MCNumbers == {1, 12}
MCEntryMentions == [t \in {"A", "A #12"} |-> IF t = "A #12" THEN {12} ELSE {}]
MCBodies ==
  { <<RN, Line("h3", "Fixed"), Line("bullet", "A")>>,
    <<RN, Line("h3", "Added"), Line("h3", "Fixed"), Line("bullet", "A #12")>>,
    <<RN, Line("plain", "NONE")>>,
    <<Line("h2", "Summary"), Line("h3", "Fixed"), Line("bullet", "A")>>,
    <<RN, Line("h3", "Fixed"), Line("bullet", "A"), Line("bullet", "A")>> }
MCMaxPRs == 3

\* PR numbers none of whose digits prefix another's: the attribution test
\* of line 201 then agrees with spec 4.6, and dedup is judged on its own.
MCDistinctNumbers == {2, 12}
=============================================================================
