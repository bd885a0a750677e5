------------------------- MODULE ValidateContract -------------------------
(***************************************************************************)
(* What validate_release_notes promises (spec 4.5), as one atomic step:    *)
(* given a PR body it eventually returns the verdict the five rules give,  *)
(* computed from the section, the opt-out test and the stateless           *)
(* reference parse of ReleaseNotesOps.                                     *)
(***************************************************************************)
EXTENDS ReleaseNotesOps

CONSTANT Lines   \* the lines a PR body is made of

VARIABLES body, eol, result

avars == <<body, eol, result>>

Categories(s) == [keys |-> s.keys, entries |-> s.entries]

Verdict(valid, msg, empty, hasCats, cats) ==
  [valid |-> valid, msg |-> msg, empty |-> empty, hasCats |-> hasCats, cats |-> cats]

Pending == Verdict(FALSE, "pending", <<>>, FALSE, Categories(ParseInit))

(* Rules 1-5 of spec 4.5, in order. *)
Contract(b, e) ==
  LET x     == ExtractReleaseNotesSection(b, e)
      ref   == RefParse(CleanContent(x.section))
      empty == SelectSeq(ref.keys, LAMBDA c : ref.entries[c] = <<>>)
      none  == Categories(ParseInit)
  IN  CASE ~x.found            -> Verdict(FALSE, "not_found", <<>>, FALSE, none)
        [] IsOptOut(x.section) -> Verdict(TRUE, "opted_out", <<>>, FALSE, none)
        [] ref.keys = <<>>     -> Verdict(FALSE, "no_categories", <<>>, FALSE, none)
        [] empty # <<>>        -> Verdict(FALSE, "empty_categories", empty, FALSE, none)
        [] OTHER               -> Verdict(TRUE, "valid", <<>>, TRUE, Categories(ref))

Init ==
  /\ body \in Seq(Lines)
  /\ eol \in BOOLEAN
  /\ result = Pending

Decide ==
  /\ result = Pending
  /\ result' = Contract(body, eol)
  /\ UNCHANGED <<body, eol>>

Spec == Init /\ [][Decide]_avars /\ WF_avars(Decide)

=============================================================================
