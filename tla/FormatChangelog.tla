-------------------------- MODULE FormatChangelog --------------------------
(***************************************************************************)
(* format_changelog_from_prs of .github/scripts/release-notes.py: one step *)
(* per PR record of the `for pr in prs` loop (extract, skip on None or     *)
(* opt-out, parse, format and collect every entry), then one step that     *)
(* renders the collected entries in the fixed category order.              *)
(*                                                                         *)
(* A PR record is its number and its body; url, author and author_url are  *)
(* functions of the number (github's URLs are), so a formatted entry is    *)
(* its text and the number it was attributed to.  Reading the JSON file is *)
(* not modelled: prs is any sequence of at most MaxPRs records.            *)
(***************************************************************************)
EXTENDS ReleaseNotesOps

CONSTANTS
  Numbers,       \* PR numbers (positive integers, their digits matter)
  Bodies,        \* PR bodies, as sequences of lines
  EntryMentions, \* [entry text -> the PR numbers it already cites]
  MaxPRs         \* bound on the length of the PR list

ASSUME Numbers \subseteq Nat \ {0} /\ MaxPRs \in Nat

PR == [number : Numbers, body : Bodies]

\* The attribution of a formatted entry that was left as it was.
NoAttribution == 0

Formatted == [text : DOMAIN EntryMentions, pr : Numbers \cup {NoAttribution}]

-----------------------------------------------------------------------------
(* f"#{pr_number}" and pr_url end in the decimal digits of the number.     *)
(* An entry that cites PR m contains "#m" and .../pull/m, so the substring *)
(* test `f"#{n}" in entry or url_n in entry` holds when the digits of n    *)
(* are a prefix of the digits of some cited m.                             *)
(***************************************************************************)
RECURSIVE DecimalDigits(_)
DecimalDigits(n) ==
  IF n < 10 THEN <<n>> ELSE DecimalDigits(n \div 10) \o <<n % 10>>

ContainsPRRef(t, n) ==
  \E m \in EntryMentions[t] : IsPrefix(DecimalDigits(n), DecimalDigits(m))

\* The entry with its PR link and author, unless it already has one.
FormatEntry(t, n) ==
  IF ContainsPRRef(t, n)
  THEN [text |-> t, pr |-> NoAttribution]
  ELSE [text |-> t, pr |-> n]

\* all_categories: the keys created and the list of each category.
CollectInit ==
  [keys    |-> {},
   entries |-> [c \in ValidCategory |-> <<>>]]

\* Mutant of CollectEntry: the duplicate check is left out.
CollectEntryNoDedup(all, n, c, t) ==
  [all EXCEPT !.entries[c] = Append(@, FormatEntry(t, n))]

\* Mutant of CollectEntry: the duplicate check compares the raw entry text.
CollectEntryRawDedup(all, n, c, t) ==
  IF \E i \in DOMAIN all.entries[c] : all.entries[c][i].text = t
  THEN all
  ELSE [all EXCEPT !.entries[c] = Append(@, FormatEntry(t, n))]

\* if formatted_entry not in all_categories[category]: append it.
CollectEntry(all, n, c, t) ==
  IF Contains(all.entries[c], FormatEntry(t, n))
  THEN all
  ELSE [all EXCEPT !.entries[c] = Append(@, FormatEntry(t, n))]

\* The (category, entry) pairs of a parsed dict, in dict and list order.
EntryPairs(cats) ==
  FlattenSeq([j \in DOMAIN cats.keys |->
                LET c == cats.keys[j]
                IN  [e \in DOMAIN cats.entries[c] |-> <<c, cats.entries[c][e]>>]])

\* Mutant of CollectPR: the keys of the PR's categories are not created.
CollectPRNoKeys(all, n, cats) ==
  FoldLeft(LAMBDA a, p : CollectEntry(a, n, p[1], p[2]), all, EntryPairs(cats))

\* The nested loops over categories.items() and entries of one PR.
CollectPR(all, n, cats) ==
  FoldLeft(LAMBDA a, p : CollectEntry(a, n, p[1], p[2]),
           [all EXCEPT !.keys = @ \cup ToSet(cats.keys)],
           EntryPairs(cats))

\* category_order, written out again in format_changelog_from_prs.
CategoryOrder == <<"Added", "Changed", "Deprecated", "Removed", "Fixed", "Security">>

\* A line of the rendered text: a "### " heading, a "- " bullet or blank.
NoEntry == [text |-> "", pr |-> NoAttribution]
OutLine(k, c, f) == [kind |-> k, cat |-> c, entry |-> f]

\* Mutant of RenderCategory: a category key with an empty list is rendered.
RenderCategoryAnyKey(all, c) ==
  IF c \in all.keys
  THEN <<OutLine("h3", c, NoEntry)>>
         \o [e \in DOMAIN all.entries[c] |-> OutLine("bullet", c, all.entries[c][e])]
         \o <<OutLine("blank", c, NoEntry)>>
  ELSE <<>>

RenderCategory(all, c) ==
  IF c \in all.keys /\ all.entries[c] # <<>>
  THEN <<OutLine("h3", c, NoEntry)>>
         \o [e \in DOMAIN all.entries[c] |-> OutLine("bullet", c, all.entries[c][e])]
         \o <<OutLine("blank", c, NoEntry)>>
  ELSE <<>>

\* '\n'.join(changelog_lines).strip() drops the final blank line.
Render(all) ==
  LET ls == FlattenSeq([j \in DOMAIN CategoryOrder |-> RenderCategory(all, CategoryOrder[j])])
  IN  IF ls = <<>> THEN <<>> ELSE Front(ls)

-----------------------------------------------------------------------------
VARIABLES
  prs,     \* the PR records read from the JSON file
  k,       \* index of the next PR of the loop
  all,     \* all_categories
  pc,      \* "loop", then "done" once the text is rendered
  output   \* the returned changelog text, as lines

vars == <<prs, k, all, pc, output>>

Init ==
  /\ prs \in BoundedSeq(PR, MaxPRs)
  /\ k = 1
  /\ all = CollectInit
  /\ pc = "loop"
  /\ output = <<>>

\* One iteration of `for pr in prs`.
ProcessPR ==
  /\ pc = "loop"
  /\ k <= Len(prs)
  /\ LET pr == prs[k]
         x  == ExtractReleaseNotesSection(pr.body, TRUE)
     IN  \/ /\ ~x.found \/ IsOptOut(x.section)
            /\ UNCHANGED all
         \/ /\ x.found /\ ~IsOptOut(x.section)
            /\ all' = CollectPR(all, pr.number, ParseReleaseNotes(x.section))
  /\ k' = k + 1
  /\ UNCHANGED <<prs, pc, output>>

\* The loop is over: the changelog text is generated.
RenderChangelog ==
  /\ pc = "loop"
  /\ k > Len(prs)
  /\ output' = Render(all)
  /\ pc' = "done"
  /\ UNCHANGED <<prs, k, all>>

Next == ProcessPR \/ RenderChangelog

Spec == Init /\ [][Next]_vars

-----------------------------------------------------------------------------
(* Type invariant: all_categories is a dict of valid categories whose      *)
(* lists hold formatted entries, and only a created key has entries.       *)
TypeOK ==
  /\ prs \in Seq(PR)
  /\ k \in 1..(MaxPRs + 1)
  /\ all.keys \subseteq ValidCategory
  /\ all.entries \in [ValidCategory -> Seq(Formatted)]
  /\ \A c \in ValidCategory \ all.keys : all.entries[c] = <<>>
  /\ pc \in {"loop", "done"}

(* Reference definitions (spec 4.6): the formatted entries the PRs ps     *)
(* contribute, parsed by the stateless reference, and for each category   *)
(* the first occurrence of each formatted string, in PR and entry order.   *)
RefContributions(ps) ==
  FlattenSeq([j \in DOMAIN ps |->
    LET x == ExtractReleaseNotesSection(ps[j].body, TRUE)
        r == RefParse(CleanContent(x.section))
        e == EntryPairs(r)
    IN  IF ~x.found \/ IsOptOut(x.section)
        THEN <<>>
        ELSE [q \in DOMAIN e |-> [cat  |-> e[q][1],
                                  text |-> e[q][2],
                                  from |-> ps[j].number,
                                  f    |-> FormatEntry(e[q][2], ps[j].number)]]])

(* Spec 4.6, the attribution it asks for: the link to PR n is left out    *)
(* exactly when the entry already cites PR n (its "#n" token or its URL). *)
SpecFormatted(t, n) ==
  IF n \in EntryMentions[t]
  THEN [text |-> t, pr |-> NoAttribution]
  ELSE [text |-> t, pr |-> n]

(***************************************************************************)
(* Spec 4.6 and 8: dedup is on the final formatted string only.  After     *)
(* each PR of the loop, every entry the PRs so far contributed is in its   *)
(* category's list in its attributed form (two PRs with the same text are  *)
(* both kept, their links differ), no list holds the same string twice     *)
(* (a PR listed twice, a line repeated in one PR, or entries that already  *)
(* cite their PR collapse), and a list holds nothing else.  The code       *)
(* formats with a substring test (line 201) and dedups with `not in` on    *)
(* the list (line 207).                                                    *)
(***************************************************************************)
DedupOnFormattedString ==
  pc = "loop" =>
    LET rs == ToSet(RefContributions(SubSeq(prs, 1, k - 1)))
    IN  \A c \in ValidCategory :
          LET l == all.entries[c]
          IN  /\ \A r \in rs : r.cat = c => SpecFormatted(r.text, r.from) \in ToSet(l)
              /\ \A i, j \in DOMAIN l : i < j => l[i] # l[j]
              /\ \A i \in DOMAIN l :
                   \E r \in rs : r.cat = c /\ l[i] = SpecFormatted(r.text, r.from)

(***************************************************************************)
(* The rendered text is a changelog section: headings in the order Added,  *)
(* Changed, Deprecated, Removed, Fixed, Security, each directly followed   *)
(* by a bullet, every bullet under the heading of its category, the        *)
(* bullets of each category exactly its collected list, and no blank line  *)
(* at the end (an empty collection renders as the empty text).             *)
(***************************************************************************)
RankOf(c) == CHOOSE j \in DOMAIN VALID_CATEGORIES : VALID_CATEGORIES[j] = c

RenderedChangelogWellFormed ==
  pc = "done" =>
    LET hs == {j \in DOMAIN output : output[j].kind = "h3"}
    IN  /\ \A a, b \in hs : a < b => RankOf(output[a].cat) < RankOf(output[b].cat)
        /\ \A j \in hs : j < Len(output) /\ output[j + 1].kind = "bullet"
        /\ \A j \in DOMAIN output :
             output[j].kind = "bullet" =>
               \E h \in hs : h < j /\ output[h].cat = output[j].cat
                            /\ \A m \in (h + 1)..(j - 1) : output[m].kind = "bullet"
        /\ \A c \in ValidCategory :
             LET bs == SelectSeq(output, LAMBDA l : l.kind = "bullet" /\ l.cat = c)
             IN  [q \in DOMAIN bs |-> bs[q].entry] = all.entries[c]
        /\ output # <<>> => Last(output).kind # "blank"

(***************************************************************************)
(* Spec 4.6: the PR link is left out only when the entry "already contains *)
(* the PR number token (#<number>) or the PR URL".  Every entry a PR       *)
(* contributes is attributed to that PR or already cites it.  The code     *)
(* tests substrings, so an entry of PR #1 citing #12 fails this.           *)
(***************************************************************************)
EntriesAttributedToTheirPR ==
  \A r \in ToSet(RefContributions(SubSeq(prs, 1, k - 1))) :
    r.f.pr = r.from \/ r.from \in EntryMentions[r.text]

=============================================================================
